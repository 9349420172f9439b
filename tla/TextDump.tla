------------------------------ MODULE TextDump ------------------------------
(***************************************************************************)
(* How the dump writes what was restored (dump/ch_dump.c,                  *)
(* ch_dump_fields.c, ch_dump_cr_*.c, ch_dump_block_templates.c): classes   *)
(* inside of classes, each line as far to the right as what it belongs to  *)
(* is nested.  Dump says which classes there are; this module, what is     *)
(* shown of one.                                                           *)
(*                                                                         *)
(* Memory is a sequence of bytes; a byte is a value and which of its bytes *)
(* it is, <<0, 0>> if it is 0.  What is still to be called is a stack of   *)
(* jobs, the innermost first.  A text is a sequence of words; a word is a  *)
(* tuple, of its kind and what the text says with it.                      *)
(***************************************************************************)
EXTENDS Naturals, Sequences, SequencesExt

CONSTANTS
    DataMap, NoMap,
    BaseOf,         \* base_map
    FieldsOf,       \* the saved fields of each datamap
    SizeOf,         \* ch_size of each
    Object,         \* what a custom field points to, for each value of the pointer
    Dumps           \* what is dumped, and the flag CH_DF_IGNORE_ZERO_FIELDS

Zero == <<0, 0>>

\* ch_field_type, without those that are never saved
FieldType ==
    {"VOID", "FLOAT", "STRING", "VECTOR", "QUATERNION", "INTEGER", "BOOLEAN", "SHORT", "CHARACTER",
     "COLOR32", "EMBEDDED", "CUSTOM", "CLASSPTR", "EHANDLE", "EDICT", "POSITION_VECTOR", "TIME", "TICK",
     "MODELNAME", "SOUNDNAME", "FUNCTION", "VMATRIX", "VMATRIX_WORLDSPACE", "MATRIX3X4_WORLDSPACE",
     "INTERVAL", "MODELINDEX", "MATERIALINDEX", "VECTOR2D"}

IsSequence(s) == Len(s) \in Nat /\ s = [k \in 1..Len(s) |-> s[k]]
AnyMap == DataMap \cup {NoMap}

\* A vector of classes or of values, an output with its value and actions, a variant.
ObjectOK(o) ==
    /\ o.kind = "vector" => o.map \in AnyMap /\ o.n \in Nat /\ o.size \in Nat
    /\ o.kind = "output" => o.val.map \in AnyMap /\ o.actions.map \in AnyMap /\ o.actions.n \in Nat
    /\ o.kind = "variant" => Len(o.data) \in Nat

\* A class, or a block of templates with what each says.
BlockOK(b) == IsSequence(b) /\ \A k \in DOMAIN b : b[k].map \in AnyMap /\ IsSequence(b[k].map_data)
ThingOK(t) == IF t.kind = "class" THEN t.map \in AnyMap ELSE BlockOK(t.block)

ASSUME DumpsAssumption ==
    /\ NoMap \notin DataMap
    /\ BaseOf \in [DataMap -> AnyMap] /\ SizeOf \in [DataMap -> Nat]
    /\ \A d \in DataMap :
          /\ IsSequence(FieldsOf[d])
          /\ \A k \in DOMAIN FieldsOf[d] :
                /\ FieldsOf[d][k].type \in FieldType /\ FieldsOf[d][k].size \in Nat
                /\ FieldsOf[d][k].type = "EMBEDDED" => FieldsOf[d][k].map \in DataMap
    /\ \A ptr \in DOMAIN Object : ObjectOK(Object[ptr])
    /\ \A d \in Dumps : IsSequence(d.things) /\ \A k \in DOMAIN d.things : ThingOK(d.things[k])

VARIABLES
    flag,       \* CH_DF_IGNORE_ZERO_FIELDS
    things,     \* what is dumped: classes, and a block of templates
    jobs,       \* what is still to be called
    text,       \* the file: lines, each with its indentation and its words
    pending_nl, indent_lvl,
    err         \* what the dump returned

dump_vars == <<flag, things, jobs, text, pending_nl, indent_lvl, err>>
-----------------------------------------------------------------------------
(* Jobs *)

NL == <<"nl">>
Say(words) == [op |-> "say", words |-> words]
Line(words) == Say(Append(words, NL))
In  == [op |-> "in"]
Out == [op |-> "out"]

\* ch_dump_restored_fields_text of the class d, whose data begin at at.
Fields(d, data, at) == [op |-> "fields", map |-> d, top |-> TRUE, data |-> data, at |-> at]

\* ch_dump_restored_class_text
Class(d, data, at) == <<Line(<< <<"class", d>> >>), Fields(d, data, at)>>

\* ch_dump_field_val_text
Value(ft, size, data, at, always) ==
    <<[op |-> "value", ft |-> ft, size |-> size, data |-> data, at |-> at, always |-> always]>>

Then(calls) == jobs' = calls \o Tail(jobs) /\ UNCHANGED <<flag, things, text, pending_nl, indent_lvl, err>>

Now(op) == jobs # <<>> /\ Head(jobs).op = op
-----------------------------------------------------------------------------
(* Types *)

\* ch_reduce_field_type_for_printing
Floats   == {"FLOAT", "VECTOR", "QUATERNION", "POSITION_VECTOR", "TIME", "VMATRIX", "VMATRIX_WORLDSPACE",
             "MATRIX3X4_WORLDSPACE", "INTERVAL", "VECTOR2D"}
Integers == {"INTEGER", "CLASSPTR", "EDICT", "TICK"}
Texts    == {"STRING", "MODELNAME", "SOUNDNAME", "FUNCTION", "MODELINDEX", "MATERIALINDEX"}

Reduced(ft) ==
    CASE ft \in Floats   -> "FLOAT"
      [] ft \in Integers -> "INTEGER"
      [] ft \in Texts    -> "STRING"
      [] ft \in FieldType \ (Floats \cup Integers \cup Texts) -> ft

\* ch_field_type_byte_size of a reduced type; a pointer has 4 bytes.
ByteSize(ft) == CASE ft \in {"BOOLEAN", "CHARACTER"} -> 1 [] ft = "SHORT" -> 2
                  [] ft \notin {"BOOLEAN", "CHARACTER", "SHORT"} -> 4

\* n bytes of memory; what comes after the data is anything.
Beyond == <<99, 0>>
Bytes(data, at, n) == [k \in 1..n |-> IF at + k \in DOMAIN data THEN data[at + k] ELSE Beyond]

\* ch_memnz
AllZero(bytes) == \A k \in DOMAIN bytes : bytes[k] = Zero

\* field_holder: an element of a SHORT is the lower half of i32[i].
ElementAt(ft, data, at, i) ==
    IF ft = "SHORT" THEN Bytes(data, at + 4 * i, 2)
    ELSE Bytes(data, at + ByteSize(ft) * i, ByteSize(ft))

\* "%.*s" ends at the first '\0'.
UpToZero(bytes) ==
    LET zero == SelectInSeq(bytes, LAMBDA b : b = Zero)
    IN  IF zero = 0 THEN bytes ELSE SubSeq(bytes, 1, zero - 1)

\* The words of a value, in brackets if there are several.
Listed(elems, brackets) ==
    LET word(k) == IF k = 1 THEN << <<"elem", elems[k]>> >> ELSE << <<"comma">>, <<"elem", elems[k]>> >>
        all     == FlattenSeq([k \in DOMAIN elems |-> word(k)])
    IN  IF brackets THEN << <<"[">> >> \o all \o << <<"]">> >> ELSE all

\* What a field shows: text if it has several characters.
ValueWords(v) ==
    LET ft == Reduced(v.ft)
        n  == v.size \div ByteSize(ft)
    IN  IF ft = "CHARACTER" /\ n # 1
        THEN << <<"text", UpToZero(Bytes(v.data, v.at, v.size))>> >>
        ELSE Listed([k \in 1..n |-> ElementAt(ft, v.data, v.at, k - 1)],
                    v.always \/ (n > 1 /\ ft # "CHARACTER"))
-----------------------------------------------------------------------------
(* The file *)

\* A newline is written when something comes after it: the line that it begins is
\* indented as what comes is.
Written(to, word) ==
    LET lines == IF to.pending THEN Append(to.lines, [indent |-> indent_lvl, words |-> <<>>]) ELSE to.lines
    IN  IF word = NL THEN [lines |-> lines, pending |-> TRUE]
        ELSE [lines |-> [lines EXCEPT ![Len(lines)].words = Append(@, word)], pending |-> FALSE]

\* The file, for each number of words that have been written.
AfterPrint(words) ==
    LET after[k \in 0..Len(words)] ==
            IF k = 0 THEN [lines |-> text, pending |-> pending_nl] ELSE Written(after[k - 1], words[k])
    IN  after

\* ch_dump_text_printf, which may fail with a part of the text written; the error
\* returns from all calls.
SayWords ==
    /\ Now("say")
    /\ \/ /\ LET to == AfterPrint(Head(jobs).words)[Len(Head(jobs).words)]
             IN  text' = to.lines /\ pending_nl' = to.pending
          /\ jobs' = Tail(jobs) /\ UNCHANGED err
       \/ /\ \E k \in 0..Len(Head(jobs).words) :
                LET to == AfterPrint(Head(jobs).words)[k]
                IN  text' = to.lines /\ pending_nl' = to.pending
          /\ jobs' = <<>> /\ err' = "file_io"
    /\ UNCHANGED <<flag, things, indent_lvl>>

\* dump->indent_lvl++ and dump->indent_lvl--
Indent ==
    /\ Now("in") \/ Now("out")
    /\ indent_lvl' = IF Head(jobs).op = "in" THEN indent_lvl + 1 ELSE indent_lvl - 1
    /\ jobs' = Tail(jobs)
    /\ UNCHANGED <<flag, things, text, pending_nl, err>>
-----------------------------------------------------------------------------
(* Classes and their fields *)

\* Mutant: the level of a base class is never left.
DumpFields_StaysIn ==
    /\ Now("fields")
    /\ LET c == Head(jobs)
       IN  IF c.map = NoMap THEN Then(<<>>)
           ELSE Then((IF c.top THEN <<>> ELSE <<Line(<< <<"inherited", c.map>> >>)>>)
                     \o <<In, [op |-> "field", map |-> c.map, data |-> c.data, at |-> c.at,
                               k |-> 1, any |-> FALSE]>>
                     \o (IF c.top THEN <<Out>> ELSE <<>>)
                     \o <<[c EXCEPT !.map = BaseOf[c.map], !.top = FALSE]>>)

\* One class of the loop over a class and those that it derives from.
DumpFields ==
    /\ Now("fields")
    /\ LET c == Head(jobs)
       IN  IF c.map = NoMap THEN Then(<<>>)
           ELSE Then((IF c.top THEN <<>> ELSE <<Line(<< <<"inherited", c.map>> >>)>>)
                     \o <<In, [op |-> "field", map |-> c.map, data |-> c.data, at |-> c.at,
                               k |-> 1, any |-> FALSE], Out,
                          [c EXCEPT !.map = BaseOf[c.map], !.top = FALSE]>>)

\* The pointer of a custom field.
Pointer(f, data, at) == Bytes(data, at + f.off, 4)[1]

CustomJobs(f, data, at) ==
    LET ptr == Pointer(f, data, at)
    IN  IF ~f.ops THEN <<Line(<< <<"not implemented", f.name>> >>)>>
        ELSE IF ptr = Zero THEN <<Line(<< <<"null", f.name>> >>)>>
        ELSE <<[op |-> "custom", name |-> f.name, ptr |-> ptr[1]]>>

FieldJobs(f, data, at) ==
    CASE f.type = "CUSTOM" -> CustomJobs(f, data, at)
      [] f.type = "EMBEDDED" -> <<Line(<< <<"embedded", f.name, f.map>> >>), Fields(f.map, data, at + f.off)>>
      [] f.type \notin {"CUSTOM", "EMBEDDED"} ->
           <<Say(<< <<"field", f.name, f.type>> >>)>> \o Value(f.type, f.size, data, at + f.off, FALSE)

\* A field that is 0 is left out if the caller wants that.
IsShown(f, data, at) == ~(flag /\ AllZero(Bytes(data, at + f.off, f.size)))

\* One round of the loop over the fields.
DumpField ==
    /\ Now("field")
    /\ LET c    == Head(jobs)
           f    == FieldsOf[c.map][c.k]
           next == [c EXCEPT !.k = @ + 1]
       IN  IF c.k > Len(FieldsOf[c.map]) THEN Then(IF c.any THEN <<>> ELSE <<Line(<< <<"no fields">> >>)>>)
           ELSE IF ~IsShown(f, c.data, c.at) THEN Then(<<next>>)
           ELSE Then(Append(FieldJobs(f, c.data, c.at), [next EXCEPT !.any = TRUE]))

DumpValue ==
    /\ Now("value")
    /\ Then(<<Line(ValueWords(Head(jobs)))>>)
-----------------------------------------------------------------------------
(* Custom fields *)

\* Where the pointer of a custom field leads decides what is called: dump_fns.  The
\* parser has left no other pointers than those to objects.
DumpFns(kind) == Now("custom") /\ Head(jobs).ptr \in DOMAIN Object /\ Object[Head(jobs).ptr].kind = kind
Pointee == Object[Head(jobs).ptr]

\* ch_dump_utl_vec_text
DumpVector ==
    /\ DumpFns("vector")
    /\ LET v == Pointee
           elem(k) == <<Say(<< <<"index", k - 1>> >>)>> \o Class(v.map, v.data, v.size * (k - 1))
       IN  IF v.map # NoMap
           THEN Then(<<Line(<< <<"vector", Head(jobs).name, v.n>> >>), In>>
                     \o FlattenSeq([k \in 1..v.n |-> elem(k)]) \o <<Out>>)
           ELSE Then(<<Say(<< <<"vector", Head(jobs).name, v.n>> >>)>>
                     \o Value(v.ft, v.size * v.n, v.data, 0, TRUE))

\* ch_dump_ent_output_text
DumpOutput ==
    /\ DumpFns("output")
    /\ LET o == Pointee
           action(k) == Class(o.actions.map, o.actions.data, SizeOf[o.actions.map] * (k - 1))
       IN  Then(<<Line(<< <<"output", Head(jobs).name>> >>), In>>
                \o Class(o.val.map, o.val.data, 0)
                \o <<Line(<< <<"events", o.actions.n>> >>), In>>
                \o FlattenSeq([k \in 1..o.actions.n |-> action(k)]) \o <<Out, Out>>)

\* ch_dump_variant_text
DumpVariant ==
    /\ DumpFns("variant")
    /\ LET v == Pointee
       IN  Then(<<Say(<< <<"variant", Head(jobs).name, v.ft>> >>)>>
                \o (IF v.ft = "VOID" THEN <<Line(<< <<"empty">> >>)>>
                    ELSE Value(v.ft, Len(v.data), v.data, 0, v.ft \in {"VECTOR", "POSITION_VECTOR"})))

\* ch_dump_activity_text
DumpActivity ==
    /\ DumpFns("activity")
    /\ LET a == Pointee
       IN  Then(<<Line(<< <<IF a.tagged THEN "named activity" ELSE "activity", Head(jobs).name>>,
                          <<"elem", a.data>> >>)>>)
-----------------------------------------------------------------------------
(* ch_dump_block_templates_text, for the version that it knows (see Dump) *)

Char(c) == <<"char", c>>

\* Newlines at both ends are left out, if there is something between them.
Trimmed(s) ==
    IF \A k \in DOMAIN s : s[k] \in {NL, Char(" ")} THEN s
    ELSE SubSeq(s, SelectInSeq(s, LAMBDA c : c # NL), SelectLastInSeq(s, LAMBDA c : c # NL))

MapData(s) ==
    IF NL \in ToSet(s)
    THEN <<Line(<< <<"map_data">> >>), In, Line(Trimmed(s)), Out>>
    ELSE <<Line(<< <<"map data">> >> \o s)>>

TemplateJobs(t, k) ==
    <<Line(<< <<"template", k - 1>> >>), In>>
        \o Class(t.map, t.data, 0)
        \o <<Line(<< <<"name", t.name>> >>)>> \o MapData(t.map_data) \o <<Out>>

DumpTemplates ==
    /\ Now("templates")
    /\ LET b == Head(jobs).block
       IN  Then(<<Line(<< <<"templates", Len(b)>> >>), In>>
                \o FlattenSeq([k \in DOMAIN b |-> TemplateJobs(b[k], k)]) \o <<Out>>)

DumpThing(t) ==
    IF t.kind = "class" THEN Class(t.map, t.data, 0) ELSE <<[op |-> "templates", block |-> t.block]>>

\* ch_dump_sav_to_text
DumpInit ==
    /\ \E d \in Dumps :
          /\ flag = d.flag /\ things = d.things
          /\ jobs = FlattenSeq([k \in DOMAIN d.things |-> DumpThing(d.things[k])])
    \* The title and an empty line have been written.
    /\ text = <<>> /\ pending_nl = TRUE /\ indent_lvl = 0 /\ err = "none"

DumpNext ==
    \/ SayWords \/ Indent \/ DumpFields \/ DumpField \/ DumpValue
    \/ DumpVector \/ DumpOutput \/ DumpVariant \/ DumpActivity \/ DumpTemplates

DumpSpec == DumpInit /\ [][DumpNext]_dump_vars
-----------------------------------------------------------------------------
(* Properties *)

\* What a reader relies on who goes by the indentation, and what the functions that
\* write custom fields owe their callers, since they share one indent_lvl: a line that is
\* to the right is under a line one level less to the right, however deep what
\* memory holds is nested and wherever a write fails; and who is done has taken
\* back what he was indented (ch_dump_fields.c:236-285, ch_dump_cr_*.c).
LinesNest ==
    /\ \A k \in DOMAIN text : text[k].indent > 0 =>
          \E j \in 1..(k - 1) :
              /\ text[j].indent + 1 = text[k].indent
              /\ \A i \in (j + 1)..(k - 1) : text[i].indent >= text[k].indent
    /\ jobs = <<>> /\ err = "none" => indent_lvl = 0
=============================================================================
