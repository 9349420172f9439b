-------------------------------- MODULE Wire --------------------------------
(***************************************************************************)
(* A session's messages on their way: how the payload packs datamaps and   *)
(* linked names (ch_send.c, ch_ent_factory.c), Msgpack in between, and how *)
(* the exe checks and reads what it gets (ch_recv.c).  Receiver, Payload   *)
(* and Session take for granted that what is received is what was sent.    *)
(***************************************************************************)
EXTENDS Msgpack

CONSTANTS
    Null,       \* a null pointer
    Datamap,    \* the datamaps of the game's memory
    Rank,       \* a number for each, larger than those of the datamaps it refers to
    Sessions    \* sequences of messages that a client may send

\* The field of a datamap that has none.
EmptyDesc ==
    [name |-> Null, type |-> 0, flags |-> 0, external |-> Null, off |-> 0, n_elems |-> 0, size |-> 0,
     ops |-> Null, func |-> Null, td |-> Null, override |-> 0, tol |-> <<0, 0, 0, 0>>]

Byte == 0..255
Number == {n \in Nat : n <= 2147483647}
Str == {s \in Seq(Byte) : Len(s) \in Number}
OrNull(S) == S \cup {Null}

\* A datamap is a record; base and td are Null or datamaps themselves, and none
\* refers to itself, which the payload's recursion relies on.
Field ==
    [name : Str, type : Number, flags : Number, external : OrNull(Str), off : Number,
     n_elems : Number, size : Number, ops : OrNull(Number), func : OrNull(Number),
     td : OrNull(Datamap), override : Number, tol : {t \in Seq(Byte) : Len(t) = 4}]

ASSUME DatamapAssumption ==
    /\ Null \notin Number
    /\ Datamap \subseteq [name : Str, module : Str, off : Number, base : OrNull(Datamap),
                          fields : Seq(Field) \cup {<<EmptyDesc>>}]
    /\ Rank \in [Datamap -> Nat]
    /\ \A dm \in Datamap :
          /\ Len(dm.fields) \in Number
          /\ dm.base # Null => Rank[dm.base] < Rank[dm]
          /\ \A i \in DOMAIN dm.fields :
                dm.fields[i].td # Null => Rank[dm.fields[i].td] < Rank[dm]

\* A message has a type and data.  A client that is not the payload may send any
\* bytes: type "raw".
Message ==
    [type : {"HELLO", "GOODBYE"}, data : {Null}]
    \cup [type : {"LOG_INFO", "LOG_ERROR"}, data : Str]
    \cup [type : {"DATAMAP"}, data : Datamap]
    \cup [type : {"LINKED_NAME"}, data : {l \in Seq(Str \X Str) : Len(l) \in Number \ {0}}]
    \cup [type : {"raw"}, data : Seq(Byte)]

ASSUME SessionsAssumption == Sessions \subseteq Seq(Message)

VARIABLES
    session,    \* the messages
    n_sent,     \* how many of them have been sent
    received,   \* what was made of them
    wire        \* "sending", "receiving", "done", or what is wrong

wire_vars == <<session, n_sent, received, wire>>
all_vars == <<unpack_vars, wire_vars>>

MsgTypes == <<"HELLO", "DATAMAP", "LINKED_NAME", "LOG_INFO", "LOG_ERROR", "GOODBYE">>
TypeNum(type) == (CHOOSE i \in DOMAIN MsgTypes : MsgTypes[i] = type) - 1

\* The keys, each of one character.
IpcKeys == <<1, 2>>
DmKeys == <<3, 4, 5, 6, 7>>     \* name, module, module_offset, base_map, fields

\* name, type, flags, external_name, offset, n_elems, total_size_bytes, restore_ops,
\* input_func, embedded_map, override_count, float_tolerance
TdKeys == <<8, 9, 10, 11, 12, 13, 14, 15, 16, 17, 18, 19>>
-----------------------------------------------------------------------------
\* A map of these keys to values that are packed.
PackPairs(keys, values) ==
    PackMap(Len(keys)) \o FlattenSeq([i \in DOMAIN keys |-> PackStr(<<keys[i]>>) \o values[i]])

OrNil(v, packed) == IF v = Null THEN PackNil ELSE packed

\* ch_pack_module_offset
PackModuleOffset(off) == OrNil(off, PackInt(off))

\* A field, its embedded datamap being packed already.
PackField(f, td) ==
    PackPairs(TdKeys,
        <<PackStr(f.name), PackInt(f.type), PackInt(f.flags), OrNil(f.external, PackStr(f.external)),
          PackInt(f.off), PackInt(f.n_elems), PackInt(f.size), PackModuleOffset(f.ops),
          PackModuleOffset(f.func), td, PackInt(f.override), PackFloat(f.tol)>>)

\* ch_recurse_pack_dm
PackDm[dm \in Datamap] ==
    LET fields ==
            IF dm.fields = <<EmptyDesc>> THEN PackArray(0)
            ELSE PackArray(Len(dm.fields)) \o
                 FlattenSeq([i \in DOMAIN dm.fields |->
                                PackField(dm.fields[i], OrNil(dm.fields[i].td, PackDm[dm.fields[i].td]))])
    IN  PackPairs(DmKeys, <<PackStr(dm.name), PackStr(dm.module), PackModuleOffset(dm.off),
                            OrNil(dm.base, PackDm[dm.base]), fields>>)

\* What ch_send_wave, ch_send_vstrf, ch_send_datamap_cb and ch_send_ent_factory_kv
\* put into mp_buf.
PackMsg(m) ==
    LET With(data) == PackPairs(IpcKeys, <<PackInt(TypeNum(m.type)), data>>)
    IN  CASE m.type = "raw" -> m.data
          [] m.type \in {"HELLO", "GOODBYE"} -> With(PackNil)
          [] m.type \in {"LOG_INFO", "LOG_ERROR"} -> With(PackStr(m.data))
          [] m.type = "DATAMAP" -> With(PackDm[m.data])
          [] m.type = "LINKED_NAME" ->
               With(PackMap(Len(m.data)) \o
                       FlattenSeq([i \in DOMAIN m.data |-> PackStr(m.data[i][1]) \o PackStr(m.data[i][2])]))
-----------------------------------------------------------------------------
\* The containers in a value: those that are in n others, and all that the unpacker
\* has room for.
Items(o) == IF o.type = "array" THEN {o.v[i] : i \in DOMAIN o.v}
                                ELSE {o.v[i][k] : i \in DOMAIN o.v, k \in 1..2}
Containers(S) == {o \in S : o.type \in {"array", "map"}}

Level(o) ==
    LET level[n \in Nat] == IF n = 0 THEN Containers({o})
                            ELSE Containers(UNION {Items(x) : x \in level[n - 1]})
    IN  level

Inside(o) == UNION {Level(o)[n] : n \in 0..StackSize}

\* The allowed types of the values, a set for each key; any, if it is empty.
DmSchema == <<{"str"}, {"str"}, {"positive"}, {"map", "nil"}, {"array"}>>
TdSchema ==
    <<{"str"}, {"positive"}, {"positive"}, {"str", "nil"}, {"positive"}, {"positive"}, {"positive"},
      {"positive", "nil"}, {"positive", "nil"}, {"map", "nil"}, {"positive"}, {"float"}>>
MsgSchema == <<{"positive"}, {}>>

\* ch_check_kv_schema.  (Only as many characters are compared as the key has.)
CheckKvSchema(o, keys, schema) ==
    /\ o.type = "map" /\ Len(o.v) = Len(schema)
    /\ \A i \in DOMAIN schema :
          /\ o.v[i][1].type = "str" /\ IsPrefix(o.v[i][1].v, <<keys[i]>>)
          /\ schema[i] = {} \/ o.v[i][2].type \in schema[i]

\* The value of the i-th pair of a map.
At(o, i) == o.v[i][2]

\* ch_check_dm_schema_cb
CheckDatamap(o) ==
    /\ CheckKvSchema(o, DmKeys, DmSchema)
    /\ \A i \in DOMAIN At(o, 5).v : CheckKvSchema(At(o, 5).v[i], TdKeys, TdSchema)

Embedded(o) == {At(At(o, 5).v[i], 10) : i \in DOMAIN At(o, 5).v}

\* Mutant: what a field embeds is not visited.
CheckDm_NotEmbedded(o) ==
    LET check[d \in Inside(o)] == CheckDatamap(d) /\ \A e \in {At(d, 4)} : e.type = "nil" \/ check[e]
    IN  check[o]

\* ch_recurse_visit_datamaps with ch_check_dm_schema_cb
CheckDm(o) ==
    LET check[d \in Inside(o)] ==
            CheckDatamap(d) /\ \A e \in {At(d, 4)} \cup Embedded(d) : e.type = "nil" \/ check[e]
    IN  check[o]

\* ch_process_message_pack_msg, as far as it is about the format
CheckMsg(o) ==
    /\ CheckKvSchema(o, IpcKeys, MsgSchema) /\ At(o, 1).v < Len(MsgTypes)
    /\ LET data == At(o, 2)
       IN  CASE MsgTypes[At(o, 1).v + 1] \in {"HELLO", "GOODBYE"} -> data.type = "nil"
             [] MsgTypes[At(o, 1).v + 1] \in {"LOG_INFO", "LOG_ERROR"} -> data.type = "str"
             [] MsgTypes[At(o, 1).v + 1] = "DATAMAP" -> data.type = "map" /\ CheckDm(data)
             [] MsgTypes[At(o, 1).v + 1] = "LINKED_NAME" ->
                  /\ data.type = "map" /\ data.v # <<>>
                  /\ \A i \in DOMAIN data.v : data.v[i][1].type = "str" /\ data.v[i][2].type = "str"

MsgOf(o) == [type |-> MsgTypes[At(o, 1).v + 1], data |-> At(o, 2)]
-----------------------------------------------------------------------------
WireInit ==
    /\ session \in Sessions /\ n_sent = 0 /\ received = <<>> /\ wire = "sending"
    /\ UnpackInit

\* The next message is written, and read into the buffer behind what is left there.
SendMsg ==
    /\ wire = "sending" /\ n_sent < Len(session)
    /\ n_sent' = n_sent + 1 /\ wire' = "receiving"
    /\ Begin(SubSeq(buf, p, Len(buf)) \o PackMsg(session[n_sent + 1]))
    /\ UNCHANGED <<session, received>>

\* The client leaves without a last word.
EndSession ==
    /\ wire = "sending" /\ n_sent = Len(session)
    /\ wire' = "done"
    /\ UNCHANGED <<unpack_vars, session, n_sent, received>>

UnpackStep == wire = "receiving" /\ Execute /\ UNCHANGED wire_vars

\* ch_msg_ctx_process, with the result of msgpack_unpacker_next.
Process ==
    /\ wire = "receiving" /\ label \in {"finish", "continue", "nomem", "parse_error"}
    /\ IF label # "finish" THEN wire' = label /\ UNCHANGED received
       ELSE IF ~CheckMsg(obj) THEN wire' = "bad_format" /\ UNCHANGED received
       ELSE LET m == MsgOf(obj)
            IN  /\ received' = Append(received, m)
                /\ wire' = IF m.type \in {"GOODBYE", "LOG_ERROR"} THEN "done" ELSE "sending"
    /\ UNCHANGED <<unpack_vars, session, n_sent>>

WireNext == SendMsg \/ EndSession \/ UnpackStep \/ Process

WireSpec == WireInit /\ [][WireNext]_all_vars
-----------------------------------------------------------------------------
(* Properties *)

\* What the exe is to get: a map whose values are in the places it reads them at.
StrObj(str) == Obj("str", str)
MapObj(keys, values) == Obj("map", [i \in DOMAIN keys |-> <<StrObj(<<keys[i]>>), values[i]>>])
OffsetObj(off) == IF off = Null THEN Nil ELSE Num(off)

FieldObj(f, td) ==
    MapObj(TdKeys,
        <<StrObj(f.name), Num(f.type), Num(f.flags), IF f.external = Null THEN Nil ELSE StrObj(f.external),
          Num(f.off), Num(f.n_elems), Num(f.size), OffsetObj(f.ops), OffsetObj(f.func), td,
          Num(f.override), Obj("float", f.tol)>>)

\* A datamap, with the datamaps it refers to; the field of an empty one is dropped.
DmObj[dm \in Datamap] ==
    LET Or(v) == IF v = Null THEN Nil ELSE DmObj[v]
        fields == IF dm.fields = <<EmptyDesc>> THEN <<>>
                  ELSE [i \in DOMAIN dm.fields |-> FieldObj(dm.fields[i], Or(dm.fields[i].td))]
    IN  MapObj(DmKeys, <<StrObj(dm.name), StrObj(dm.module), Num(dm.off), Or(dm.base), Obj("array", fields)>>)

AsSent(m) ==
    [type |-> m.type,
     data |-> CASE m.type \in {"HELLO", "GOODBYE"} -> Nil
                [] m.type \in {"LOG_INFO", "LOG_ERROR"} -> StrObj(m.data)
                [] m.type = "DATAMAP" -> DmObj[m.data]
                [] m.type = "LINKED_NAME" ->
                     Obj("map", [i \in DOMAIN m.data |-> <<StrObj(m.data[i][1]), StrObj(m.data[i][2])>>])]

\* The unpacker has room for all containers of a message that are in each other.
Fits(m) == Level(AsSent(m).data)[StackSize - 1] = {}

\* A container begins and the unpacker has no room for it.
TooDeep == label = "header" /\ p <= Len(buf) /\ Len(stack) = StackSize /\ buf[p] \in 128..159

\* Whatever the exe accepts of the payload is what the payload sent: the same
\* messages in the same order, each datamap with all it refers to, every value in
\* the place the exe reads it at.  And it refuses nothing of it, as long as there is
\* memory, but datamaps that are too deep for the unpacker; those it never accepts.
WhatIsSentArrives ==
    (\A i \in DOMAIN session : session[i].type # "raw") =>
        /\ \A i \in DOMAIN received : received[i] = AsSent(session[i])
        /\ wire \notin {"continue", "parse_error", "bad_format"}
        /\ n_sent > 0 => IF Fits(session[n_sent]) THEN ~TooDeep ELSE wire # "sending"

\* What the exe reads of a datamap and of its fields, and as what.
IsStr(o) == o.type = "str"
IsNum(o) == o.type = "positive" /\ o.v \in Nat
IsNil(o) == o.type = "nil"

ReadableAsDatamap(o) ==
    /\ Len(o.v) = 5 /\ IsStr(At(o, 1)) /\ IsStr(At(o, 2)) /\ IsNum(At(o, 3))
    /\ At(o, 4).type = "map" \/ IsNil(At(o, 4))
    /\ At(o, 5).type = "array"

ReadableAsField(o) ==
    /\ Len(o.v) = 12 /\ IsStr(At(o, 1))
    /\ IsStr(At(o, 4)) \/ IsNil(At(o, 4))
    /\ \A i \in {2, 3, 5, 6, 7, 11} : IsNum(At(o, i))
    /\ \A i \in {8, 9} : IsNum(At(o, i)) \/ IsNil(At(o, i))
    /\ At(o, 10).type = "map" \/ IsNil(At(o, 10))
    /\ At(o, 12).type = "float"

\* The exe looks at the types of all values of a message before it reads any of
\* them: whatever a client sends, every map in a datamap that it has accepted, however
\* deep, can be read as the datamap or the field it stands for, and no number that is
\* stored or saved is one that was packed negative.
NothingUnchecked ==
    \A i \in DOMAIN received : received[i].type = "DATAMAP" =>
        \A o \in Inside(received[i].data) :
            o.type = "map" => ReadableAsDatamap(o) \/ ReadableAsField(o)
=============================================================================
