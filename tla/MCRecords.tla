----------------------------- MODULE MCRecords -----------------------------
(***************************************************************************)
(* Saves for TLC, as the game writes them: an entity with every kind of    *)
(* field, whole or cut short anywhere, an NPC that derives from it, and    *)
(* one with the fields that custom functions restore.                      *)
(***************************************************************************)
EXTENDS Records, SequencesExt

MCDataMap == {"vec", "ent", "npc", "header", "waypoint", "logic", "output", "action"}
MCNameOf  == [d \in MCDataMap |->
                CASE d = "vec" -> 11 [] d = "ent" -> 12 [] d = "npc" -> 13
                  [] d = "header" -> 14 [] d = "waypoint" -> 15
                  [] d = "logic" -> 16 [] d = "output" -> 17 [] d = "action" -> 18]
MCBaseOf  == [d \in MCDataMap |-> IF d = "npc" THEN "ent" ELSE NoMap]

Xy == 21  Id == 22  Names == 23  Origin == 24  Outputs == 25  Enemies == 26
Route == 27  State == 28  Vers == 29  Pos == 30  MCUv == 31  MCElems == 32
OnUser == 33  Never == 34  Ideal == 35  Value1 == 36  Target == 37  Times == 38
MCOutputValue == 39  MCEntityOutput == 40
MCActivityTag == 100

Saved(name, type, n, size, map) ==
    [name |-> name, type |-> type, n |-> n, size |-> size, map |-> map]

MCFieldsOf ==
    [d \in MCDataMap |->
        CASE d = "vec" -> <<Saved(Xy, "simple", 1, 2, NoMap)>>
          [] d = "ent" -> <<Saved(Id, "simple", 1, 1, NoMap),
                            Saved(Names, "string", 2, 1, NoMap),
                            Saved(Origin, "embedded", 2, 2, "vec"),
                            Saved(Outputs, "custom", 1, 1, NoMap),
                            Saved(Enemies, "vector", 1, 1, NoMap),
                            Saved(Route, "vector", 1, 1, "waypoint")>>
          [] d = "npc" -> <<Saved(State, "simple", 1, 1, NoMap)>>
          [] d = "header" -> <<Saved(Vers, "simple", 1, 1, NoMap)>>
          [] d = "waypoint" -> <<Saved(Pos, "simple", 1, 1, NoMap)>>
          [] d = "logic" -> <<Saved(OnUser, "output", 1, 1, NoMap),
                              Saved(Never, "output", 0, 1, NoMap),
                              Saved(Ideal, "activity", 1, 1, NoMap)>>
          [] d = "output" -> <<Saved(Value1, "variant", 1, 1, NoMap)>>
          [] d = "action" -> <<Saved(Target, "string", 1, 1, NoMap),
                               Saved(Times, "simple", 1, 1, NoMap)>>]

(* CSave *)

\* The symbol table; the third symbol is empty.
Symbols == <<11, 12, 0>> \o [k \in 1..6 |-> 12 + k] \o [k \in 1..20 |-> 20 + k]
Sym(name) == (CHOOSE k \in DOMAIN Symbols : Symbols[k] = name) - 1

\* The cells of the symbols, each with its '\0'.
Table == FlattenSeq([k \in DOMAIN Symbols |->
                        IF Symbols[k] = 0 THEN <<0>> ELSE <<Symbols[k], 0>>])

Record(name, cells) == <<Len(cells), Sym(name)>> \o cells
Cls(name, records)  == <<4, Sym(name), Len(records)>> \o FlattenSeq(records)

Vec(x, y) == Cls(11, <<Record(Xy, <<x, y>>)>>)
Way(p)    == Cls(MCUv, <<Record(MCElems, Cls(15, <<Record(Pos, <<p>>)>>))>>)

IdRec      == Record(Id, <<7>>)
NamesRec   == Record(Names, <<8, 9, 0, 5, 0>>)
OriginRec  == Record(Origin, Vec(1, 2) \o Vec(3, 4))
OutputsRec == Record(Outputs, <<4, 1, 9, 2>>)
EnemiesRec == Record(Enemies, <<2>> \o Cls(MCElems, <<Record(MCElems, <<5, 6>>)>>))
RouteRec   == Record(Route, <<2>> \o Way(5) \o Way(6))

IdValues     == {<<<<Id>>, <<7>>>>}
NamesValues  == {<<<<Names, 2>>, <<8, 9>>>>, <<<<Names, 1>>, <<5>>>>}
OriginValues == {<<<<Origin, 1, Xy>>, <<1, 2>>>>, <<<<Origin, 2, Xy>>, <<3, 4>>>>}
EnemyValues  == {<<<<Enemies, MCElems>>, <<5, 6>>>>}
RouteValues  == {<<<<Route, k, MCElems, 1, Pos>>, <<4 + k>>>> : k \in 1..2}

\* Fields in the order of the datamap, in another, and some only.
EntCells(order) ==
    CASE order = "all" -> Cls(12, <<IdRec, NamesRec, OriginRec, OutputsRec, EnemiesRec, RouteRec>>)
      [] order = "back" -> Cls(12, <<RouteRec, OutputsRec, OriginRec, NamesRec, EnemiesRec, IdRec>>)
      [] order = "few" -> Cls(12, <<OutputsRec, IdRec>>)
      [] order = "none" -> Cls(12, <<>>)
EntValues(order) ==
    CASE order \in {"all", "back"} -> IdValues \cup NamesValues \cup OriginValues
                                        \cup EnemyValues \cup RouteValues
      [] order = "few" -> IdValues
      [] order = "none" -> {}

\* An NPC: its header, its conditions and its navigator if the version has them.
Conditions == Record(13, <<8, 9, 0, 5, 0, 0,  0,  6, 0, 0,  0>>)
CondValues == {<<<<13, 1, 1>>, <<8, 9>>>>, <<<<13, 1, 2>>, <<5>>>>, <<<<13, 3, 1>>, <<6>>>>}

\* The navigator is sound, of another version, or its second waypoint is no class.
Navigator(nav) ==
    Record(15, CASE nav = "sound" -> <<1, 2>> \o Way(5) \o Way(6)
                 [] nav = "other" -> <<3, 9, 9, 9>>
                 [] nav = "broken" -> <<1, 2>> \o Way(5) \o <<9, 9>>)
NavValues(nav) ==
    LET way(k) == <<<<15, k, MCElems, 1, Pos>>, <<4 + k>>>>
    IN  CASE nav = "sound" -> {way(1), way(2)} [] nav = "other" -> {} [] nav = "broken" -> {way(1)}

NpcCells(version, nav) ==
    Cls(14, <<Record(Vers, <<version>>)>>)
      \o (IF version >= WithConditions THEN Conditions ELSE <<>>)
      \o (IF version >= WithNavigator THEN Navigator(nav) ELSE <<>>)
      \o EntCells("few") \o Cls(13, <<Record(State, <<6>>)>>)
NpcValues(version, nav) ==
    {<<<<14, Vers>>, <<version>>>>, <<<<State>>, <<6>>>>} \cup EntValues("few")
      \cup (IF version >= WithConditions THEN CondValues ELSE {})
      \cup (IF version >= WithNavigator THEN NavValues(nav) ELSE {})

\* An output, whose value is a variant, with actions, and an activity.
Variant(v) ==
    CASE v = "string" -> <<FIELD_STRING, 8, 9, 0>> [] v = "vector" -> <<3, 7, 8, 9>>
      [] v = "number" -> <<5, 8>> [] v = "void" -> <<FIELD_VOID>> [] v = "bad" -> <<12, 1>>
Action(k) == Cls(MCEntityOutput, <<Record(Target, <<50 + k, 0>>), Record(Times, <<k>>)>>)
Activity(a) == CASE a = "index" -> <<3>> [] a = "name" -> <<MCActivityTag + 4, 7, 7, 8, 0>>
                 [] a = "empty" -> <<MCActivityTag>>

LogicCells(v, n, a) ==
    Cls(16, <<Record(Never, <<1, 2>>),
              Record(OnUser, <<n>> \o Cls(MCOutputValue, <<Record(Value1, Variant(v))>>)
                               \o FlattenSeq([k \in 1..n |-> Action(k)])),
              Record(Ideal, Activity(a))>>)
LogicValues(v, n, a) ==
    LET value == <<OnUser, 1, Value1>>
        two(ft, x) == {<<value, <<ft>>>>, <<Append(value, 1), x>>}
    IN  (CASE v = "string" -> two(FIELD_STRING, <<8, 9>>) [] v = "vector" -> two(3, <<7, 8, 9>>)
          [] v = "number" -> two(5, <<8>>) [] OTHER -> {<<value, <<FIELD_VOID>>>>})
        \cup UNION {{<<<<OnUser, 1 + k, Target, 1>>, <<50 + k>>>>,
                     <<<<OnUser, 1 + k, Times>>, <<k>>>>} : k \in 1..n}
        \cup (CASE a = "index" -> {<<<<Ideal>>, <<3>>>>}
                [] a = "name" -> {<<<<Ideal, 1>>, <<7, 7, 8>>>>}
                [] a = "empty" -> {<<<<Ideal, 1>>, <<>>>>})

\* What follows the entity in the file.
Trailing == <<4, 1, 1>>

Entities ==
    {[class |-> "ent", cells |-> EntCells(o), values |-> EntValues(o)] :
        o \in {"all", "back", "few", "none"}}
    \cup {[class |-> "npc", cells |-> NpcCells(5, nav), values |-> NpcValues(5, nav)] :
        nav \in {"sound", "other", "broken"}}
    \cup {[class |-> "npc", cells |-> NpcCells(v, "other"), values |-> NpcValues(v, "other")] :
        v \in {0, 2}}
    \cup {[class |-> "logic", cells |-> LogicCells(l[1], l[2], l[3]),
           values |-> LogicValues(l[1], l[2], l[3])] :
        l \in {<<"string", 2, "name">>, <<"vector", 1, "index">>, <<"number", 0, "empty">>,
               <<"void", 0, "name">>, <<"bad", 1, "index">>}}

Before(e) == <<Len(Table), Len(Symbols)>> \o Table \o e.cells

MCSaves ==
    UNION {LET file == Before(e) \o Trailing
           IN  {[class |-> e.class, file |-> SubSeq(file, 1, n), values |-> e.values,
                 whole |-> n >= Len(Before(e))] :
                    n \in (0..3) \cup ((Len(Table) - 1)..Len(file))} : e \in Entities}
=============================================================================
