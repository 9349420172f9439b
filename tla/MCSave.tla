------------------------------- MODULE MCSave -------------------------------
(***************************************************************************)
(* Saves for TLC: as the game writes them, and with one or more things     *)
(* wrong with a block, an entity, a state file or the header.              *)
(***************************************************************************)
EXTENDS Dump

Cell(is, n, sym, table, ok, val) ==
    [is |-> is, n |-> n, sym |-> sym, st |-> table, ok |-> ok, val |-> val]
Number(n)  == Cell("num", n, "", 0, "yes", Nothing)
TagCell(t) == Cell("tag", 7, t, 0, "yes", Nothing)
Name(ext)  == Cell("name", 7, ext, 0, "yes", Nothing)
Table(t, ok)     == Cell("symbols", t, "", 0, ok, Nothing)
Class(sym, t, ok, val) == Cell("class", 4, sym, t, ok, val)
Ok(sound) == IF sound THEN "yes" ELSE "broken"

AllMaps == {"GAME_HEADER", "CGlobalState", "SAVE_HEADER", "entitytable_t", "TemplateEntityData_t", "CEventQueue",
            "EventQueuePrioritizedEvent_t", "prop", "npc"}
MCNpc == {"npc"}

(* Entities: what is wrong with one *)

EntClass(e) == CASE e = "null" -> Nothing [] e = "unknown" -> "mod"
                 [] e \in {"npc sound", "npc"} -> "npc" [] OTHER -> "prop"
EntCell(e, i, t) ==
    Class(IF e = "null" THEN "" ELSE EntClass(e), t,
          CASE e = "npc" -> Headless [] e = "broken" -> Partial [] e = "output" -> Outputless
            [] OTHER -> "yes", IF i = 1 THEN "first" ELSE "second")
SoundEnt == {"sound", "npc sound"}
LostEnt  == {"unknown", "bogus", "broken", "npc", "output"}
IsLost(e, maps) == e \in LostEnt \/ (e \in SoundEnt /\ EntClass(e) \notin maps)

(* A .hl1 file: d says what is wrong with its blocks *)

Bogus == 90

\* Entities, templates and events, two of each; where they are in the file.
Hl1(t, own, d) ==
    LET table(e, i) == Class("ETABLE", t, Ok(~(d.ent = "broken header" /\ i = 2)),
                             [classname |-> EntClass(e), size |-> IF e = "empty" THEN 0 ELSE 1,
                              location |-> IF e = "bogus" THEN Bogus ELSE 4 + i])
        version(c) == Number(IF c = "version" THEN 2 ELSE 1)
        headers == <<Number(2), table(d.ents[1], 1), table(d.ents[2], 2)>>
                     \o <<version(d.tpl), version(d.evq)>>
        tables == <<Class("Save Header", t, "yes", [connections |-> 1, styles |-> 2]),
                    Class("ADJACENCY", t, "yes", "level"),
                    Class("LIGHTSTYLE", t, "yes", "a"),
                    Class("LIGHTSTYLE", t, Ok(d.fault # "style"), "b")>>
        tpl(i) == Class("TemplateEntityData_t", t, Ok(~(d.tpl = "broken body" /\ i = 2)),
                        IF i = 1 THEN "tpl 1" ELSE "tpl 2")
        ev(i)  == Class("PEvent", t, Ok(~(d.evq = "broken body" /\ i = 2)),
                        IF i = 1 THEN "ev 1" ELSE "ev 2")
        bodies == <<Number(0)>> \o [i \in 1..2 |-> EntCell(d.ents[i], i, t)]
                    \o <<Number(0), Number(2), tpl(1), tpl(2)>>
                    \o <<Class("EventQueue", t, Ok(d.evq # "broken queue"), 2), ev(1), ev(2)>>
        entry(b, c, loc, body) ==
            [name |-> b,
             loc |-> CASE c = "no header" -> -1 [] c = "bogus header" -> Bogus [] OTHER -> loc,
             body |-> CASE c \in {"no header", "no body"} -> -1 [] c = "bogus body" -> Bogus
                        [] c = "cut body" -> Len(bodies) [] OTHER -> body]
        more == CASE d.more = "none" -> <<>>
                  [] d.more = "twice" -> <<entry("Templates", "sound", 7, 7)>>
                  [] d.more = "weird" -> <<entry("Weird", "sound", 3, 1)>>
                  [] d.more = "physics" -> <<entry("Physics", "sound", 3, 1)>>
        vec == <<entry("EventQueue", d.evq, 7, 7), entry("Templates", d.tpl, 6, 3)>>
                 \o more \o <<entry("Entities", d.ent, 3, 1)>>
        first == IF d.fault = "hl1 tag" THEN "XXXX" ELSE "VALV"
        size  == IF d.fault = "bodies size" THEN Len(bodies) + Bogus ELSE Len(bodies)
    IN  <<TagCell(first), Number(IF own THEN 1 ELSE 0), Number(9), Number(9), Number(9)>>
          \o (IF own THEN <<Table(t, IF d.fault = "symbols" THEN "broken" ELSE "yes")>> ELSE <<>>)
          \o <<Number(3 + Len(headers)), Number(size),
               Class("headers", t, Ok(d.fault # "vector"), vec)>>
          \o headers \o tables \o bodies

\* What is sound in it, and what is lost.
Hl1Facts(k, d, maps) ==
    LET array(b, c, dm, v1, v2) ==
            IF dm \notin maps THEN {}
            ELSE CASE c = "sound" -> {<<k, b, 1, v1>>, <<k, b, 2, v2>>}
                   [] c = "broken body" -> {<<k, b, 1, v1>>} [] OTHER -> {}
    IN  (IF d.ent = "sound" /\ "entitytable_t" \in maps
         THEN {<<k, "Entities", i, IF i = 1 THEN "first" ELSE "second">> :
                  i \in {j \in 1..2 : d.ents[j] \in SoundEnt /\ ~IsLost(d.ents[j], maps)}} ELSE {})
        \cup array("Templates", d.tpl, "TemplateEntityData_t", "tpl 1", "tpl 2")
        \cup (IF "CEventQueue" \in maps
              THEN array("EventQueue", d.evq, "EventQueuePrioritizedEvent_t", "ev 1", "ev 2")
              ELSE {})

LostBlock == {"bogus header", "broken header", "bogus body", "broken body", "broken queue", "version"}
Hl1Losses(k, d, maps) ==
    {<<k, "Entities", i>> :
        i \in {j \in 1..2 : /\ IsLost(d.ents[j], maps)
                            /\ d.ent = "sound" /\ "entitytable_t" \in maps}}
    \cup {<<k, b, 0>> : b \in
             {bl \in {"Entities", "Templates", "EventQueue"} :
                 LET c == CASE bl = "Entities" -> d.ent [] bl = "Templates" -> d.tpl
                            [] bl = "EventQueue" -> d.evq
                     dms == CASE bl = "Entities" -> {"entitytable_t"}
                              [] bl = "Templates" -> {"TemplateEntityData_t"}
                              [] bl = "EventQueue" -> {"CEventQueue", "EventQueuePrioritizedEvent_t"}
                 IN  c \in LostBlock \/ (c = "sound" /\ ~(dms \subseteq maps))}}
    \cup CASE d.more = "none" -> {}
           [] d.more = "twice" -> IF d.tpl \in {"sound", "version"} THEN {<<k, "Templates", 0>>} ELSE {}
           [] d.more = "weird" -> {<<k, "Weird", 0>>}
           [] d.more = "physics" -> {<<k, "Physics", 0>>}

Plain == [ent |-> "sound", ents |-> <<"sound", "npc sound">>, tpl |-> "sound", evq |-> "sound",
          more |-> "none", fault |-> "none"]

(* Saves *)

StateFile(ext, cells) == <<Name(ext), Number(Len(cells))>> \o cells
Patches == <<Number(2), Number(5), Number(6)>>
Client(kind) ==
    CASE kind = "old" -> <<TagCell("VALV"), Number(3), Number(0)>>
      [] kind = "new" -> <<TagCell("VALV"), Number(Magic), Number(2)>> \o [k \in 1..8 |-> Number(0)]
      [] kind = "cut" -> <<TagCell("VALV"), Number(Magic), Number(2), Number(0)>>
      [] kind = "version" -> <<TagCell("VALV"), Number(Magic), Number(3)>>
      [] kind = "tag" -> <<TagCell("XXXX")>>

\* in_header: the number of state files is in the game header.
SaveCells(in_header, fault, files) ==
    LET globals == <<Class("GameHeader", 1, Ok(fault # "header"), IF in_header THEN Len(files) ELSE 0),
                     Class("GLOBAL", 1, Ok(fault # "global"), 3)>>
    IN  <<TagCell(IF fault = "tag" THEN "XXXX" ELSE "JSAV"), Number(2), Number(9), Number(1),
          Table(1, IF fault = "symbols" THEN "broken" ELSE "yes")>>
          \o globals \o (IF in_header THEN <<>> ELSE <<Number(Len(files))>>)
          \o FlattenSeq(files)

\* A save whose first state file is a .hl1 file as d says; what follows it.
Made(d, maps, rest) ==
    [file |-> SaveCells(rest = <<>>, "none", <<StateFile(".hl1", Hl1(2, TRUE, d))>> \o rest),
     maps |-> maps, facts |-> Hl1Facts(1, d, maps), losses |-> Hl1Losses(1, d, maps),
     fatal |-> "none"]

BlockFault == {"sound", "no header", "bogus header", "bogus body", "no body"}
Blocked ==
    {Made([Plain EXCEPT !.ent = e, !.tpl = t, !.evq = q], AllMaps, <<>>) :
        e \in BlockFault \cup {"broken header"},
        t \in BlockFault \cup {"broken body", "version", "cut body"},
        q \in BlockFault \cup {"broken body", "broken queue", "version"}}

EntKinds == SoundEnt \cup LostEnt \cup {"null", "empty"}
Peopled ==
    {Made([Plain EXCEPT !.ents = <<x, y>>], AllMaps, <<>>) : x, y \in EntKinds}

Headed ==
    {Made([Plain EXCEPT !.more = m, !.tpl = t], AllMaps, <<>>) :
        m \in {"twice", "weird", "physics"}, t \in {"sound", "broken body", "version"}}

Essential == {"GAME_HEADER", "CGlobalState", "SAVE_HEADER"}
Unknown ==
    {Made(Plain, AllMaps \ {dm}, <<>>) : dm \in AllMaps \ Essential}
    \cup {[Made(Plain, AllMaps \ {dm}, <<>>) EXCEPT !.facts = {}, !.fatal = "bad_class"] :
             dm \in Essential}

\* Another .hl1 file with symbols of its own, or the symbols of the first one; a
\* .hl2 and a .hl3 file.
Several ==
    {[Made([Plain EXCEPT !.tpl = c], AllMaps,
           <<StateFile(".hl3", Patches), StateFile(".hl2", Client(kind)),
             StateFile(".hl1", Hl1(IF own THEN 3 ELSE 2, own, Plain))>>)
        EXCEPT !.facts = @ \cup Hl1Facts(4, Plain, AllMaps)] :
        own \in BOOLEAN, kind \in {"old", "new"}, c \in {"sound", "broken body"}}

Broken(cells, fatal) ==
    [file |-> cells, maps |-> AllMaps, facts |-> {}, losses |-> {}, fatal |-> fatal]
Fatal ==
    {Broken(SaveCells(TRUE, f[1], <<StateFile(".hl1", Hl1(2, TRUE, Plain))>>), f[2]) :
        f \in {<<"tag", "sav_bad_tag">>, <<"symbols", "bad_symbol_table">>,
               <<"header", "bad_class">>, <<"global", "bad_class">>}}
    \cup {Broken(SaveCells(TRUE, "none", <<StateFile(".hl1", Hl1(2, TRUE, [Plain EXCEPT !.fault = f[1]]))>>), f[2]) :
        f \in {<<"hl1 tag", "hl1_bad_tag">>, <<"symbols", "bad_symbol_table">>,
               <<"vector", "bad_class">>, <<"style", "bad_class">>, <<"bodies size", "overflow">>}}
    \cup {Broken(SaveCells(TRUE, "none", <<StateFile(".hl2", Client(f[1]))>>), f[2]) :
        f \in {<<"cut", "overflow">>, <<"version", "hl2_bad_section_header">>, <<"tag", "hl2_bad_tag">>}}
    \cup {Broken(SaveCells(TRUE, "none", <<StateFile(".hl3", <<Number(3)>>)>>), "overflow"),
          Broken(SaveCells(TRUE, "none", <<StateFile(".hl4", <<>>)>>), "bad_state_file_name")}

\* Cut short anywhere.
Cut ==
    LET cells(in_header) == SaveCells(in_header, "none",
                                <<StateFile(".hl1", Hl1(2, TRUE, Plain)), StateFile(".hl3", Patches)>>)
    IN  UNION {{Broken(SubSeq(cells(h), 1, n), IF n = 0 THEN "sav_bad_tag" ELSE "overflow") :
                   n \in 0..(Len(cells(h)) - 1)} : h \in BOOLEAN}

MCSaves == Blocked \cup Peopled \cup Headed \cup Unknown \cup Several \cup Fatal \cup Cut
=============================================================================
