----------------------------- MODULE MCTextDump -----------------------------
(***************************************************************************)
(* Memory for TLC: an entity that derives from another, each with fields   *)
(* of every kind; vectors, outputs and variants in it; a block of          *)
(* templates.  A SHORT is one number: of several the dump shows every       *)
(* second one (see the README).                                            *)
(***************************************************************************)
EXTENDS TextReader

MCDataMap == {"ent", "npc", "vec", "deep", "empty", "val", "action"}

\* Offsets follow from the sizes.
F(name, type, off, size, map, ops) ==
    [name |-> name, type |-> type, off |-> off, size |-> size, map |-> map, ops |-> ops]
Plain(name, type, off, size) == F(name, type, off, size, NoMap, FALSE)
Custom(name, off) == F(name, "CUSTOM", off, 4, NoMap, TRUE)

MCBaseOf == [d \in MCDataMap |-> CASE d = "npc" -> "ent" [] d = "deep" -> "vec" [] d = "ent" -> "empty"
                                   [] d \notin {"npc", "deep", "ent"} -> NoMap]

MCFieldsOf ==
    [d \in MCDataMap |->
        CASE d = "vec" -> <<Plain("xyz", "VECTOR", 0, 12)>>
          [] d = "deep" -> <<Plain("id", "INTEGER", 12, 4)>>
          [] d = "empty" -> <<>>
          [] d = "ent" -> <<Plain("name", "STRING", 0, 4), Plain("text", "CHARACTER", 4, 4),
                            F("deep", "EMBEDDED", 8, 16, "deep", FALSE), Custom("list", 24),
                            Plain("byte", "CHARACTER", 28, 1), Plain("on", "BOOLEAN", 29, 3)>>
          [] d = "npc" -> <<Custom("list", 32), Plain("id", "INTEGER", 36, 4), Custom("var", 40),
                            F("own", "CUSTOM", 44, 4, NoMap, FALSE),
                            Plain("short", "SHORT", 48, 2), Custom("act", 52)>>
          [] d = "val" -> <<Custom("value", 0)>>
          [] d = "action" -> <<Plain("times", "INTEGER", 0, 4)>>]

MCSizeOf == [d \in MCDataMap |-> CASE d = "vec" -> 12 [] d = "deep" -> 16 [] d = "ent" -> 32 [] d = "npc" -> 56
                                   [] d \in {"val", "action"} -> 4 [] d = "empty" -> 0]

\* The bytes of a value.
B(v, n) == IF v = 0 THEN [k \in 1..n |-> Zero] ELSE [k \in 1..n |-> <<v, k>>]
P(v) == B(v, 4)

Vec(v) == B(v, 4) \o B(0, 4) \o B(v + 1, 4)

\* 1..4 are vectors, 5 and 6 outputs, 7 to 9 variants, 10 and 11 activities.
MCObject ==
    [v \in 1..11 |->
        CASE v = 1 -> [kind |-> "vector", map |-> "deep", ft |-> "EMBEDDED", n |-> 2, size |-> 16,
                       data |-> Vec(21) \o B(23, 4) \o Vec(24) \o B(0, 4)]
          [] v = 2 -> [kind |-> "vector", map |-> NoMap, ft |-> "EHANDLE", n |-> 2, size |-> 4,
                       data |-> B(25, 4) \o B(26, 4)]
          [] v = 3 -> [kind |-> "vector", map |-> "val", ft |-> "EMBEDDED", n |-> 0, size |-> 4, data |-> <<>>]
          [] v = 4 -> [kind |-> "vector", map |-> NoMap, ft |-> "VECTOR", n |-> 1, size |-> 12, data |-> Vec(27)]
          [] v = 5 -> [kind |-> "output", val |-> [map |-> "val", data |-> P(7)],
                       actions |-> [map |-> "action", n |-> 2, data |-> B(31, 4) \o B(32, 4)]]
          [] v = 6 -> [kind |-> "output", val |-> [map |-> "val", data |-> P(0)],
                       actions |-> [map |-> "action", n |-> 0, data |-> <<>>]]
          [] v = 7 -> [kind |-> "variant", ft |-> "VECTOR", data |-> Vec(33)]
          [] v = 8 -> [kind |-> "variant", ft |-> "BOOLEAN", data |-> B(35, 1)]
          [] v = 9 -> [kind |-> "variant", ft |-> "VOID", data |-> <<>>]
          [] v = 10 -> [kind |-> "activity", tagged |-> TRUE, data |-> B(36, 4)]
          [] v = 11 -> [kind |-> "activity", tagged |-> FALSE, data |-> B(37, 4)]]

Ent(list, zero) ==
    (IF zero THEN B(0, 8) ELSE B(41, 4) \o B(42, 1) \o B(43, 1) \o B(0, 2))
        \o (IF zero THEN B(0, 16) ELSE Vec(44) \o B(46, 4)) \o P(list)
        \o B(47, 1) \o B(48, 1) \o B(0, 1) \o B(49, 1)
Npc(list, base, var, zero) ==
    Ent(base, zero) \o P(list) \o B(51, 4) \o P(var) \o P(0) \o B(52, 2) \o B(54, 2) \o P(IF zero THEN 10 ELSE 11)

NPC(list, base, var, zero) == [kind |-> "class", map |-> "npc", data |-> Npc(list, base, var, zero)]
AnEnt(list) == [kind |-> "class", map |-> "ent", data |-> Ent(list, FALSE)]

a == Char("a")  sp == Char(" ")
SomeTexts == {<<>>, <<a, sp>>, <<sp>>, <<NL, a, NL, NL, a, NL>>, <<NL, sp, NL>>}
Templates(s, t) ==
    [kind |-> "templates",
     block |-> <<[map |-> "ent", data |-> Ent(2, FALSE), name |-> 61, map_data |-> s],
                 [map |-> "val", data |-> P(9), name |-> 62, map_data |-> t]>>]

MCDumps ==
    {[flag |-> f, things |-> <<NPC(l, 0, v, z), AnEnt(2)>>] :
        f \in BOOLEAN, z \in BOOLEAN, l \in {1, 3, 5, 6}, v \in {0, 7, 8, 9}}
    \cup {[flag |-> FALSE, things |-> <<NPC(4, 1, 7, FALSE), NPC(5, 5, 8, TRUE), AnEnt(0)>>]}
    \cup {[flag |-> f, things |-> <<AnEnt(6), Templates(s, t), AnEnt(3)>>] : f \in BOOLEAN, s, t \in SomeTexts}
=============================================================================
