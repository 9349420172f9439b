------------------------------ MODULE MCSearch ------------------------------
(***************************************************************************)
(* EntFactory for TLC: what compilers may have made of the game, and what  *)
(* else may be found there.                                                *)
(***************************************************************************)
EXTENDS EntFactory, SequencesExt

Op(op) == [op |-> op, sec |-> "none", at |-> 0]
Ptr(sec, at) == [op |-> "operand", sec |-> sec, at |-> at]

\* A caller of static initialisers, as each of the compilers makes it.
Vs2005(from, to) == <<Op("BE"), from, Op("8B"), Op("BF"), to, Op("3B")>>
Vs2010(from, to) == <<Op("B8"), from, Op("BE"), to, Op("59")>>
Steampipe(from, to) == <<Op("E8"), Op("68"), to, Op("68"), from, Op("E8")>>

\* A static initialiser that sets up the datamap that data has at a place, one that
\* keeps something else, and one that does something else.
Init(at) == <<Op("6A"), Op("E8"), Ptr("text", 1), Op("A3"), Ptr("data", at), Op("C3")>>
Elsewhere == <<Op("6A"), Op("E8"), Ptr("text", 1), Op("A3"), Ptr("bss", 1), Op("C3")>>
Other == <<Op("55"), Op("E8"), Ptr("text", 1), Op("A3"), Ptr("data", 1), Op("C3")>>
-----------------------------------------------------------------------------
Field(td) == [EmptyField EXCEPT !.type = "integer", !.name = "rdata", !.external = "rdata", !.td = td]
Map(base, fields) ==
    [in |-> "data", name |-> "rdata", fields |-> fields, sizes |-> TRUE, base |-> base, sound |-> TRUE]
Bad(d) == [d EXCEPT !.sound = FALSE]

Raw == [Field(Null) EXCEPT !.type = "void", !.name = "ascii", !.func = "text",
                         !.flags = "FTYPEDESC_FUNCTIONTABLE"]

\* own, prop and more are entities' datamaps.  The others are no datamaps, each for
\* a reason of its own, and in_bad and on_bad refer to one.
Maps ==
    LET Broken(field) == Bad(Map(Null, <<Field(Null), field>>))
    IN  [base     |-> Map(Null, <<Field(Null), Raw>>),
         emb      |-> Map(Null, <<EmptyField>>),
         own      |-> Map("base", <<Field(Null), Field("emb")>>),
         prop     |-> Map("own", <<EmptyField>>),
         more     |-> Map("own", <<Field("base")>>),
         not_data |-> Bad([Map(Null, <<Field(Null)>>) EXCEPT !.in = "heap"]),
         no_name  |-> Bad([Map(Null, <<Field(Null)>>) EXCEPT !.name = "null"]),
         no_field |-> Bad(Map(Null, <<>>)),
         bad_ops  |-> Broken([Field(Null) EXCEPT !.ops = "heap"]),
         bad_ext  |-> Broken([Field(Null) EXCEPT !.external = "heap"]),
         bad_func |-> Broken([Raw EXCEPT !.func = "heap"]),
         bad_raw  |-> Broken([Raw EXCEPT !.type = "integer"]),
         empty_2  |-> Broken(EmptyField),
         in_bad   |-> Map("base", <<Field("bad_ops")>>),
         on_bad   |-> Map("no_name", <<Field(Null)>>)]

Good == <<"base", "emb", "own", "prop", "more">>
Foul == <<"not_data", "no_name", "no_field", "bad_ops", "bad_ext", "bad_func", "bad_raw",
          "empty_2", "in_bad", "on_bad", "nowhere">>
-----------------------------------------------------------------------------
Rdata(k) == Ptr("rdata", k)

\* Functions for the static initialisers of a module, and the code that follows
\* them.  All functions are in .rdata in order, and so is what is behind them; those
\* in the table are from..to-1.
Module(inits, data, from, to, code) ==
    [text   |-> FlattenSeq(inits) \o code,
     rdata  |-> [k \in 1..(Len(inits) + 1) |-> 6 * (k - 1) + 1],
     data   |-> data,
     maps   |-> Maps,
     real   |-> <<from, to>>,
     set_up |-> {data[inits[k][5].at] :
                    k \in {j \in from..(to - 1) : inits[j] = Init(inits[j][5].at)}} \cap Range(Good)]

\* A module with datamaps in its table, and initialisers that are no more called.
Plain(data, code) ==
    LET n == Len(data)
    IN  Module([k \in 1..n |-> Init(k)] \o <<Other, Elsewhere, Init(1)>>, data, 1, n + 3, code)

\* The code that calls the table 1..to, and code like it.
Codes(to) ==
    LET a == Vs2005(Rdata(1), Rdata(to))
        b == Vs2010(Rdata(1), Rdata(to))
        c == Steampipe(Rdata(1), Rdata(to))
    IN  {a, b, c, Vs2005(Rdata(2), Rdata(3)) \o a, c \o Vs2010(Rdata(2), Rdata(2)), <<Op("55")>>,
         Vs2005(Rdata(1), Ptr("data", 1)), Steampipe(Rdata(99), Rdata(2))}

Servers ==
    {Plain(Good, code) : code \in Codes(8)}
    \cup {Plain(<<foul>> \o Good, Vs2005(Rdata(1), Rdata(9))) : foul \in Range(Foul)}
    \cup {Plain(Foul, Vs2010(Rdata(1), Rdata(14)))}

\* Only part of the initialisers are in the table; the last is of a datamap, or it
\* is empty: its end is before its start.
Clients ==
    {Module([k \in 1..3 |-> Init(k)], <<"base", "own", "bad_ops">>, 1, 3, Steampipe(Rdata(1), Rdata(3))),
     Module([k \in 1..3 |-> Init(k)], <<"base", "own", "emb">>, 2, 4, Vs2005(Rdata(2), Rdata(4))),
     Module(<<Other, Init(1)>>, <<"base">>, 2, 1, Vs2005(Rdata(2), Rdata(1)))}
-----------------------------------------------------------------------------
Ins(op) == [op |-> op, arg |-> 0]
Arg(op, arg) == [op |-> op, arg |-> arg]

\* Tables of virtual functions: 1, 2, 3 are those of base, own and prop, 4 is that of
\* another class, behind which that of an entity follows; 5 is not a table.
Vts ==
    <<[in_rdata |-> TRUE, funs |-> <<Null, Null, "base", Null>>],
      [in_rdata |-> TRUE, funs |-> <<Null, Null, "own", Null>>],
      [in_rdata |-> TRUE, funs |-> <<Null, Null, "prop", Null>>],
      [in_rdata |-> TRUE, funs |-> <<Null, NotCode, Null, "base">>],
      [in_rdata |-> FALSE, funs |-> <<>>]>>

\* Functions.  1 is that of the command, 3 to 10 create an entity.
Code ==
    <<<<Ins("mov ecx"), Ins("vcall"), Ins("mov ecx"), Ins("ret")>>,
      <<Ins("ret")>>,                                                           \* new
      <<Arg("call", 2), Ins("jz"), Arg("mov vt", 1), Arg("mov vt", 2), Ins("ret")>>,
      <<Arg("call", 2), Ins("jz"), Arg("call", 11), Arg("call", 2), Ins("ret")>>,
      <<Arg("call", 3), Ins("ret")>>,
      <<Arg("call", 4), Ins("other"), Ins("ret"), Ins("bad")>>,
      <<Arg("call", 2), Ins("jz"), Arg("mov vt", 4), Arg("mov vt", 5), Arg("mov vt", 3), Ins("ret")>>,
      <<Arg("call", 2), Ins("jz"), Ins("bad"), Arg("mov vt", 2), Ins("ret")>>,
      <<Arg("call", 6), Ins("ret")>>,                                           \* too deep
      <<Arg("call", 2), Ins("jz"), Arg("call", 99), Ins("ret")>>,
      <<Arg("mov vt", 1), Arg("mov vt", 3), Ins("ret")>>,                       \* a constructor
      <<Ins("other"), Ins("other"), Ins("jz"), Ins("other"), Ins("other"), Ins("other"),
        Arg("mov vt", 2)>>,                                                     \* too long
      <<Ins("vcall"), Ins("bad")>>,
      <<Ins("mov ecx"), Ins("ret")>>>>

Creates == {3, 4, 5, 6, 7}
Fails == {8, 9, 10, 12, 99}
ClassOf(create) == IF create \in {3, 5} THEN "own" ELSE "prop"

Node(k, l, r, create) == [k |-> k, l |-> l, r |-> r, create |-> create, class |-> ClassOf(create)]

Use == [ctor |-> TRUE, desc |-> TRUE, impl |-> 1]

\* A dictionary with these nodes, the root of which is the first one.
Factories(nodes, count) ==
    [strings |-> 1, uses |-> <<[Use EXCEPT !.desc = FALSE, !.impl = 14], Use>>, code |-> Code, vts |-> Vts,
     nodes |-> nodes, nodes_ok |-> TRUE, root |-> 1, count |-> count]

Two == Factories(<<Node("a", 2, Invalid, 3), Node("b", Invalid, Invalid, 4)>>, 2)

Dictionaries ==
    {Factories(<<Node("a", 2, 3, x), Node("b", Invalid, Invalid, y), Node("c", Invalid, Invalid, z)>>, 3) :
        x \in Creates, y \in Creates, z \in Creates}
    \cup {Factories(<<Node("a", 2, Invalid, x), Node("b", Invalid, 3, y), Node("c", Invalid, Invalid, 3)>>, 3) :
        x \in Creates \cup Fails, y \in Creates \cup Fails}

\* One way each for it to go wrong.
Wrong ==
    {[Two EXCEPT !.strings = 0], [Two EXCEPT !.strings = 2], [Two EXCEPT !.uses[2].ctor = FALSE],
     [Two EXCEPT !.uses[2].impl = Invalid], [Two EXCEPT !.uses[2].impl = 13],
     [Two EXCEPT !.uses[2].impl = 14], [Two EXCEPT !.nodes_ok = FALSE], [Two EXCEPT !.count = 1],
     [Two EXCEPT !.count = 3], [Two EXCEPT !.root = Invalid], [Two EXCEPT !.root = 2],
     [Two EXCEPT !.nodes[2].l = 7], [Two EXCEPT !.nodes[2].l = 1], [Two EXCEPT !.nodes[2].r = 2]}

Server1 == Plain(Good, Vs2005(Rdata(1), Rdata(8)))
Client1 == CHOOSE m \in Clients : m.rdata[m.real[1]] = 1

MCMemories ==
    {[mods |-> <<server, client>>, factories |-> Two] : server \in Servers, client \in Clients}
    \cup {[mods |-> <<Server1, Client1>>, factories |-> f] : f \in Dictionaries \cup Wrong}
=============================================================================
