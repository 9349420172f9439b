----------------------------- MODULE EntFactory -----------------------------
(***************************************************************************)
(* How the payload finds the dictionary of entity factories, goes through  *)
(* its tree, and finds the datamap of each entity in the code that creates *)
(* it (ch_ent_factory.c).  A function is a sequence of instructions, the   *)
(* kinds of which that are told apart here are constants.                  *)
(***************************************************************************)
EXTENDS Search

CONSTANTS
    MaxDepth,   \* the calls that fit on the stack of the payload's thread
    MaxInstrs   \* the instructions in the 128 bytes that are searched

VARIABLES
    stack,      \* the calls of ch_in_order_traverse_factory_dict_tree in progress
    packed,     \* the pairs in the msgpack buffer
    scan,       \* the locals of ch_process_factory_dict_node
    vt_off      \* vt_get_data_desc_map_off, which stays from entity to entity

ent_vars == <<stack, packed, scan, vt_off>>
vars == <<search_vars, ent_vars>>

Dict == memory.factories
Server == memory.mods[1]

Invalid == -1   \* CH_FACTORY_DICT_INVALID_IDX; also no vt_off, and no function

NoScan == [fun |-> Invalid, ip |-> 1, depth |-> 0, dm |-> Null, seen_jmp |-> FALSE, call |-> Invalid]

EntInit == SearchInit /\ stack = <<>> /\ packed = <<>> /\ scan = NoScan /\ vt_off = Invalid

\* The places where the name of the command is used: the first one that is in a
\* constructor of a command with its description is the constructor.
Ctors == {k \in DOMAIN Dict.uses : Dict.uses[k].ctor /\ Dict.uses[k].desc /\ Dict.uses[k].impl # Invalid}

\* After a virtual call the callback loads the dictionary: the last load counts.
DictLoads(code) ==
    {k \in DOMAIN code : /\ code[k].op = "mov ecx"
                         /\ \E l \in 1..(k - 1) : code[l].op = "vcall"}

\* ch_find_ent_factory_dict, ch_find_ent_factory.  Strings that are there twice are
\* as bad as strings that are not there.
FindEntFactoryDict ==
    /\ spc = "find_dict"
    /\ LET code  == Dict.code[Dict.uses[Min(Ctors)].impl]
           loads == DictLoads(code)
       IN  IF Dict.strings # 1 THEN SendErrAndExit("strings") /\ UNCHANGED packed
           ELSE IF Ctors = {} THEN SendErrAndExit("ctor") /\ UNCHANGED packed
           ELSE IF \E k \in DOMAIN code : code[k].op = "bad"
           THEN SendErrAndExit("instruction") /\ UNCHANGED packed
           ELSE IF loads = {} THEN SendErrAndExit("dictionary") /\ UNCHANGED packed
           ELSE spc' = "send_dict" /\ packed' = <<>> /\ UNCHANGED sent
    /\ UNCHANGED <<memory, mod, pos, tables, stack, scan, vt_off>>

Frame(node) == [node |-> node, at |-> "left"]

\* Mutant: what was thrown is caught, and that is all.
Leave_Silently == spc' = "left" /\ UNCHANGED sent

\* The tree cannot be read, or makes no sense.
Leave == SendErrAndExit("memory of factory data")

\* A call for a node: there may be no such node, or no stack for it.
Visit(frames, node) ==
    IF node \notin DOMAIN Dict.nodes \/ Len(frames) = MaxDepth
    THEN Leave /\ UNCHANGED stack
    ELSE stack' = Append(frames, Frame(node)) /\ spc' = "traverse" /\ UNCHANGED sent

\* The message begins with the number of its pairs.
SendEntFactoryKv ==
    /\ spc = "send_dict"
    /\ IF Dict.nodes_ok THEN Visit(<<>>, Dict.root) ELSE Leave /\ UNCHANGED stack
    /\ UNCHANGED <<memory, mod, pos, tables, packed, scan, vt_off>>

Top == stack[Len(stack)]
Below == SubSeq(stack, 1, Len(stack) - 1)
GoOn(at) == stack' = Append(Below, [Top EXCEPT !.at = at])

TraverseLeft ==
    /\ spc = "traverse" /\ stack # <<>> /\ Top.at = "left"
    /\ LET l == Dict.nodes[Top.node].l
       IN  IF l = Invalid THEN GoOn("node") /\ UNCHANGED <<spc, sent>>
           ELSE Visit(Append(Below, [Top EXCEPT !.at = "node"]), l)
    /\ UNCHANGED <<memory, mod, pos, tables, packed, scan, vt_off>>

\* The beginning of ch_process_factory_dict_node.
TraverseNode ==
    /\ spc = "traverse" /\ stack # <<>> /\ Top.at = "node"
    /\ LET create == Dict.nodes[Top.node].create
       IN  IF create \notin DOMAIN Dict.code THEN Leave /\ UNCHANGED <<stack, scan>>
           ELSE /\ GoOn("right") /\ scan' = [NoScan EXCEPT !.fun = create]
                /\ spc' = "scan" /\ UNCHANGED sent
    /\ UNCHANGED <<memory, mod, pos, tables, packed, vt_off>>

TraverseRight ==
    /\ spc = "traverse" /\ stack # <<>> /\ Top.at = "right"
    /\ LET r == Dict.nodes[Top.node].r
       IN  IF r = Invalid THEN GoOn("return") /\ UNCHANGED <<spc, sent>>
           ELSE Visit(Append(Below, [Top EXCEPT !.at = "return"]), r)
    /\ UNCHANGED <<memory, mod, pos, tables, packed, scan, vt_off>>

Return ==
    /\ spc = "traverse" /\ stack # <<>> /\ Top.at = "return"
    /\ stack' = Below
    /\ UNCHANGED <<search_vars, packed, scan, vt_off>>

\* All of the tree has been gone through.
EndTraverse ==
    /\ spc = "traverse" /\ stack = <<>>
    /\ IF Dict.count = Len(packed) THEN Send(<<"linked names", Dict.count, packed>>) /\ spc' = "done" ELSE Leave
    /\ UNCHANGED <<memory, mod, pos, tables, ent_vars>>
-----------------------------------------------------------------------------
\* In a table of virtual functions: what is not a function, as behind the last one.
\* What is one is a datamap that it returns, or Null.
NotCode == "not code"

\* The places of functions that look as if they returned a datamap.
Getters(vt) == {i \in DOMAIN vt.funs : DatamapLooksValid(vt.funs[i], Server)}

\* Mutant: the search goes on behind the last function of the table.
FirstGetter_Behind(vt) == Min(Getters(vt) \cup {Len(vt.funs) + 1})

\* The first one, if there are functions only before it: entities have more.
FirstGetter(vt) ==
    Min({i \in Getters(vt) : \A j \in 1..i : vt.funs[j] # NotCode} \cup {Len(vt.funs) + 1})

\* ch_get_dm_from_server_ent_vtable: the place of the function in the table is
\* looked for until it is known.  A table that is too near to the end of .rdata is
\* none.
OffIn(vt) == IF vt_off = Invalid THEN FirstGetter(vt) ELSE vt_off
DatamapOf(vt) == IF vt.in_rdata /\ OffIn(vt) \in Getters(vt) THEN vt.funs[OffIn(vt)] ELSE Null

\* The function has been searched: in vain, then the first call after the jump is
\* followed, three functions deep.
EndOfFunction ==
    IF scan.dm # Null
    THEN /\ packed' = Append(packed, <<Dict.nodes[Top.node].k, scan.dm>>)
         /\ spc' = "traverse" /\ scan' = NoScan /\ UNCHANGED sent
    ELSE IF scan.call = Invalid \/ scan.depth = 2
    THEN SendErrAndExit("entity datamap") /\ UNCHANGED <<packed, scan>>
    ELSE IF scan.call \notin DOMAIN Dict.code THEN Leave /\ UNCHANGED <<packed, scan>>
    ELSE /\ scan' = [scan EXCEPT !.fun = scan.call, !.ip = 1, !.depth = @ + 1, !.call = Invalid]
         /\ UNCHANGED <<spc, packed, sent>>

Seen(changed) == scan' = changed /\ UNCHANGED <<spc, packed, sent, vt_off>>

\* What was called before the null check was new().
AfterJump(s) == [s EXCEPT !.seen_jmp = TRUE, !.call = Invalid]

\* One round of the inner loop of ch_process_factory_dict_node.
ScanInstruction ==
    /\ spc = "scan"
    /\ LET code == Dict.code[scan.fun]
           in   == code[scan.ip]
           next == [scan EXCEPT !.ip = @ + 1]
       IN  IF scan.ip > MaxInstrs \/ scan.ip > Len(code) THEN EndOfFunction /\ UNCHANGED vt_off
           ELSE CASE in.op = "ret" -> EndOfFunction /\ UNCHANGED vt_off
                  [] in.op = "bad" -> SendErrAndExit("instruction") /\ UNCHANGED <<packed, scan, vt_off>>
                  [] in.op = "mov vt" /\ scan.seen_jmp ->
                       LET vt == Dict.vts[in.arg]
                       IN  /\ scan' = IF DatamapOf(vt) = Null THEN next ELSE [next EXCEPT !.dm = DatamapOf(vt)]
                           /\ vt_off' = IF DatamapOf(vt) = Null THEN vt_off ELSE OffIn(vt)
                           /\ UNCHANGED <<spc, packed, sent>>
                  [] in.op = "call" /\ scan.call = Invalid -> Seen([next EXCEPT !.call = in.arg])
                  [] in.op = "jz" -> Seen(AfterJump(next))
                  [] OTHER -> Seen(next)
    /\ UNCHANGED <<memory, mod, pos, tables, stack>>

EntNext ==
    \/ FindEntFactoryDict \/ SendEntFactoryKv
    \/ TraverseLeft \/ TraverseNode \/ TraverseRight \/ Return \/ EndTraverse
    \/ ScanInstruction

Next ==
    \/ SearchNext /\ UNCHANGED ent_vars
    \/ EntNext

\* main of the payload, with nothing to wait for but the pipe.
Spec == EntInit /\ [][Next]_vars /\ WF_vars(Next)
-----------------------------------------------------------------------------
(* Properties *)

Messages(kind) == {sent[i] : i \in {j \in DOMAIN sent : sent[j][1] = kind}}

\* What a datamap refers to.
Refs(maps, x) == ({maps[x].base} \cup {maps[x].fields[i].td : i \in DOMAIN maps[x].fields}) \ {Null}

\* d is sound, and so is all that it refers to, directly or not.
IsWhole(maps, d) ==
    \E S \in SUBSET {x \in DOMAIN maps : maps[x].sound} :
        d \in S /\ \A x \in S : Refs(maps, x) \subseteq S

\* Only the table that the game itself runs is searched, not one that something
\* else in the code that looks like its caller leads to.  What is sent is whole: the
\* datamaps a datamap refers to, directly or not, lie in the same module with all
\* their fields, as Payload and GameMaps take for granted; and when the search is
\* done every one that the game sets up has been sent.
SentIsWhole ==
    /\ \A k \in DOMAIN tables : tables[k] = memory.mods[k].real
    /\ \A m \in Messages("datamap") : IsWhole(memory.mods[m[2]].maps, m[3])
    /\ Messages("linked names") # {} =>
          \A k \in DOMAIN memory.mods : \A d \in memory.mods[k].set_up :
             <<"datamap", k, d>> \in Messages("datamap")

\* The linked names are as many as their message announces, each once, and each one
\* is linked to the datamap of the class that its factory makes.
LinkedToOwnClass ==
    \A m \in Messages("linked names") :
        /\ m[2] = Len(m[3])
        /\ \A i, j \in DOMAIN m[3] : m[3][i][1] = m[3][j][1] => i = j
        /\ \A i \in DOMAIN m[3] : \A n \in DOMAIN Dict.nodes :
              m[3][i][1] = Dict.nodes[n].k => m[3][i][2] = Dict.nodes[n].class

\* Whatever the memory is the search comes to an end, and the exe is told which.
SearchEnds ==
    <>(/\ spc \in {"done", "left"}
       /\ \/ Messages("linked names") # {} /\ Messages("error") = {}
          \/ Messages("linked names") = {} /\ Cardinality(Messages("error")) = 1)
=============================================================================
