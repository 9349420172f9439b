------------------------------- MODULE Search -------------------------------
(***************************************************************************)
(* How the payload searches the sections of the game's modules for         *)
(* datamaps (ch_search.c): for the code that runs the static initialisers, *)
(* in their table for functions that set up a datamap, and whether what    *)
(* these point to looks like one.  Payload has what comes of it as the     *)
(* choice of Searches.                                                     *)
(*                                                                         *)
(* Code is a sequence of cells: an opcode, or an operand which is an       *)
(* address: a section and a place in it.  What is only reported is left    *)
(* out.                                                                    *)
(***************************************************************************)
EXTENDS Integers, Sequences, FiniteSets, FiniteSetsExt

CONSTANTS
    Null,       \* a null pointer to a datamap
    Memories    \* what the game's memory may be

\* mods - of each module:
\*   text     - its code
\*   rdata    - the places in its .rdata, a table of functions in text
\*   data     - the pointers to datamaps in its .data
\*   maps     - what is at the addresses that these lead to
\*   real     - the bounds of its table of static initialisers
\*   set_up   - the datamaps that the functions in this table set up
\* factories - see EntFactory
Modules == UNION {{m.mods[k] : k \in DOMAIN m.mods} : m \in Memories}

ASSUME SearchAssumption ==
    /\ \A m \in Memories : Len(m.mods) \in Nat \ {0} /\ DOMAIN m.mods = 1..Len(m.mods)
    /\ \A g \in Modules :
          /\ {"text", "rdata", "data", "maps", "real", "set_up"} \subseteq DOMAIN g
          /\ Len(g.text) \in Nat /\ DOMAIN g.text = 1..Len(g.text)
          /\ g.real \in Nat \X Nat

VARIABLES
    memory,     \* the game's memory, which the search does not change
    spc,        \* where the search is
    mod,        \* the module it is at
    pos,        \* the static initialiser it is at
    tables,     \* sc->mods[].static_inits: bounds, for the modules that are done
    sent        \* the messages that have been sent

search_vars == <<memory, spc, mod, pos, tables, sent>>

SearchInit ==
    /\ memory \in Memories
    /\ spc = "static_inits" /\ mod = 1 /\ pos = 1 /\ tables = <<>> /\ sent = <<>>

Here == memory.mods[mod]

Send(m) == sent' = Append(sent, m)

\* ch_send_err_and_exit
SendErrAndExit(what) == Send(<<"error", what>>) /\ spc' = "left"
-----------------------------------------------------------------------------
\* In a pattern it says that the cell may be anything.
Wild == "?"

\* ch_pattern_match: the pattern is in the text, from k on.
PatternMatch(k, text, pattern) ==
    /\ k \in DOMAIN text /\ k + Len(pattern) - 1 <= Len(text)
    /\ \A i \in DOMAIN pattern : pattern[i] \in {Wild, text[k + i - 1].op}

\* The caller of the static initialisers, as compilers write it.  (The operands of
\* one cell each, start and end of the table, are where start and end say.)
StaticInitCallers ==
    << [cells |-> <<"BE", Wild, "8B", "BF", Wild, "3B">>, start |-> 2, end |-> 5],
       [cells |-> <<"B8", Wild, "BE", Wild, "59">>,       start |-> 2, end |-> 4],
       [cells |-> <<"E8", "68", Wild, "68", Wild, "E8">>, start |-> 5, end |-> 3] >>

\* Where any of the patterns is found, and which one it is.
Found(text) ==
    {f \in (DOMAIN text) \X (DOMAIN StaticInitCallers) :
        PatternMatch(f[1], text, StaticInitCallers[f[2]].cells)}

\* ch_pattern_multi_search: at a second place the search fails.
IsUnique(found) == found # {} /\ \A f, g \in found : f[1] = g[1]

\* The first pattern that matches at the first place.
First(found) ==
    CHOOSE f \in found : \A g \in found : f[1] < g[1] \/ (f[1] = g[1] /\ f[2] <= g[2])

\* The operands of what is found.
TableStart(g, f) == g.text[f[1] + StaticInitCallers[f[2]].start - 1]
TableEnd(g, f)   == g.text[f[1] + StaticInitCallers[f[2]].end - 1]

InRdata(g, cell) == cell.sec = "rdata" /\ cell.at \in DOMAIN g.rdata

LeadsToTable(g, f) == InRdata(g, TableStart(g, f)) /\ InRdata(g, TableEnd(g, f))

\* What the search relies on: something else in a module may look like the caller
\* and lead to a table, but then the caller is there too.
ASSUME CallerAssumption ==
    \A g \in Modules :
        (\E f \in Found(g.text) : LeadsToTable(g, f)) =>
            \E f \in Found(g.text) : <<TableStart(g, f).at, TableEnd(g, f).at>> = g.real

\* ch_find_static_inits, for one module.
FindStaticInits ==
    /\ spc = "static_inits"
    /\ LET found == Found(Here.text)
           f     == First(found)
       IN  IF ~IsUnique(found) THEN SendErrAndExit("caller") /\ UNCHANGED <<mod, tables>>
           ELSE IF ~LeadsToTable(Here, f)
           THEN SendErrAndExit("bogus pointers") /\ UNCHANGED <<mod, tables>>
           ELSE /\ tables' = Append(tables, <<TableStart(Here, f).at, TableEnd(Here, f).at>>)
                /\ UNCHANGED sent
                /\ IF mod = Len(memory.mods) THEN spc' = "iterate" /\ mod' = 1
                   ELSE mod' = mod + 1 /\ UNCHANGED spc
    /\ UNCHANGED <<memory, pos>>
-----------------------------------------------------------------------------
\* What a pointer in a datamap points to, if it is where it should be: "null", a
\* section, or "elsewhere".
InOrNull(where, sec) == where \in {"null", sec}

\* A field of zeros.
EmptyField ==
    [type |-> "void", sizes |-> TRUE, name |-> "null", external |-> "null", ops |-> "null",
     func |-> "null", flags |-> "", td |-> Null]

\* The name of a field is in .rdata; that of a raw function was allocated.
NameOK(f) ==
    \/ f.name = "rdata"
    \/ /\ f.name = "ascii" /\ f.type = "void" /\ f.func # "null"
       /\ f.flags = "FTYPEDESC_FUNCTIONTABLE"

FieldOK(f) ==
    /\ f.type # "bogus" /\ f.sizes /\ NameOK(f)
    /\ InOrNull(f.external, "rdata") /\ InOrNull(f.ops, "data") /\ InOrNull(f.func, "text")

\* Mutant: the datamaps of embedded fields are not looked at.
Referred_Base(d) == {d.base} \ {Null}

\* The datamaps that have to look valid for a datamap to do so.
Referred(d) == ({d.base} \cup {d.fields[i].td : i \in DOMAIN d.fields}) \ {Null}

\* A class that saves nothing has a single empty field.
IsEmpty(d) == d.fields = <<EmptyField>>

\* What it has to look like itself.
ItselfOK(d) ==
    /\ d.in = "data" /\ d.name = "rdata" /\ d.fields # <<>> /\ d.sizes
    /\ IsEmpty(d) \/ \A i \in DOMAIN d.fields : FieldOK(d.fields[i])

\* ch_datamap_looks_valid, of all that there is.  (Circles of datamaps are not among
\* the memories: the recursion would not end.)
LooksValid(maps) ==
    LET valid[x \in DOMAIN maps] ==
            ItselfOK(maps[x]) /\ \A r \in Referred(maps[x]) : r \in DOMAIN maps /\ valid[r]
    IN  valid

DatamapLooksValid(id, g) == id \in DOMAIN g.maps /\ LooksValid(g.maps)[id]

\* A function that passes 0 to another one and keeps what that returned.
DataDescInit == <<"6A", "E8", Wild, "A3", Wild, "C3">>

\* The datamap that a static initialiser sets up, if it is one that does.
InitOf(g, k) ==
    LET init == g.rdata[k]
        dm   == g.text[init + 4]
    IN  IF PatternMatch(init, g.text, DataDescInit) /\ dm.sec = "data"
        THEN g.data[dm.at] ELSE Null

\* What the search relies on: what looks like a datamap is sound, and what the game
\* sets up looks like one, in a function that looks as all of them do.
ASSUME MapsAssumption ==
    \A g \in Modules :
        /\ \A x \in DOMAIN g.maps : ItselfOK(g.maps[x]) => g.maps[x].sound
        /\ \A d \in g.set_up :
              /\ DatamapLooksValid(d, g)
              /\ \E k \in g.real[1]..(g.real[2] - 1) : InitOf(g, k) = d

\* pos is in the table, which is empty if it starts after its end.
InTable == tables[mod][1] + pos - 1 < tables[mod][2]

\* One round of the loop of ch_iterate_datamaps.
IterateDatamaps ==
    /\ spc = "iterate" /\ InTable
    /\ LET dm == InitOf(Here, tables[mod][1] + pos - 1)
       IN  IF DatamapLooksValid(dm, Here) THEN Send(<<"datamap", mod, dm>>) ELSE UNCHANGED sent
    /\ pos' = pos + 1
    /\ UNCHANGED <<memory, spc, mod, tables>>

\* There has been one datamap in the module at least.
EndOfModule ==
    /\ spc = "iterate" /\ ~InTable
    /\ pos' = 1
    /\ IF \A i \in DOMAIN sent : sent[i][1] # "datamap" \/ sent[i][2] # mod
       THEN SendErrAndExit("no datamaps") /\ UNCHANGED mod
       ELSE IF mod = Len(memory.mods) THEN spc' = "find_dict" /\ UNCHANGED <<mod, sent>>
       ELSE mod' = mod + 1 /\ UNCHANGED <<spc, sent>>
    /\ UNCHANGED <<memory, tables>>

SearchNext == FindStaticInits \/ IterateDatamaps \/ EndOfModule
=============================================================================
