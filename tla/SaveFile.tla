------------------------------ MODULE SaveFile ------------------------------
(***************************************************************************)
(* How the parser goes through a save (ch_save.c): its header, then the    *)
(* state files one after the other (ch_sf_hl*.c); in a .hl1 file the       *)
(* headers of the blocks, the tables and the bodies (block_handlers/).     *)
(*                                                                         *)
(* A file is a sequence of cells: a number, a tag, a name, a symbol table, *)
(* or a class with all its records.  How a class is restored is the module *)
(* Records; here it is restored, or it is broken and the reader is left    *)
(* anywhere inside of what it could read.                                  *)
(***************************************************************************)
EXTENDS ByteReader, Sequences

CONSTANTS
    Npc,        \* the classes that derive from CAI_BaseNPC
    Nothing,    \* NULL
    Partial,    \* a class that was allocated and not restored, or only in part
    Headless,   \* an NPC the header of which could not be restored
    Outputless, \* an entity one output of which could not be restored
    Saves       \* the saves: their cells, the collection they are parsed with,
                \* and what is known of them

NotWhole == {Nothing, Partial, Headless, Outputless}

\* is  - "num", "tag", "name", "symbols" or "class"
\* n   - the number; of a class that of its marker, of symbols which table it is
\* sym - what the tag or the class is called, or the extension of the name
\* st  - of a class: the symbol table it was saved with
\* ok  - "yes", or what is wrong with the class or the symbols
\* val - of a class: what is saved in it

\* What there is in the classes the parser looks into: how many state files there
\* are, how many levels and styles, how many events; which entity is how large and
\* where; where the header and the body of which block are, -1 for nowhere.
Fits(cell) ==
    CASE cell.sym \in {"GameHeader", "EventQueue"} -> cell.val \in Nat
      [] cell.sym = "Save Header" -> cell.val \in [connections : Nat, styles : Nat]
      [] cell.sym = "ETABLE" ->
            cell.val \in [classname : STRING \cup {Nothing}, size : Nat, location : Nat]
      [] cell.sym = "headers" ->
            cell.val \in Seq([name : STRING, loc : Nat \cup {-1}, body : Nat \cup {-1}])
      [] OTHER -> TRUE

ASSUME SavesAssumption ==
    \A s \in Saves :
        /\ DOMAIN s.file = 1..Len(s.file) /\ Len(s.file) \in Nat
        /\ \A c \in DOMAIN s.file :
              /\ {"is", "n", "sym", "st", "ok", "val"} \subseteq DOMAIN s.file[c]
              /\ s.file[c].n \in Nat
              /\ s.file[c].is = "class" => s.file[c].val \notin NotWhole /\ Fits(s.file[c])

\* What is known to be sound in a save: a state file, a block, an element of it and
\* what that is.
ASSUME FactsAssumption ==
    \A s \in Saves : \A f \in s.facts : f = <<f[1], f[2], f[3], f[4]>> /\ f[4] # Nothing

ASSUME NothingAssumption == Nothing \notin {Headless, Outputless}

VARIABLES
    save,           \* the save being parsed
    br,             \* ctx->br
    br_cur_base,    \* ctx->br_cur_base
    st,             \* ctx->data->_last_st: which symbol table it is, 0 for NULL
    locals,         \* the locals of the calls in progress
    pc,             \* where the parser is
    parsed,         \* ctx->data
    logged,         \* ctx->data->errors_ll: state file, block, element, message
    err             \* what ch_parse_save_bytes returned

readers == <<br, br_cur_base, st>>
parse_vars == <<save, readers, locals, pc, parsed, logged, err>>

\* ch_block_type, and the handlers that have functions
BlockOrder == <<"Entities", "Physics", "AI", "Templates", "ResponseSystem",
                "Commentary", "EventQueue", "Achievement">>
Blocks  == {BlockOrder[k] : k \in DOMAIN BlockOrder}
Handled == {"Entities", "Templates", "EventQueue"}

\* CH_HEADER_TEMPLATE_SAVE_RESTORE_VERSION, CH_HEADER_EVENTQUEUE_SAVE_RESTORE_VERSION
BlockVersion == 1

\* The names of the datamaps of the collection.
DataMap == save.maps

Zero == [is |-> "num", n |-> 0, sym |-> "", st |-> 0, ok |-> "yes", val |-> Nothing]

\* A block nothing is known of; what its handler allocates is the rest of it.
\*   version, count - read from its header
\*   table   - of entities: the entity table
\*   queue   - of events: the queue
\*   items   - the entities, templates or events, none while there is no array
EmptyBlock ==
    [vec_idx |-> 0, header_parsed |-> FALSE, body_parsed |-> FALSE, version |-> 0,
     count |-> 0, table |-> <<>>, queue |-> Nothing, items |-> <<>>]

EmptyFile ==
    [type |-> "invalid", save_header |-> Nothing, headers |-> <<>>,
     adjacent_levels |-> <<>>, light_styles |-> <<>>, patched |-> 0,
     blocks |-> [b \in Blocks |-> EmptyBlock]]

Init ==
    /\ save \in Saves
    /\ br = [cur |-> 0, end |-> Len(save.file)]
    /\ br_cur_base = [cur |-> 0, end |-> 0] /\ st = 0
    /\ locals = [sf |-> 0, k |-> 0, i |-> 0, after_sf |-> br, after_bodies |-> br,
                 base |-> br, headers_size |-> 0, bodies_size |-> 0]
    /\ pc = "header"
    /\ parsed = [game_header |-> Nothing, global_state |-> Nothing, state_files |-> <<>>]
    /\ logged = {} /\ err = "none"
-----------------------------------------------------------------------------
(* Reading *)

\* The k-th cell from where r is; zero if it is not to be read any more.
Ahead(r, k) == IF CouldSkip(r, k) THEN save.file[r.cur + k] ELSE Zero

Num(r, k) == Ahead(r, k).n

IsTag(r, sym) == Ahead(r, 1).is = "tag" /\ Ahead(r, 1).sym = sym

\* Class cell c is what is to be restored.
IsClass(c, sym) == c.is = "class" /\ c.sym = sym /\ c.st = st

Restorable(r, sym) == IsClass(Ahead(r, 1), sym) /\ Ahead(r, 1).ok = "yes"

\* ch_br_restore_class_by_name: what is saved, or Partial, or Nothing if the
\* collection has no datamap for it.
RestoredClass(r, sym, dm) ==
    IF dm \notin DataMap THEN Nothing
    ELSE IF Restorable(r, sym) THEN Ahead(r, 1).val ELSE Partial

Unrestored == {Nothing, Partial}

\* Where a class that is broken leaves a reader: at any place, behind any fence.
Astray(r) ==
    {[cur |-> c, end |-> e] : c \in r.cur..r.end, e \in {r.cur, r.end}} \cup {SetOverflowed(r)}

\* n classes called sym, one after the other: how many of them are restored.
Restorables(r, sym, n) ==
    LET good == {k \in 0..n : \A l \in 1..k : Restorable(Skip(r, l - 1), sym)}
    IN  CHOOSE k \in good : \A l \in good : l <= k

\* What an array of n classes is after the first good ones have been restored.
Restored(r, good, n) == [k \in 1..n |-> IF k <= good THEN Ahead(r, k).val ELSE Partial]

\* Reads the symbol table that comes next, if there is one; if there is none,
\* the last one stays in force.
ReadSymbolTable(r, size) ==
    LET split == SplitSkip(r, size)
        t     == Ahead(split.chunk, 1)
    IN  IF size = 0 THEN [br |-> r, st |-> st, err |-> "none"]
        ELSE [br |-> split.after, st |-> t.n,
              err |-> IF Overflowed(split.after) THEN "overflow"
                      ELSE IF t.is # "symbols" \/ t.ok # "yes" THEN "bad_symbol_table"
                      ELSE "none"]

\* ch_parse_save_bytes returns.
Return(e) == pc' = "parsed" /\ err' = e

Log(b, i, what) == logged' = logged \cup {<<locals.sf, b, i, what>>}

Sf == parsed.state_files[locals.sf]

\* The block called b becomes the given one.
SetBlock(b, block) ==
    parsed' = [parsed EXCEPT !.state_files[locals.sf].blocks[b] = block]
-----------------------------------------------------------------------------
(* ch_parse_save_ctx *)

\* The tag, the sizes and the symbol table.
ParseHeader ==
    /\ pc = "header"
    /\ LET table == ReadSymbolTable(Skip(br, 4), Num(br, 4))
       IN  IF ~IsTag(br, "JSAV") THEN Return("sav_bad_tag") /\ UNCHANGED <<readers, locals>>
           ELSE IF Overflowed(Skip(br, 4))
           THEN Return("overflow") /\ UNCHANGED <<readers, locals>>
           ELSE IF table.err # "none"
           THEN Return(table.err) /\ UNCHANGED <<readers, locals>>
           ELSE /\ br' = table.br /\ st' = table.st
                /\ locals' = [locals EXCEPT !.headers_size = Num(br, 2)]
                /\ pc' = "globals" /\ UNCHANGED <<br_cur_base, err>>
    /\ UNCHANGED <<save, parsed, logged>>

\* The game header and the global state, and the number of state files: from
\* the game header, or else what follows.
ParseGlobals ==
    /\ pc = "globals"
    /\ LET split  == SplitSkipSwap(br, locals.headers_size)
           header == RestoredClass(split.chunk, "GameHeader", "GAME_HEADER")
           global == IF header \in Unrestored THEN Nothing
                     ELSE RestoredClass(Skip(split.chunk, 1), "GLOBAL", "CGlobalState")
           stated == header # 0
           n      == IF stated THEN header ELSE Num(split.after, 1)
           after  == IF stated THEN split.after ELSE Skip(split.after, 1)
           read   == [parsed EXCEPT !.game_header = header, !.global_state = global]
       IN  IF Overflowed(split.after) THEN Return("overflow") /\ UNCHANGED <<br, locals, parsed>>
           ELSE IF global \in Unrestored
           THEN Return("bad_class") /\ parsed' = read /\ br' \in Astray(split.chunk) /\ UNCHANGED locals
           ELSE IF Overflowed(after)
           THEN Return("overflow") /\ parsed' = read /\ br' = after /\ UNCHANGED locals
           ELSE /\ parsed' = [read EXCEPT !.state_files = [k \in 1..n |-> EmptyFile]]
                /\ br' = after
                /\ locals' = [locals EXCEPT !.sf = 1]
                /\ pc' = "state_file" /\ UNCHANGED err
    /\ UNCHANGED <<save, br_cur_base, st, logged>>

\* The next state file: its name, its length, and what its extension says it is
\* (ch_parse_state_file).
ParseStateFile ==
    /\ pc = "state_file"
    /\ LET ext   == Ahead(br, 1).sym
           split == SplitSkipSwap(Skip(br, 2), Num(br, 2))
       IN  IF locals.sf > Len(parsed.state_files)
           THEN Return("none") /\ UNCHANGED <<br, locals, parsed>>
           ELSE IF Overflowed(Skip(br, 2)) \/ Overflowed(split.after)
           THEN Return("overflow") /\ UNCHANGED <<br, locals, parsed>>
           ELSE IF ext \notin {".hl1", ".hl2", ".hl3"}
           THEN Return("bad_state_file_name") /\ UNCHANGED <<br, locals, parsed>>
           ELSE /\ br' = split.chunk
                /\ locals' = [locals EXCEPT !.after_sf = split.after]
                /\ parsed' = [parsed EXCEPT !.state_files[locals.sf].type = ext]
                /\ pc' = ext /\ UNCHANGED err
    /\ UNCHANGED <<save, br_cur_base, st, logged>>

\* The state file is done; the next one begins where it ends.
NextStateFile ==
    /\ br' = locals.after_sf
    /\ locals' = [locals EXCEPT !.sf = @ + 1]
    /\ pc' = "state_file" /\ UNCHANGED err

\* ch_parse_hl2, the sections of which are read and not kept.  (n is
\* CH_SECTION_MAGIC_NUMBER if the second number is a version.)
Magic == 99
SectionVersion == 2
ParseHl2 ==
    /\ pc = ".hl2"
    /\ IF ~IsTag(br, "VALV") THEN Return("hl2_bad_tag") /\ UNCHANGED <<br, locals>>
       ELSE IF Num(br, 2) = Magic /\ Num(br, 3) # SectionVersion
       THEN Return("hl2_bad_section_header") /\ UNCHANGED <<br, locals>>
       ELSE IF Num(br, 2) = Magic /\ Overflowed(Skip(br, 11))
       THEN Return("overflow") /\ UNCHANGED <<br, locals>>
       ELSE NextStateFile
    /\ UNCHANGED <<save, br_cur_base, st, parsed, logged>>

\* ch_parse_hl3: the number of patched entities, and the patches.
ParseHl3 ==
    /\ pc = ".hl3"
    /\ IF ~CouldSkip(Skip(br, 1), Num(br, 1))
       THEN Return("overflow") /\ UNCHANGED <<br, locals>>
       ELSE NextStateFile
    /\ parsed' = [parsed EXCEPT !.state_files[locals.sf].patched = Num(br, 1)]
    /\ UNCHANGED <<save, br_cur_base, st, logged>>
-----------------------------------------------------------------------------
(* ch_parse_hl1 *)

\* The tag, the sections and the symbol table; the base of the block headers; the
\* sizes of headers and bodies; the vector that says where the blocks are.
ParseHl1 ==
    /\ pc = ".hl1"
    /\ LET table == ReadSymbolTable(Skip(br, 5), Num(br, 2))
           sizes == Skip(table.br, 2)
           vec   == Ahead(sizes, 1)
       IN  IF ~IsTag(br, "VALV") THEN Return("hl1_bad_tag") /\ UNCHANGED <<readers, locals, parsed>>
           ELSE IF Overflowed(Skip(br, 5))
           THEN Return("overflow") /\ UNCHANGED <<readers, locals, parsed>>
           ELSE IF table.err # "none"
           THEN Return(table.err) /\ UNCHANGED <<readers, locals, parsed>>
           ELSE IF Overflowed(sizes)
           THEN Return("overflow") /\ UNCHANGED <<readers, locals, parsed>>
           ELSE /\ st' = table.st /\ br_cur_base' = table.br
                /\ IF vec.is = "class" /\ vec.sym = "headers" /\ vec.st = table.st /\ vec.ok = "yes"
                   THEN /\ br' = Skip(sizes, 1)
                        /\ locals' = [locals EXCEPT !.k = 1, !.headers_size = Num(table.br, 1),
                                                    !.bodies_size = Num(table.br, 2)]
                        /\ parsed' = [parsed EXCEPT !.state_files[locals.sf].headers = vec.val]
                        /\ pc' = "block_header" /\ UNCHANGED err
                   ELSE br' \in Astray(sizes) /\ Return("bad_class") /\ UNCHANGED <<locals, parsed>>
    /\ UNCHANGED <<save, logged>>

\* ch_parse_block_*_header with the reader r: what becomes of the block, and
\* whether it succeeds.
BlockHeader(b, r, block) ==
    LET n    == Num(r, 1)
        good == Restorables(Skip(r, 1), "ETABLE", n)
    IN  IF Overflowed(Skip(r, 1)) THEN [ok |-> FALSE, block |-> block]
        ELSE IF b # "Entities" THEN [ok |-> TRUE, block |-> [block EXCEPT !.version = n]]
        ELSE IF "entitytable_t" \notin DataMap
        THEN [ok |-> FALSE, block |-> [block EXCEPT !.count = n]]
        ELSE [ok |-> good = n,
              block |-> [block EXCEPT !.count = n, !.table = Restored(Skip(r, 1), good, n)]]

HeaderKnown(b) == Sf.blocks[b].header_parsed

\* One round of the loop of ch_restore_block_headers.
RestoreBlockHeader ==
    /\ pc = "block_header" /\ locals.k <= Len(Sf.headers)
    /\ LET h      == Sf.headers[locals.k]
           r      == JmpRel(br_cur_base, h.loc)
           block  == [Sf.blocks[h.name] EXCEPT !.vec_idx = locals.k]
           header == BlockHeader(h.name, r, block)
       IN  IF h.name \notin Blocks
           THEN Log(h.name, 0, "no registered handlers") /\ UNCHANGED <<br, parsed>>
           ELSE IF h.loc = -1 THEN UNCHANGED <<br, parsed, logged>>
           ELSE IF HeaderKnown(h.name)
           THEN Log(h.name, 0, "more than one header section") /\ UNCHANGED <<br, parsed>>
           ELSE IF h.name \notin Handled
           THEN /\ SetBlock(h.name, block) /\ UNCHANGED br
                /\ Log(h.name, 0, "no handler for the header")
           ELSE IF Overflowed(r)
           THEN /\ SetBlock(h.name, block) /\ br' = r
                /\ Log(h.name, 0, "bogus header location")
           ELSE IF header.ok
           THEN SetBlock(h.name, [header.block EXCEPT !.header_parsed = TRUE])
                /\ br' = r /\ UNCHANGED logged
           ELSE SetBlock(h.name, header.block) /\ Log(h.name, 0, "header") /\ br' \in Astray(r)
    /\ locals' = [locals EXCEPT !.k = @ + 1]
    /\ UNCHANGED <<save, br_cur_base, st, pc, err>>

\* Mutant: the base stays where it was for the headers.
Rebase_Not(r) == UNCHANGED br_cur_base

\* Entities are restored relative to this.
Rebase(r) == br_cur_base' = r

\* The end of ch_restore_block_headers, and ch_restore_save_tables.
RestoreSaveTables ==
    /\ pc = "block_header" /\ locals.k > Len(Sf.headers)
    /\ LET base   == JmpRel(br_cur_base, locals.headers_size)
           header == RestoredClass(base, "Save Header", "SAVE_HEADER")
           levels == Restorables(Skip(base, 1), "ADJACENCY", header.connections)
           styled == Skip(base, 1 + header.connections)
           styles == Restorables(styled, "LIGHTSTYLE", header.styles)
       IN  IF Overflowed(base)
           THEN Return("overflow") /\ br' = base /\ UNCHANGED <<br_cur_base, parsed>>
           ELSE /\ Rebase(base)
                /\ IF header \in Unrestored
                   THEN /\ Return("bad_class") /\ br' \in Astray(base)
                        /\ parsed' = [parsed EXCEPT !.state_files[locals.sf].save_header = header]
                   ELSE /\ parsed' = [parsed EXCEPT !.state_files[locals.sf] =
                               [@ EXCEPT !.save_header = header,
                                         !.adjacent_levels =
                                             Restored(Skip(base, 1), levels, header.connections),
                                         !.light_styles =
                                             Restored(styled, IF levels = header.connections
                                                              THEN styles ELSE 0, header.styles)]]
                        /\ IF levels = header.connections /\ styles = header.styles
                           THEN br' = Skip(styled, styles) /\ pc' = "bodies" /\ UNCHANGED err
                           ELSE br' \in Astray(base) /\ Return("bad_class")
    /\ UNCHANGED <<save, st, locals, logged>>

\* The beginning of ch_restore_block_bodies.
RestoreBlockBodies ==
    /\ pc = "bodies"
    /\ LET split == SplitSkip(br, locals.bodies_size)
       IN  /\ locals' = [locals EXCEPT !.k = 1, !.base = split.chunk, !.after_bodies = split.after]
           /\ br' = split.after
    /\ pc' = "block_body"
    /\ UNCHANGED <<save, br_cur_base, st, parsed, logged, err>>

\* The bodies that are restored one class after the other: n of them called sym,
\* if the collection knows dm.
Array(r, dm, sym, n) ==
    IF dm \notin DataMap THEN [ok |-> FALSE, items |-> <<>>]
    ELSE [ok |-> Restorables(r, sym, n) = n,
          items |-> Restored(r, Restorables(r, sym, n), n)]

\* ch_parse_block_templates_body.  That there is no number is not noticed.  (A
\* template is one cell, its two strings are part of it.)
TemplatesBody(r, block) ==
    LET dm    == "TemplateEntityData_t"
        array == Array(Skip(r, 2), dm, dm, Num(r, 2))
        tried == 1 + Restorables(Skip(r, 2), dm, Num(r, 2))
    IN  IF block.version # BlockVersion THEN [ok |-> FALSE, block |-> block]
        ELSE [ok |-> array.ok,
              block |-> [block EXCEPT !.items =
                            [k \in DOMAIN array.items |->
                                IF k <= tried THEN array.items[k] ELSE Nothing]]]

\* ch_parse_block_event_queue_body
EventQueueBody(r, block) ==
    LET queue == RestoredClass(r, "EventQueue", "CEventQueue")
        array == Array(Skip(r, 1), "EventQueuePrioritizedEvent_t", "PEvent", queue)
    IN  IF block.version # BlockVersion THEN [ok |-> FALSE, block |-> block]
        ELSE IF queue \in Unrestored
        THEN [ok |-> FALSE, block |-> [block EXCEPT !.queue = queue]]
        ELSE [ok |-> array.ok, block |-> [block EXCEPT !.queue = queue, !.items = array.items]]

\* Where the body is that the headers say is at loc.
BodyReader(loc) == JmpRel(locals.base, loc)

\* One round of the loop of ch_restore_block_bodies; entities take several.  A
\* block has a vec_idx if its header was parsed, and a handler.
RestoreBlockBody ==
    /\ pc = "block_body" /\ locals.k <= Len(BlockOrder)
    /\ LET b     == BlockOrder[locals.k]
           block == Sf.blocks[b]
           r     == BodyReader(Sf.headers[block.vec_idx].body)
           body  == IF b = "Templates" THEN TemplatesBody(r, block) ELSE EventQueueBody(r, block)
           next  == locals' = [locals EXCEPT !.k = @ + 1] /\ UNCHANGED pc
       IN  IF ~block.header_parsed \/ Sf.headers[block.vec_idx].body = -1
           THEN next /\ UNCHANGED <<br, parsed, logged>>
           ELSE IF Overflowed(r)
           THEN next /\ br' = r /\ Log(b, 0, "bogus body location") /\ UNCHANGED parsed
           ELSE IF b = "Entities"
           THEN /\ SetBlock(b, [block EXCEPT !.items = [i \in 1..block.count |-> Nothing]])
                /\ locals' = [locals EXCEPT !.i = 1]
                /\ pc' = "entity" /\ br' = r /\ UNCHANGED logged
           ELSE IF body.ok
           THEN next /\ SetBlock(b, [body.block EXCEPT !.body_parsed = TRUE])
                /\ br' = r /\ UNCHANGED logged
           ELSE next /\ SetBlock(b, body.block) /\ Log(b, 0, "body") /\ br' \in Astray(r)
    /\ UNCHANGED <<save, br_cur_base, st, err>>

\* ch_restore_entity: the entity, or what is there of it if it is broken.
Entity(r, classname) ==
    LET c == Ahead(r, 1)
    IN  IF classname \notin DataMap THEN Nothing
        ELSE IF IsClass(c, classname) THEN (IF c.ok = "yes" THEN c.val ELSE c.ok)
        ELSE IF classname \in Npc THEN Headless ELSE Partial

\* Mutant: an entity that cannot be restored ends the block.
AfterEntity_Stops(b, broken) ==
    IF broken THEN locals' = [locals EXCEPT !.k = @ + 1] /\ pc' = "block_body"
    ELSE locals' = [locals EXCEPT !.i = @ + 1] /\ UNCHANGED pc

\* Whatever is wrong with an entity the next one is restored.
AfterEntity(b, broken) == locals' = [locals EXCEPT !.i = @ + 1] /\ UNCHANGED pc

\* One round of the loop of ch_parse_block_entities_body.  (That the collection has
\* no datamap for the entity is logged where it is looked up.)
RestoreEntity ==
    /\ pc = "entity" /\ locals.i <= Sf.blocks["Entities"].count
    /\ LET block  == Sf.blocks["Entities"]
           info   == block.table[locals.i]
           r      == JmpRel(br_cur_base, info.location)
           entity == Entity(r, info.classname)
           failed == ~Restorable(r, info.classname) \/ info.classname \notin DataMap
       IN  IF info.classname = Nothing \/ info.size = 0
           THEN AfterEntity("Entities", FALSE) /\ UNCHANGED <<br, parsed, logged>>
           ELSE IF Overflowed(r)
           THEN /\ AfterEntity("Entities", TRUE) /\ br' = r /\ UNCHANGED parsed
                /\ Log("Entities", locals.i, "bogus restore location")
           ELSE /\ AfterEntity("Entities", failed)
                /\ SetBlock("Entities", [block EXCEPT !.items[locals.i] = entity])
                /\ IF failed
                   THEN br' \in Astray(r) /\ Log("Entities", locals.i, "entity")
                   ELSE br' = Skip(r, 1) /\ UNCHANGED logged
    /\ UNCHANGED <<save, br_cur_base, st, err>>

\* The entities are done.
EndEntities ==
    /\ pc = "entity" /\ locals.i > Sf.blocks["Entities"].count
    /\ SetBlock("Entities", [Sf.blocks["Entities"] EXCEPT !.body_parsed = TRUE])
    /\ locals' = [locals EXCEPT !.k = @ + 1]
    /\ pc' = "block_body"
    /\ UNCHANGED <<save, readers, logged, err>>

\* The bodies are done, and the state file.
EndHl1 ==
    /\ pc = "block_body" /\ locals.k > Len(BlockOrder)
    /\ IF Overflowed(locals.after_bodies)
       THEN Return("overflow") /\ UNCHANGED <<br, locals>>
       ELSE NextStateFile
    /\ UNCHANGED <<save, br_cur_base, st, parsed, logged>>

\* An allocation fails, one for a message included: it ends the parse.  What was
\* allocated before it in the same call is not told apart from what was not.
OutOfMemory ==
    /\ \/ pc = "header" /\ IsTag(br, "JSAV")
       \/ pc \in {"globals", ".hl1", ".hl3", "block_header", "entity"}
       \/ pc = "state_file" /\ locals.sf <= Len(parsed.state_files)
       \/ /\ pc = "block_body" /\ locals.k <= Len(BlockOrder)
          /\ Sf.blocks[BlockOrder[locals.k]].header_parsed
    /\ Return("oom")
    /\ UNCHANGED <<save, readers, locals, parsed, logged>>
-----------------------------------------------------------------------------
ParseNext ==
    \/ ParseHeader \/ ParseGlobals \/ ParseStateFile \/ ParseHl2 \/ ParseHl3 \/ ParseHl1
    \/ RestoreBlockHeader \/ RestoreSaveTables \/ RestoreBlockBodies \/ RestoreBlockBody
    \/ RestoreEntity \/ EndEntities \/ EndHl1 \/ OutOfMemory
=============================================================================
