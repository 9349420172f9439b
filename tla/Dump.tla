-------------------------------- MODULE Dump --------------------------------
(***************************************************************************)
(* What main.c does with a save: it is parsed, and then, whether that      *)
(* succeeded or not, what there is of it is dumped as text (dump/).  How   *)
(* things are laid out is left out.                                        *)
(***************************************************************************)
EXTENDS SaveFile, SequencesExt, FiniteSets

VARIABLES
    dpc,        \* where the dump is; "crashed" when something was dereferenced
                \* that is not there
    at,         \* the state file, the block and the element it is at
    shown,      \* what has been written: state file, block, element, value
    complained, \* dump->first_error: what is not or cannot be dumped
    dump_err    \* what ch_dump_sav_to_text returned

dump_vars == <<dpc, at, shown, complained, dump_err>>
vars == <<parse_vars, dump_vars>>

DumpInit ==
    /\ Init
    /\ dpc = "start" /\ at = [sf |-> 1, k |-> 1, i |-> 1]
    /\ shown = <<>> /\ complained = {} /\ dump_err = "none"

Show(facts) == shown' = shown \o facts

Crash == dpc' = "crashed" /\ UNCHANGED <<at, shown, complained>>

\* The tag, the game header and the global state.
DumpSav ==
    /\ dpc = "start" /\ pc = "parsed"
    /\ IF Nothing \in {parsed.game_header, parsed.global_state} THEN Crash
       ELSE /\ dpc' = "state_file"
            /\ Show(<< <<0, "GameHeader", 0, parsed.game_header>>,
                       <<0, "GLOBAL", 0, parsed.global_state>> >>)
            /\ UNCHANGED <<at, complained>>
    /\ UNCHANGED dump_err

File == parsed.state_files[at.sf]

\* Elements of an array, one fact each.
Facts(b, array) == [i \in DOMAIN array |-> <<at.sf, b, i, array[i]>>]

\* ch_dump_hl1_text up to the blocks; there is no dump for a .hl2 or .hl3 file.
DumpStateFile ==
    /\ dpc = "state_file" /\ at.sf <= Len(parsed.state_files)
    /\ CASE File.type = ".hl1" ->
              IF File.save_header = Nothing THEN Crash
              ELSE /\ Show(<< <<at.sf, "Save Header", 0, File.save_header>> >>
                             \o Facts("ADJACENCY", File.adjacent_levels)
                             \o Facts("LIGHTSTYLE", File.light_styles))
                   /\ dpc' = "block" /\ at' = [at EXCEPT !.k = 1] /\ UNCHANGED complained
         [] File.type \in {".hl2", ".hl3"} ->
              /\ complained' = complained \cup {<<at.sf, File.type>>}
              /\ at' = [at EXCEPT !.sf = @ + 1] /\ UNCHANGED <<dpc, shown>>
         [] File.type = "invalid" ->
              at' = [at EXCEPT !.sf = @ + 1] /\ UNCHANGED <<dpc, shown, complained>>
    /\ UNCHANGED dump_err

IsDumped(block) == block.vec_idx # 0 /\ block.header_parsed

\* The array of entities is not there, or the queue.
Absent(b, block) ==
    \/ b = "Entities" /\ block.count > 0 /\ block.items = <<>>
    \/ b = "EventQueue" /\ block.queue = Nothing

Block == File.blocks[BlockOrder[at.k]]

\* One round of the loop over the blocks, up to the elements.
DumpBlock ==
    /\ dpc = "block" /\ at.k <= Len(BlockOrder)
    /\ LET b     == BlockOrder[at.k]
           funny == b # "Entities" /\ Block.version # BlockVersion
       IN  IF ~IsDumped(Block) \/ funny
           THEN /\ at' = [at EXCEPT !.k = @ + 1]
                /\ complained' = complained \cup (IF IsDumped(Block) THEN {<<at.sf, b>>} ELSE {})
                /\ UNCHANGED <<dpc, shown>>
           ELSE IF Absent(b, Block) THEN Crash
           ELSE /\ dpc' = "item" /\ at' = [at EXCEPT !.i = 1]
                /\ UNCHANGED <<shown, complained>>
    /\ UNCHANGED dump_err

\* Mutant: entities that are not there are not passed over.
Unshowable_Null(b) ==
    CASE b = "Entities" -> {Headless, Outputless, Nothing}
      [] b = "Templates" -> {Nothing, Partial}
      [] OTHER -> {}

\* Elements with something in them that is not there and is dereferenced: the data
\* of an NPC whose header could not be restored, or of an output; a template that
\* was not reached, or its strings.
Unshowable(b) ==
    CASE b = "Entities" -> {Headless, Outputless}
      [] b = "Templates" -> {Nothing, Partial}
      [] OTHER -> {}

\* Mutant: an entity that could not be looked up ends the list.
NextItem_AfterNull(passed_over) ==
    IF passed_over THEN dpc' = "block" /\ at' = [at EXCEPT !.k = @ + 1]
    ELSE at' = [at EXCEPT !.i = @ + 1] /\ UNCHANGED dpc

\* The next element, whether there was anything of the last one or not.
NextItem(passed_over) == at' = [at EXCEPT !.i = @ + 1] /\ UNCHANGED dpc

\* One element; entities that were not restored are passed over.
DumpItem ==
    /\ dpc = "item" /\ at.i \in DOMAIN Block.items
    /\ LET b    == BlockOrder[at.k]
           item == Block.items[at.i]
       IN  IF item \in Unshowable(b) THEN Crash
           ELSE /\ NextItem(item = Nothing)
                /\ Show(IF item = Nothing THEN <<>> ELSE << <<at.sf, b, at.i, item>> >>)
                /\ UNCHANGED complained
    /\ UNCHANGED dump_err

\* The block has no more elements.
EndItems ==
    /\ dpc = "item" /\ at.i \notin DOMAIN Block.items
    /\ dpc' = "block" /\ at' = [at EXCEPT !.k = @ + 1]
    /\ UNCHANGED <<shown, complained, dump_err>>

EndBlocks ==
    /\ dpc = "block" /\ at.k > Len(BlockOrder)
    /\ dpc' = "state_file" /\ at' = [at EXCEPT !.sf = @ + 1]
    /\ UNCHANGED <<shown, complained, dump_err>>

\* The errors of the parse and those of the dump come last.
DumpErrors ==
    /\ dpc = "state_file" /\ at.sf > Len(parsed.state_files)
    /\ Show(SetToSeq({<<"error", e>> : e \in logged \cup complained}))
    /\ dpc' = "done"
    /\ UNCHANGED <<at, complained, dump_err>>

\* Nothing can be allocated, or nothing written, any more.
DumpFails ==
    /\ dpc \in {"start", "state_file", "block", "item"} /\ pc = "parsed"
    /\ dpc' = "done" /\ dump_err' \in {"oom", "file_io"}
    /\ UNCHANGED <<at, shown, complained>>

DumpNext ==
    \/ DumpSav \/ DumpStateFile \/ DumpBlock \/ DumpItem \/ EndItems \/ EndBlocks
    \/ DumpErrors \/ DumpFails

Next ==
    \/ ParseNext /\ UNCHANGED dump_vars
    \/ DumpNext /\ UNCHANGED parse_vars

Spec == DumpInit /\ [][Next]_vars
-----------------------------------------------------------------------------
(* Properties *)

Parsed == pc = "parsed" /\ err # "oom"

\* The element i of block b of state file k.
Holds(k, b, i, val) ==
    /\ k \in DOMAIN parsed.state_files /\ b \in Blocks
    /\ i \in DOMAIN parsed.state_files[k].blocks[b].items
    /\ parsed.state_files[k].blocks[b].items[i] = val

\* What is sound in a save is restored, whatever is wrong with what is beside it:
\* a block among broken blocks, an entity among broken entities, a state file
\* after another one, each with its own symbols and counted from its own base.
\* And the parse fails just when the save is broken outside of its blocks.
SoundIsRestored ==
    Parsed => /\ err = save.fatal
              /\ \A f \in save.facts : Holds(f[1], f[2], f[3], f[4])

\* Nothing is left out without a word: of each block and each entity that could
\* not be restored there is an error.  (That a block of templates ends before its
\* number of templates is not noticed.)
LossIsLogged ==
    Parsed /\ err = "none" =>
        \A l \in save.losses : \E e \in logged : <<e[1], e[2], e[3]>> = l

\* The dump dereferences what is not there only if the parse failed, or said that
\* something is wrong, or there is a block with a header and no body.
CrashOnlyAfterError ==
    dpc = "crashed" =>
        \/ err # "none" \/ logged # {}
        \/ \E k \in DOMAIN parsed.state_files :
              \E h \in DOMAIN parsed.state_files[k].headers :
                 parsed.state_files[k].headers[h].body = -1

\* A dump that is finished has everything that is sound in the save, once, and
\* every error.
SoundIsDumped ==
    dpc = "done" /\ dump_err = "none" /\ Parsed /\ err = "none" =>
        /\ \A f \in save.facts : Cardinality({k \in DOMAIN shown : shown[k] = f}) = 1
        /\ \A e \in logged : <<"error", e>> \in ToSet(shown)
=============================================================================
