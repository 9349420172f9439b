------------------------------ MODULE MCReports ------------------------------
(***************************************************************************)
(* The two programs that write for a reader: the script that compares the  *)
(* datamaps of two games, and the dump of what was restored.  They share   *)
(* nothing; TLC starts one of them.                                        *)
(***************************************************************************)
EXTENDS Compare, MCTextDump

CONSTANT Name

Games == INSTANCE MCCompare

MCPairs == Games!MCPairs

NoDump ==
    /\ flag = FALSE /\ things = <<>> /\ jobs = <<>>
    /\ text = <<>> /\ pending_nl = FALSE /\ indent_lvl = 0 /\ err = "none"

NoScript ==
    /\ dm_lookup = << <<>>, <<>> >> /\ todo = <<>> /\ td_lists = <<>>
    /\ i = 1 /\ j = 1 /\ moved = {} /\ out = <<>>

MCInit == (Init /\ NoDump) \/ (DumpInit /\ NoScript)

MCNext ==
    \/ Next /\ UNCHANGED dump_vars
    \/ DumpNext /\ UNCHANGED vars

MCSpec == MCInit /\ [][MCNext]_<<vars, dump_vars>>
=============================================================================
