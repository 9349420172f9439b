----------------------------- MODULE MCBuffers ------------------------------
(***************************************************************************)
(* The two places where memory is handed out in pieces by hand: the buffer *)
(* that messages are received into, and the arena.  They share nothing;    *)
(* TLC starts one of them.                                                 *)
(***************************************************************************)
EXTENDS RecvLoop, Arena

NoMessages ==
    /\ sent = <<>> /\ writer = "closed"
    /\ arrived = 0 /\ got = 0 /\ handled = <<>>
    /\ res = "none" /\ read_n_bytes = 0 /\ n_loops_without_success = 0
    /\ state = "done"
    /\ used = 0 /\ off = 0 /\ free = 0 /\ shared = FALSE /\ buf_expand_size = InitSize

NoArena ==
    /\ at = "freed" /\ asked = 0 /\ chunks = <<>> /\ ptr = 0 /\ n_free = 0
    /\ chunk_size = 0 /\ blocks = {}

MCInit == (Init /\ NoArena) \/ (AInit /\ NoMessages)

MCNext ==
    \/ Next /\ UNCHANGED arena_vars
    \/ ANext /\ UNCHANGED vars

\* The fairness is that of Arena.
MCSpec == MCInit /\ [][MCNext]_<<vars, arena_vars>> /\ WF_arena_vars(Step)
=============================================================================
