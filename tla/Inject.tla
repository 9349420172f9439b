------------------------------- MODULE Inject -------------------------------
(***************************************************************************)
(* The exe's side of a session (ch_inject.c): ch_do_inject_and_recv_maps   *)
(* and the functions it runs one after the other while each succeeds, and  *)
(* the memory in the game that LoadLibrary reads the payload's path from.  *)
(* The receive loop itself is in Session.                                  *)
(***************************************************************************)
EXTENDS NamedPipe, FindGame

CONSTANT FiniteTimeout      \* CH_PIPE_TIMEOUT_MS is finite, not INFINITE

ASSUME TimeoutAssumption == FiniteTimeout \in BOOLEAN

VARIABLES
    stage,          \* what ch_do_inject_and_recv_maps does next
    ok,             \* every function so far has succeeded
    wait_event,     \* ctx->wait_event is an open handle
    alloc,          \* ctx->remote_thread_alloc is not NULL
    tmp_alloc,      \* tmp_alloc is not NULL
    memory,         \* that allocation in the game: "none", "held", "freed"
    loader          \* the LoadLibrary thread started in the game

own_vars == <<stage, ok, wait_event, alloc, tmp_alloc, memory>>
ivars == <<fvars, own_vars>>

Stages == {"create_pipe", "find_game", "virtual_alloc", "write_path",
           "start_thread", "hide_alloc", "create_event", "connect", "await",
           "restore_alloc", "msg_ctx", "read", "free_alloc", "close_pipe",
           "done", "crashed"}

IInit ==
    /\ stage = "create_pipe"
    /\ ok = TRUE
    /\ wait_event = FALSE
    /\ alloc = FALSE /\ tmp_alloc = FALSE
    /\ memory = "none"
    /\ loader = "none"
    /\ pipe = NoPipe
    /\ FInit

\* CH_RUN_IF_OK: a failed function skips the ones that follow it.
Fails(next) ==
    /\ ok' = FALSE
    /\ stage' = next
    /\ UNCHANGED <<fvars, wait_event, alloc, tmp_alloc, memory, loader, pipe>>

CreatePipe ==
    /\ stage = "create_pipe"
    /\ \/ /\ pipe' = Created
          /\ stage' = "find_game"
          /\ UNCHANGED <<fvars, ok, wait_event, alloc, tmp_alloc, memory, loader>>
       \/ Fails("hide_alloc")

\* One step of ch_find_game.
Find(step) == stage = "find_game" /\ step /\ UNCHANGED <<own_vars, loader, pipe>>

\* It returns, and its local variables are gone; the handles they held are not.
GameFound ==
    /\ stage = "find_game" /\ at \in {"true", "false"}
    /\ ok' = (at = "true")
    /\ stage' = IF at = "true" THEN "virtual_alloc" ELSE "hide_alloc"
    /\ n_procs' = 0 /\ num_found_games' = 0 /\ select' = 0 /\ ret' = 1
    /\ UNCHANGED <<at, proc_handles, game, wait_event, alloc, tmp_alloc, memory, loader, pipe>>
-----------------------------------------------------------------------------
\* ch_inject, one call into the game's process after another.
VirtualAlloc ==
    /\ stage = "virtual_alloc"
    /\ \/ /\ HandleIs(game, "open")
          /\ alloc' = TRUE /\ memory' = "held"
          /\ stage' = "write_path"
          /\ UNCHANGED <<fvars, ok, wait_event, tmp_alloc, loader, pipe>>
       \/ Fails("hide_alloc")

WritePath ==
    /\ stage = "write_path"
    /\ \/ /\ stage' = "start_thread"
          /\ UNCHANGED <<fvars, ok, wait_event, alloc, tmp_alloc, memory, loader, pipe>>
       \/ Fails("hide_alloc")

StartThread ==
    /\ stage = "start_thread"
    /\ \/ /\ loader = "none"     \* the game is still there
          /\ loader' = "started"
          /\ stage' = "hide_alloc"
          /\ UNCHANGED <<fvars, ok, wait_event, alloc, tmp_alloc, memory, pipe>>
       \/ Fails("hide_alloc")

HideAlloc ==
    /\ stage = "hide_alloc"
    /\ tmp_alloc' = alloc
    /\ alloc' = FALSE
    /\ stage' = IF ok THEN "create_event" ELSE "restore_alloc"
    /\ UNCHANGED <<fvars, ok, wait_event, memory, loader, pipe>>
-----------------------------------------------------------------------------
\* ch_await_connect
CreateEvent ==
    /\ stage = "create_event"
    /\ \/ /\ wait_event' = TRUE
          /\ stage' = "connect"
          /\ UNCHANGED <<fvars, ok, alloc, tmp_alloc, memory, loader, pipe>>
       \/ Fails("restore_alloc")

\* ConnectNamedPipe: the payload may have connected already (a success), or
\* have connected and left (an error); otherwise the connect is pending.
ConnectPipe ==
    /\ stage = "connect"
    /\ \/ /\ pipe.client # "closed"
          /\ stage' = IF pipe.client = "open" THEN "restore_alloc" ELSE "await"
          /\ UNCHANGED <<fvars, ok, wait_event, alloc, tmp_alloc, memory, loader, pipe>>
       \/ Fails("restore_alloc")

\* Mutant: the wait has no timeout whatever CH_PIPE_TIMEOUT_MS is.
AwaitConnect_NoTimeout ==
    /\ stage = "await"
    /\ pipe.client # "none"
    /\ stage' = "restore_alloc"
    /\ UNCHANGED <<fvars, ok, wait_event, alloc, tmp_alloc, memory, loader, pipe>>

\* WaitForSingleObject: the event is set once the payload has connected, even
\* if it has left since.
AwaitConnect ==
    /\ stage = "await"
    /\ \/ /\ pipe.client # "none"
          /\ stage' = "restore_alloc"
          /\ UNCHANGED <<fvars, ok, wait_event, alloc, tmp_alloc, memory, loader, pipe>>
       \/ pipe.client = "none" /\ FiniteTimeout /\ Fails("restore_alloc")

\* WAIT_FAILED, or GetOverlappedResult fails.
AwaitFails == stage = "await" /\ Fails("restore_alloc")

\* CH_RUN_IF_OK(TRUE; ctx->remote_thread_alloc = tmp_alloc): the macro guards
\* only the first of the two statements, so the assignment always happens.
RestoreAlloc ==
    /\ stage = "restore_alloc"
    /\ alloc' = tmp_alloc
    /\ stage' = IF ok THEN "msg_ctx" ELSE "free_alloc"
    /\ UNCHANGED <<fvars, ok, wait_event, tmp_alloc, memory, loader, pipe>>
-----------------------------------------------------------------------------
CloseGame ==
    IF HandleIs(game, "open") THEN [proc_handles EXCEPT ![game] = "closed"] ELSE proc_handles

\* Mutant: the game's handle is closed only when there is memory to free.
FreeAlloc_WithMemory ==
    /\ stage = "free_alloc"
    /\ memory' = IF HandleIs(game, "open") /\ alloc THEN "freed" ELSE memory
    /\ proc_handles' = IF alloc THEN CloseGame ELSE proc_handles
    /\ stage' = "close_pipe"
    /\ UNCHANGED <<at, n_procs, num_found_games, select, ret, game, ok, wait_event, alloc, tmp_alloc, loader, pipe>>

\* The cleanup: the game's memory and handle, then the pipe and the event.
FreeAlloc ==
    /\ stage = "free_alloc"
    /\ memory' = IF HandleIs(game, "open") /\ alloc THEN "freed" ELSE memory
    /\ proc_handles' = CloseGame
    /\ stage' = "close_pipe"
    /\ UNCHANGED <<at, n_procs, num_found_games, select, ret, game, ok, wait_event, alloc, tmp_alloc, loader, pipe>>

ClosePipe ==
    /\ stage = "close_pipe"
    /\ pipe' = ServerClosed
    /\ wait_event' = FALSE
    /\ stage' = "done"
    /\ UNCHANGED <<fvars, ok, alloc, tmp_alloc, memory, loader>>

IStep ==
    \/ CreatePipe \/ Find(FStep) \/ GameFound \/ VirtualAlloc \/ WritePath \/ StartThread
    \/ HideAlloc \/ CreateEvent \/ ConnectPipe \/ AwaitConnect \/ RestoreAlloc
    \/ FreeAlloc \/ ClosePipe

Finished == stage \in {"done", "crashed"}
=============================================================================
