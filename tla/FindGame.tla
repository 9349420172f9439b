------------------------------ MODULE FindGame ------------------------------
(***************************************************************************)
(* ch_find_game: the exe looks for processes that have the modules of a    *)
(* Source game, opens them, and lets the user choose when there are        *)
(* several.  Processes are numbered from 0, as in proc_handles.            *)
(***************************************************************************)
EXTENDS Integers, FiniteSets

CONSTANTS
    MAX_SELECT_GAMES,
    MaxProcs,       \* bound: candidate processes on the machine
    Numbers         \* the numbers the user may type, and an uninitialised int

ASSUME FindGameAssumption ==
    /\ MAX_SELECT_GAMES \in Nat \ {0} /\ MaxProcs \in Nat
    /\ Numbers \subseteq Int

VARIABLES
    at,             \* where the function is, "true" or "false" once it returned
    n_procs,        \* candidate processes on the machine
    num_found_games,
    proc_handles,   \* "null", "open" or "closed"
    select,         \* what the user chose: not initialised at first
    ret,            \* the result of the last scanf: 0 and -1 (EOF) stay for ever
    game            \* ctx->game: -1, or the candidate whose handle it is

fvars == <<at, n_procs, num_found_games, proc_handles, select, ret, game>>

Slot == 0..(MAX_SELECT_GAMES - 1)
Candidates == 0..(num_found_games - 1)

\* A handle; the array has no element MAX_SELECT_GAMES, which is no handle either.
HandleIs(i, is) == i \in Slot /\ proc_handles[i] = is

FInit ==
    /\ at = "enumerate"
    /\ n_procs \in 0..MaxProcs
    /\ num_found_games = 0
    /\ proc_handles = [i \in Slot |-> "null"]
    /\ select \in Numbers
    /\ ret = 1
    /\ game = -1

\* The function logs an error and returns FALSE.
ReturnFalse == at' = "false" /\ UNCHANGED game

SnapshotFails ==
    /\ at = "enumerate"
    /\ ReturnFalse
    /\ UNCHANGED <<n_procs, num_found_games, proc_handles, select, ret>>

\* The walk over the processes stops when num_found_games reaches the maximum.
Enumerate ==
    /\ at = "enumerate"
    /\ num_found_games' = IF n_procs >= MAX_SELECT_GAMES THEN MAX_SELECT_GAMES ELSE n_procs
    /\ IF n_procs >= MAX_SELECT_GAMES \/ n_procs = 0
       THEN ReturnFalse
       ELSE at' = "open" /\ UNCHANGED game
    /\ UNCHANGED <<n_procs, proc_handles, select, ret>>

AllOpen == \A i \in Candidates : proc_handles[i] = "open"

\* OpenProcess and GetModuleFileNameEx for the next candidate.
OpenNext ==
    /\ at = "open"
    /\ \E i \in Candidates :
        /\ proc_handles[i] = "null"
        /\ \A j \in Candidates : j < i => proc_handles[j] = "open"
        /\ \/ /\ proc_handles' = [proc_handles EXCEPT ![i] = "open"]
              /\ at' \in {"open", "close_all"}      \* the file name may not be read
           \/ UNCHANGED proc_handles /\ at' = "close_all"
    /\ UNCHANGED <<n_procs, num_found_games, select, ret, game>>

CloseAll ==
    /\ at = "close_all"
    /\ proc_handles' = [i \in Slot |->
            IF i \in Candidates /\ proc_handles[i] = "open" THEN "closed" ELSE proc_handles[i]]
    /\ ReturnFalse
    /\ UNCHANGED <<n_procs, num_found_games, select, ret>>

OnlyOne ==
    /\ at = "open" /\ AllOpen /\ num_found_games = 1
    /\ game' = 0
    /\ at' = "true"
    /\ UNCHANGED <<n_procs, num_found_games, proc_handles, select, ret>>

PrintMenu ==
    /\ at = "open" /\ AllOpen /\ num_found_games > 1
    /\ at' = "ask"
    /\ UNCHANGED <<n_procs, num_found_games, proc_handles, select, ret, game>>

\* scanf("%d"): a number, or text that is no number, or the end of the input.
\* What is no number is not consumed.
ReadNumber ==
    /\ at = "ask"
    /\ \/ ret = 1 /\ select' \in Numbers /\ UNCHANGED ret
       \/ ret' \in (IF ret = 1 THEN {0, -1} ELSE {ret}) /\ UNCHANGED select
    /\ at' = "check"
    /\ UNCHANGED <<n_procs, num_found_games, proc_handles, game>>

\* if (ret != 1 && select > 0 && select <= MAX_SELECT_GAMES) break;
Chosen == ret # 1 /\ select > 0 /\ select <= MAX_SELECT_GAMES

CheckNumber ==
    /\ at = "check"
    /\ at' = IF Chosen THEN "close_others" ELSE "ask"
    /\ UNCHANGED <<n_procs, num_found_games, proc_handles, select, ret, game>>

CloseOthers ==
    /\ at = "close_others"
    /\ proc_handles' = [i \in Slot |->
            IF i \in Candidates /\ i # select THEN "closed" ELSE proc_handles[i]]
    /\ game' = select
    /\ at' = "true"
    /\ UNCHANGED <<n_procs, num_found_games, select, ret>>

FStep ==
    \/ SnapshotFails \/ Enumerate \/ OpenNext \/ CloseAll \/ OnlyOne
    \/ PrintMenu \/ CheckNumber \/ CloseOthers
=============================================================================
