------------------------------ MODULE Session ------------------------------
(***************************************************************************)
(* A whole session: the exe (Inject, then its receive loop driving         *)
(* Receiver), the payload (Payload) in the game's process, and the named   *)
(* pipe between them.  The game, and with it the payload, can die at any   *)
(* moment; so can the exe.  Choosing the game is FindGame, step by step.   *)
(*                                                                         *)
(* The receive loop is modelled here message by message: a ReadFile that   *)
(* is pending is one that is not enabled yet, and a message that arrives   *)
(* in several parts is read in one step.  RecvLoop models the parts.       *)
(***************************************************************************)
EXTENDS Payload, Inject, Receiver

CONSTANT Faults     \* which of "exe" and "game" may die

ASSUME FaultsAssumption == Faults \subseteq {"exe", "game"}

vars == <<rvars, pvars, ivars, loader, pipe>>

Init == RInit /\ PInit /\ IInit
-----------------------------------------------------------------------------
\* The exe.
Prepare == IStep /\ UNCHANGED <<rvars, pvars>>

\* The user may answer, or never does.
UserAnswers == Find(ReadNumber) /\ UNCHANGED <<rvars, pvars>>

PrepareFails == AwaitFails /\ UNCHANGED <<rvars, pvars>>

Proceed(next) ==
    /\ stage' = next
    /\ UNCHANGED <<fvars, ok, wait_event, alloc, tmp_alloc, memory, loader>>

LoopFails == Fails("free_alloc") /\ UNCHANGED <<rvars, pvars>>

\* ch_msg_ctx_alloc; without a context there is no loop.
AllocMsgCtx ==
    /\ stage = "msg_ctx"
    /\ \/ Proceed("read") /\ UNCHANGED <<pipe, rvars, pvars>>
       \/ LoopFails

\* ReadFile has a message: ch_msg_ctx_process takes it.
ReadMessage ==
    /\ stage = "read" /\ result = "ok"
    /\ pipe.queue # <<>>
    /\ Receive(Head(pipe.queue))
    /\ pipe' = Read
    /\ Proceed("read")
    /\ UNCHANGED pvars

\* The rest of the GOODBYE: ch_write_all_to_file.
WriteCollection ==
    /\ stage = "read"
    /\ WriteFile
    /\ Proceed("read") /\ UNCHANGED <<pipe, pvars>>

\* Mutant: a payload that left is taken for one that said GOODBYE.
ReadBrokenPipe_Silent ==
    /\ stage = "read" /\ result = "ok"
    /\ pipe.queue = <<>> /\ pipe.client = "closed"
    /\ Proceed("free_alloc") /\ UNCHANGED <<pipe, rvars, pvars>>

\* ERROR_BROKEN_PIPE: the payload is gone and everything it wrote was read.
ReadBrokenPipe ==
    /\ stage = "read" /\ result = "ok"
    /\ pipe.queue = <<>> /\ pipe.client = "closed"
    /\ LoopFails

\* Any other error of ReadFile or of the wait for it, and too many reads
\* without a message.
ReadFails == stage = "read" /\ result = "ok" /\ LoopFails

\* ch_msg_ctx_process returned false: the loop is done.
LeaveLoop ==
    /\ stage = "read"
    /\ ~Live
    /\ Proceed("free_alloc") /\ UNCHANGED <<pipe, rvars, pvars>>

Exe ==
    \/ Prepare \/ AllocMsgCtx \/ ReadMessage \/ WriteCollection
    \/ ReadBrokenPipe \/ LeaveLoop
-----------------------------------------------------------------------------
\* The game.
\* LoadLibrary reads the payload's path; DllMain starts main, which cannot run
\* before DllMain has returned.
LoadPayload ==
    /\ loader = "started"
    /\ memory # "freed"
    /\ loader' = "loaded"
    /\ StartMain
    /\ UNCHANGED <<pipe, rvars, ivars>>

\* There is no such dll, or DllMain returns false.
LoadFails ==
    /\ loader = "started"
    /\ loader' = "failed"
    /\ UNCHANGED <<pipe, pvars, rvars, ivars>>

PayloadStep == PStep /\ UNCHANGED <<loader, ivars, rvars>>

PayloadFails == PackFails /\ UNCHANGED <<loader, ivars, rvars>>

\* The game dies, and its end of the pipe is closed.
Die ==
    /\ loader' = "dead"
    /\ pc' = IF pc = "unloaded" THEN pc ELSE "exited"
    /\ pipe' = ClientClosed
    /\ UNCHANGED <<mod, pos, found, dict, ivars, rvars>>

\* LoadLibrary reads memory that the exe has freed.
LoadFaults == loader = "started" /\ memory = "freed" /\ Die

GameDies == "game" \in Faults /\ loader # "dead" /\ Die

\* The exe is killed: its handles are closed, the game's memory is not freed.
ExeDies ==
    /\ "exe" \in Faults
    /\ ~Finished
    /\ stage' = "crashed"
    /\ proc_handles' = [i \in Slot |-> IF proc_handles[i] = "open" THEN "closed" ELSE proc_handles[i]]
    /\ wait_event' = FALSE
    /\ pipe' = ServerClosed
    /\ UNCHANGED <<at, n_procs, num_found_games, select, ret, game, ok, alloc, tmp_alloc, memory, loader, pvars, rvars>>
-----------------------------------------------------------------------------
Next ==
    \/ Exe \/ UserAnswers \/ PrepareFails \/ ReadFails
    \/ LoadPayload \/ LoadFails \/ LoadFaults \/ PayloadStep
    \/ PayloadFails \/ GameDies \/ ExeDies

Spec == Init /\ [][Next]_vars

\* The exe, the game's loader and the payload are threads that are scheduled.
\* No step that fails is ever due, and no answer of the user.
FairSpec ==
    /\ Spec
    /\ WF_vars(Exe)
    /\ WF_vars(LoadPayload \/ LoadFails \/ LoadFaults)
    /\ WF_vars(PayloadStep)
-----------------------------------------------------------------------------
(* Properties *)

\* The datamaps the payload has gone through so far.
Iterated ==
    IF pc \in {"unloaded", "wait_pipe", "open_pipe", "hello", "module_info",
               "static_inits"}
      THEN {}
      ELSE VisitedFrom(UNION {{found[ModSeq[i]][j] :
                j \in {p \in DOMAIN found[ModSeq[i]] : i < mod \/ pc # "iterate" \/ p < pos}} :
                    i \in 1..mod})

InPipe(type) ==
    UNION {pipe.queue[i].data : i \in {j \in DOMAIN pipe.queue : pipe.queue[j].type = type}}

\* While the session is on, what the exe has stored and what is still in the
\* pipe is what the payload has gone through, no datamap more or less, so
\* nothing is lost between the search in the game and the collection.
NothingLost ==
    (stage = "read" /\ Live /\ ~PayloadGone /\ pc # "exiting") =>
        Stored \cup InPipe("DATAMAP") = Iterated

\* A session that ends without a collection has said so: a function failed, a
\* message was refused or could not be stored, or the payload's LOG_ERROR came.
Reported ==
    ~ok \/ result \in {"error", "bad_format", "oom"} \/ unpacked[HeadZone] = LogError

NoSilentFailure == stage = "done" => file.state = "new" \/ Reported

\* A finished exe has left no handle open, whatever failed on the way: not that of
\* any process it took for the game, nor of the pipe or the event.
HandlesClosed ==
    stage = "done" =>
        (\A i \in Slot : proc_handles[i] # "open") /\ ~wait_event /\ pipe.server # "open"

\* The memory LoadLibrary may be reading is never freed ("avoid freeing that
\* memory", ch_inject.c:414-420).
NoFreeWhileLoading == ~(loader = "started" /\ memory = "freed")

\* The session implements Transfer.
Promise == INSTANCE Transfer WITH
    collection <- NewFile(Everything, dict)

FileIsReplacedWhole == Promise!TSpec

\* The exe ends (ch_inject.c:236, "with a timeout"), unless the user has to choose
\* a game: what is a number is never accepted, and without another answer the exe
\* asks again and again.
ExeTerminates == <>Finished \/ []<>(at = "ask")

\* Once the exe has ended, the payload leaves the game or is never loaded
\* ("notice that its connection got dropped and exit cleanly",
\* ch_inject.c:226-231).
PayloadLeaves == Finished ~> (PayloadGone /\ loader # "started")
=============================================================================
