------------------------------- MODULE Payload -------------------------------
(***************************************************************************)
(* The payload: main of dll_main.c and what it calls in ch_send.c,         *)
(* ch_search.c and ch_ent_factory.c, as a client of the pipe.  What the    *)
(* search of the game's memory finds is fixed at the start; each search    *)
(* may also fail, which sends LOG_ERROR and exits.                         *)
(***************************************************************************)
EXTENDS NamedPipe

CONSTANT
    Searches        \* what ch_iterate_datamaps may find in each module, in order

ASSUME PayloadAssumption ==
    /\ Len(ModSeq) > 0
    /\ \A s \in Searches :
        /\ s \in [GameModule -> Seq(DataMap)]
        /\ \A g \in GameModule : \A i \in DOMAIN s[g] : ModOf[s[g][i]] = g

VARIABLES
    pc,             \* where main is
    mod,            \* index in ModSeq of the module being searched
    pos,            \* what comes next in the current search
    found,          \* the valid datamaps of each module's static inits
    dict            \* the entity factory dictionary, as linked names

pvars == <<pc, mod, pos, found, dict>>

\* LoadLibrary has not run DllMain yet.
PInit ==
    /\ pc = "unloaded" /\ mod = 1 /\ pos = 1
    /\ found \in Searches
    /\ dict \in LinkMaps

\* DllMain starts main in a thread of its own.
StartMain ==
    /\ pc = "unloaded"
    /\ pc' = "wait_pipe"
    /\ UNCHANGED <<mod, pos, found, dict>>

Goto(next, m, p) ==
    /\ pc' = next /\ mod' = m /\ pos' = p
    /\ UNCHANGED <<found, dict>>

\* ch_clean_exit is two steps: the pipe is closed, then the library unloads.
CleanExit == Goto("exiting", mod, pos)

\* Mutant: what does not fit is dropped.
Send_Drops(m, next, nmod, npos) ==
    /\ pipe' = IF Len(pipe.queue) < QueueMax THEN Written(m) ELSE pipe
    /\ Goto(next, nmod, npos)

\* Mutant: a failed WriteFile is tried again.
Send_Retries(m, next, nmod, npos) ==
    /\ pipe.server = "open" /\ Len(pipe.queue) < QueueMax
    /\ pipe' = Written(m)
    /\ Goto(next, nmod, npos)

\* ch_send_msgpack: WriteFile blocks while the pipe is full and fails when the
\* exe has closed its end; the payload then exits.
Send(m, next, nmod, npos) ==
    IF pipe.server = "open"
      THEN /\ Len(pipe.queue) < QueueMax
           /\ pipe' = Written(m)
           /\ Goto(next, nmod, npos)
      ELSE CleanExit /\ UNCHANGED pipe

\* ch_send_err_and_exit
SendErrAndExit == Send(LogError, "exiting", mod, pos)
-----------------------------------------------------------------------------
\* ch_connect_pipe: WaitNamedPipe fails at once when there is no pipe, and the
\* pipe can go away before CreateFile.
WaitPipe ==
    /\ pc = "wait_pipe"
    /\ IF pipe.server = "open" THEN Goto("open_pipe", mod, pos) ELSE CleanExit
    /\ UNCHANGED pipe

OpenPipe ==
    /\ pc = "open_pipe"
    /\ IF pipe.server = "open"
         THEN /\ pipe' = Connected
              /\ Goto("hello", mod, pos)
         ELSE CleanExit /\ UNCHANGED pipe

SendHello == pc = "hello" /\ Send(Hello, "module_info", mod, pos)

GetModuleInfo ==
    /\ pc = "module_info"
    /\ \/ Goto("static_inits", 1, 1) /\ UNCHANGED pipe
       \/ SendErrAndExit

\* ch_find_static_inits logs twice for each module: the caller, the table.
FindStaticInits ==
    /\ pc = "static_inits"
    /\ \/ pos = 1 /\ Send(LogInfo, "static_inits", mod, 2)
       \/ pos = 2 /\ IF mod < Len(ModSeq)
                       THEN Send(LogInfo, "static_inits", mod + 1, 1)
                       ELSE Send(LogInfo, "iterate", 1, 1)
       \/ SendErrAndExit

\* ch_iterate_datamaps sends each valid datamap it meets ...
SendDatamap ==
    /\ pc = "iterate"
    /\ pos <= Len(found[ModSeq[mod]])
    /\ Send(DatamapMsg(found[ModSeq[mod]][pos]), "iterate", mod, pos + 1)

\* ... and a module without any is an error.
EndOfModule ==
    /\ pc = "iterate"
    /\ pos > Len(found[ModSeq[mod]])
    /\ IF found[ModSeq[mod]] = <<>>
         THEN SendErrAndExit
         ELSE /\ IF mod < Len(ModSeq)
                   THEN Goto("iterate", mod + 1, 1)
                   ELSE Goto("find_dict", mod, 1)
              /\ UNCHANGED pipe

\* ch_find_ent_factory_dict logs the command's constructor and the dictionary.
FindEntFactoryDict ==
    /\ pc = "find_dict"
    /\ \/ pos = 1 /\ Send(LogInfo, "find_dict", mod, 2)
       \/ pos = 2 /\ Send(LogInfo, "send_dict", mod, 1)
       \/ SendErrAndExit

\* Mutant: a dictionary that cannot be read is left out.
SendEntFactoryKv_Skips ==
    /\ pc = "send_dict"
    /\ \/ dict # {} /\ Send(LinkedNameMsg(dict), "goodbye", mod, pos)
       \/ Goto("goodbye", mod, pos) /\ UNCHANGED pipe

\* ch_send_ent_factory_kv: all of the dictionary or, if a node cannot be read,
\* an entity has no datamap or the count is wrong, nothing.  An empty
\* dictionary has no root node, which is a node that cannot be read.
SendEntFactoryKv ==
    /\ pc = "send_dict"
    /\ \/ dict # {} /\ Send(LinkedNameMsg(dict), "goodbye", mod, pos)
       \/ SendErrAndExit

SendGoodbye == pc = "goodbye" /\ Send(Goodbye, "exiting", mod, pos)

\* ch_clean_exit
Exit ==
    /\ pc = "exiting"
    /\ Goto("exited", mod, pos)
    /\ pipe' = ClientClosed

\* main, one step at a time
PStep ==
    \/ WaitPipe \/ OpenPipe \/ SendHello \/ GetModuleInfo \/ FindStaticInits
    \/ SendDatamap \/ EndOfModule \/ FindEntFactoryDict \/ SendEntFactoryKv
    \/ SendGoodbye \/ Exit

\* No memory to pack the next message in: ch_clean_exit, without a word.
PackFails ==
    /\ pc \notin {"unloaded", "wait_pipe", "open_pipe", "exiting", "exited"}
    /\ CleanExit
    /\ UNCHANGED pipe

PayloadGone == pc \in {"unloaded", "exited"}

\* All that the search finds, with all it refers to.
Everything ==
    VisitedFrom(UNION {{found[g][i] : i \in DOMAIN found[g]} : g \in GameModule})
=============================================================================
