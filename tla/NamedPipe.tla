------------------------------ MODULE NamedPipe ------------------------------
(***************************************************************************)
(* The named pipe of a session, as Windows provides it to ch_inject.c and  *)
(* ch_send.c: one instance, in message mode, written by the payload and    *)
(* read by the exe.  What the payload wrote before it closed its end can   *)
(* still be read; what is in the pipe when the exe closes its end is lost. *)
(***************************************************************************)
EXTENDS PayloadComm

CONSTANT QueueMax       \* messages the pipe holds before WriteFile blocks

ASSUME QueueAssumption == QueueMax \in Nat \ {0}

VARIABLE pipe           \* its two ends and the messages in it

Pipe == [server : {"none", "open", "closed"},
         client : {"none", "open", "closed"}, queue : Seq(Message)]

NoPipe == [server |-> "none", client |-> "none", queue |-> <<>>]

Created      == [pipe EXCEPT !.server = "open"]
Connected    == [pipe EXCEPT !.client = "open"]
Written(m)   == [pipe EXCEPT !.queue = Append(@, m)]
Read         == [pipe EXCEPT !.queue = Tail(@)]
ClientClosed == [pipe EXCEPT !.client = IF @ = "open" THEN "closed" ELSE @]
ServerClosed ==
    [pipe EXCEPT !.server = IF @ = "open" THEN "closed" ELSE @, !.queue = <<>>]
=============================================================================
