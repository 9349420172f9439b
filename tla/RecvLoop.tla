------------------------------ MODULE RecvLoop ------------------------------
(***************************************************************************)
(* The receive loop of the exe (ch_recv_loop) down to single reads, and    *)
(* the buffer of the msgpack unpacker it reads into.  A message larger     *)
(* than what is free in the buffer comes in several parts; between two     *)
(* parts the buffer is expanded, and its accounting (used, free, off) must *)
(* stay that of the bytes really read.                                     *)
(*                                                                         *)
(* used and off are counted from the start of the buffer's data: the       *)
(* COUNTER_SIZE bytes before it are left out of both and of its size.      *)
(***************************************************************************)
EXTENDS Naturals, Sequences, SequencesExt

CONSTANTS
    InitSize,       \* CH_PIPE_INIT_BUF_SIZE
    MaxFails,       \* the loop gives up after this many fails in a row, plus one
    Sizes,          \* sizes of the messages the payload writes
    MaxMsgs         \* bound: messages the payload writes in a run

ASSUME RecvLoopAssumption ==
    /\ InitSize \in Nat \ {0} /\ MaxFails \in Nat \ {0} /\ MaxMsgs \in Nat
    /\ Sizes \subseteq Nat \ {0}

VARIABLES
    sent,           \* sizes of the messages written so far, in order
    writer,         \* the payload's end of the pipe: "open" or "closed"
    arrived,        \* how many messages have been read completely
    got,            \* bytes read of the next one
    handled,        \* sizes of the messages given to ch_process_message_pack_msg
    res,            \* of the last read: "none" if the next one is to be started
    read_n_bytes,
    n_loops_without_success,
    state,          \* of the loop
    used, free, off,    \* the unpacker's buffer: filled, free, first unparsed byte
    shared,         \* a kept zone refers to bytes of this buffer
    buf_expand_size

pipevars == <<sent, writer>>
readvars == <<arrived, got>>
bufvars  == <<used, free, off, shared, buf_expand_size>>
vars == <<pipevars, readvars, handled, res, read_n_bytes,
          n_loops_without_success, state, bufvars>>

Init ==
    /\ sent = <<>> /\ writer = "open"
    /\ arrived = 0 /\ got = 0 /\ handled = <<>>
    /\ res = "none" /\ read_n_bytes = 0 /\ n_loops_without_success = 0
    /\ state = "running"
    /\ used = 0 /\ off = 0 /\ free = InitSize
    /\ shared = FALSE
    /\ buf_expand_size = InitSize
-----------------------------------------------------------------------------
\* The payload.
Write(n) ==
    /\ writer = "open" /\ Len(sent) < MaxMsgs
    /\ sent' = Append(sent, n)
    /\ UNCHANGED <<writer, readvars, handled, res, read_n_bytes,
                   n_loops_without_success, state, bufvars>>

Close ==
    /\ writer = "open"
    /\ writer' = "closed"
    /\ UNCHANGED <<sent, readvars, handled, res, read_n_bytes,
                   n_loops_without_success, state, bufvars>>
-----------------------------------------------------------------------------
Unread == arrived < Len(sent)
Remaining == sent[arrived + 1] - got

\* What a read into the free bytes of the buffer gives when it can complete.
Transfer ==
    \/ /\ Unread /\ Remaining <= free
       /\ res' = "success" /\ read_n_bytes' = Remaining
       /\ arrived' = arrived + 1 /\ got' = got + Remaining
    \/ /\ Unread /\ Remaining > free
       /\ res' = "more_data" /\ read_n_bytes' = 0
       /\ got' = got + free
       /\ UNCHANGED arrived
    \/ /\ ~Unread /\ writer = "closed"
       /\ res' = "broken_pipe" /\ read_n_bytes' = 0
       /\ UNCHANGED readvars

\* ReadFile: completes, or is pending.
ReadFile ==
    /\ state = "running" /\ res = "none"
    /\ \/ Transfer
       \/ /\ ~Unread /\ writer = "open"
          /\ res' = "io_pending" /\ read_n_bytes' = 0
          /\ UNCHANGED readvars
    /\ UNCHANGED <<pipevars, handled, n_loops_without_success, state, bufvars>>

\* WaitForSingleObject and GetOverlappedResult: the pending read completes.
WaitRead ==
    /\ state = "running" /\ res = "waiting"
    /\ Transfer
    /\ UNCHANGED <<pipevars, handled, n_loops_without_success, state, bufvars>>

\* Any other error of ReadFile, of the wait or of GetOverlappedResult.
ReadError ==
    /\ state = "running" /\ res \in {"none", "waiting"}
    /\ res' = "failed"
    /\ UNCHANGED <<pipevars, readvars, handled, read_n_bytes,
                   n_loops_without_success, state, bufvars>>

GivesUp == n_loops_without_success > MaxFails

\* The loop has a result that is not a success.
NoSuccess(r) ==
    /\ state = "running" /\ res = r
    /\ ~GivesUp
    /\ n_loops_without_success' = n_loops_without_success + 1

\* The read needs waiting for.
HandlePending ==
    /\ NoSuccess("io_pending")
    /\ res' = "waiting"
    /\ UNCHANGED <<pipevars, readvars, handled, read_n_bytes, state, bufvars>>

\* The payload has gone, or the read failed: the loop ends.
HandleBrokenPipe ==
    /\ NoSuccess("broken_pipe") \/ NoSuccess("failed")
    /\ state' = "error"
    /\ UNCHANGED <<pipevars, readvars, handled, res, read_n_bytes, bufvars>>

TooManyFails ==
    /\ state = "running" /\ res \in {"io_pending", "more_data", "broken_pipe", "failed"}
    /\ GivesUp
    /\ n_loops_without_success' = n_loops_without_success + 1
    /\ state' = "gave_up"
    /\ UNCHANGED <<pipevars, readvars, handled, res, read_n_bytes, bufvars>>
-----------------------------------------------------------------------------
\* n doubled until it is at least what is needed, but then not twice as much.
Doubled(n, need) ==
    LET to[k \in Nat] == IF k >= need THEN k ELSE to[2 * k]
    IN  to[n]

Capacity(n, need) == {c \in need..(n + 2 * need) : c = Doubled(n, need)}

\* Mutant: the count of the zones that refer to the buffer is not looked at.
Rewound_Always(u) == u = off

\* msgpack_unpacker_expand_buffer, when u bytes of the buffer are used and f
\* free.  A buffer that holds nothing unparsed and that no zone refers to is
\* rewound; if nothing in it has been parsed it is reallocated; otherwise what
\* is not parsed yet is copied into a new one.
Rewound(u) == u = off /\ ~shared

Expand(u, f, size) ==
    LET start == IF Rewound(u) THEN 0 ELSE off
        fill  == IF Rewound(u) THEN 0 ELSE u
        room  == IF Rewound(u) THEN f + u ELSE f
    IN  /\ off' = 0
        /\ IF Rewound(u) /\ room >= size
             THEN used' = 0 /\ free' = room /\ UNCHANGED shared
             ELSE IF start = 0
             THEN /\ used' = fill
                  /\ \E c \in Capacity(2 * (fill + room), size + fill) : free' = c - fill
                  /\ UNCHANGED shared
             ELSE /\ used' = fill - start
                  /\ \E c \in Capacity(InitSize, size + used') : free' = c - used'
                  /\ shared' = FALSE

\* Mutant: read_n_bytes, which is 0, is consumed.
HandleMoreData_ReadNBytes ==
    /\ NoSuccess("more_data")
    /\ res' = "none"
    /\ Expand(used + read_n_bytes, free - read_n_bytes, buf_expand_size)
    /\ buf_expand_size' = 2 * buf_expand_size
    /\ UNCHANGED <<pipevars, readvars, handled, read_n_bytes, state>>

\* ERROR_MORE_DATA: all that was free is filled; ch_msg_ctx_buf_expand, which
\* may run out of memory.
HandleMoreData ==
    /\ NoSuccess("more_data")
    /\ res' = "none"
    /\ \/ /\ Expand(used + free, 0, buf_expand_size)
          /\ buf_expand_size' = 2 * buf_expand_size
          /\ UNCHANGED state
       \/ /\ used' = used + free /\ free' = 0
          /\ state' = "error"
          /\ UNCHANGED <<off, shared, buf_expand_size>>
    /\ UNCHANGED <<pipevars, readvars, handled, read_n_bytes>>

\* Mutant: the count of failed reads is never reset.
HandleSuccess_NoReset ==
    /\ state = "running" /\ res = "success"
    /\ used' = used + read_n_bytes /\ free' = free - read_n_bytes
    /\ got' = 0 /\ off' = used'
    /\ res' = "none"
    /\ handled' = Append(handled, got)
    /\ shared' \in {shared, TRUE}
    /\ UNCHANGED <<pipevars, arrived, read_n_bytes, state, buf_expand_size,
                   n_loops_without_success>>

\* A message is complete.  The unpacker finds it if the unparsed bytes of the
\* buffer are its bytes; then it is processed, which may end the loop and may
\* keep the zone.
HandleSuccess ==
    /\ state = "running" /\ res = "success"
    /\ n_loops_without_success' = 0
    /\ used' = used + read_n_bytes /\ free' = free - read_n_bytes
    /\ got' = 0
    /\ res' = "none"
    /\ IF used' - off = got
         THEN /\ off' = used'
              /\ handled' = Append(handled, got)
              /\ shared' \in {shared, TRUE}
              /\ state' \in {"running", "done"}
         ELSE /\ state' = "garbled"
              /\ UNCHANGED <<off, handled, shared>>
    /\ UNCHANGED <<pipevars, arrived, read_n_bytes, buf_expand_size>>

Loop ==
    \/ ReadFile \/ WaitRead \/ HandlePending \/ HandleMoreData
    \/ HandleBrokenPipe \/ TooManyFails \/ HandleSuccess

Next == Loop \/ ReadError \/ Close \/ \E n \in Sizes : Write(n)

Spec == Init /\ [][Next]_vars
-----------------------------------------------------------------------------
(* Properties *)

\* The buffer's accounting is that of the bytes read, however many parts a
\* message came in, and every message reaches the unpacker once, whole and in
\* order (ch_inject.c:338-374).
Reassembled ==
    /\ state # "garbled"
    /\ IsPrefix(handled, sent)
    /\ state = "running" /\ res = "none" => used - off = got

\* What the buffer has been expanded by in all after n expansions, the first by
\* InitSize and each by twice the one before.
Expanded[n \in Nat] == IF n = 0 THEN 0 ELSE 2 * Expanded[n - 1] + InitSize

\* The loop gives up ("something fishy is going on", ch_inject.c:344-348) only on
\* a message too large for the expansions it allows, or on an error that ends it
\* anyway.
NeverGivesUpEarly ==
    state = "gave_up" /\ res # "failed" =>
        Unread /\ sent[arrived + 1] > Expanded[MaxFails]

\* Bytes that a kept zone refers to are never overwritten or moved: while the
\* buffer is shared it is neither rewound nor reallocated.
KeptBytesStay == [][shared /\ shared' => off' >= off /\ used' >= used]_vars
=============================================================================
