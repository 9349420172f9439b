------------------------------ MODULE Transfer ------------------------------
(***************************************************************************)
(* What a session promises about the collection file: it stays as it was,  *)
(* or it is replaced, once, by everything the payload found.  Only while   *)
(* it is being replaced, or for ever if that fails half way, is it neither *)
(* (ch_recv.c writes the file only when GOODBYE arrives, and the payload   *)
(* says GOODBYE only when it has sent everything).                         *)
(***************************************************************************)
CONSTANTS
    OldFile,        \* the file before the session
    PartialFile     \* a file opened for writing and not fully written

VARIABLES
    file,           \* the collection file
    collection      \* what a collection of this game holds

TInit == file = OldFile

Truncate ==
    /\ file = OldFile
    /\ file' = PartialFile
    /\ UNCHANGED collection

Replace ==
    /\ file = PartialFile
    /\ file' = collection
    /\ UNCHANGED collection

TSpec == TInit /\ [][Truncate \/ Replace]_<<file, collection>>
=============================================================================
