----------------------------- MODULE ByteReader -----------------------------
(***************************************************************************)
(* A byte reader (ch_byte_reader.h): the part of a file from cur up to     *)
(* end.  It has overflowed once cur is after end.  Sizes are natural       *)
(* numbers: those that are signed in a save are what a game wrote.         *)
(***************************************************************************)
EXTENDS Integers

Overflowed(br) == br.cur > br.end

SetOverflowed(br) == [br EXCEPT !.end = br.cur - 1]

CouldSkip(br, n) == ~Overflowed(br) /\ br.cur + n <= br.end

Skip(br, n) ==
    IF CouldSkip(br, n) THEN [br EXCEPT !.cur = @ + n] ELSE SetOverflowed(br)

Remaining(br) == IF Overflowed(br) THEN 0 ELSE br.end - br.cur

\* A reader n bytes further on, which r stays behind (ch_br_jmp_rel).
JmpRel(r, n) ==
    IF CouldSkip(r, n) THEN [r EXCEPT !.cur = @ + n]
    ELSE SetOverflowed([cur |-> r.end, end |-> r.end])

\* A reader for the next n bytes, and one for what follows them.
SplitSkip(br, n) ==
    [chunk |-> [cur |-> br.cur, end |-> IF CouldSkip(br, n) THEN br.cur + n ELSE br.end],
     after |-> Skip(br, n)]

\* Mutant: the chunk ends where the reader did.
SplitSkipSwap_NoFence(br, n) ==
    IF CouldSkip(br, n) THEN [chunk |-> br, after |-> [br EXCEPT !.cur = br.cur + n]]
    ELSE [chunk |-> br, after |-> SetOverflowed([cur |-> br.end, end |-> br.end])]

\* Mutant: it is not checked that the chunk fits.
SplitSkipSwap_Unchecked(br, n) ==
    [chunk |-> [br EXCEPT !.end = br.cur + n], after |-> [br EXCEPT !.cur = br.cur + n]]

\* As SplitSkip the other way round, but a chunk that does not fit is what is left
\* of the reader, and it is the reader for what follows that has overflowed.
SplitSkipSwap(br, n) ==
    IF CouldSkip(br, n)
    THEN [chunk |-> [br EXCEPT !.end = br.cur + n],
          after |-> [br EXCEPT !.cur = br.cur + n]]
    ELSE [chunk |-> br, after |-> SetOverflowed([cur |-> br.end, end |-> br.end])]
=============================================================================
