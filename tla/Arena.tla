-------------------------------- MODULE Arena --------------------------------
(***************************************************************************)
(* The arena allocator (shared/ch_arena.h) that all of a parsed save lives *)
(* in.  Memory is handed out from the end of the last chunk; a request     *)
(* that does not fit starts a new chunk, twice as large at least as the    *)
(* one before.  Sizes are size_t: they wrap at SizeMod.                    *)
(*                                                                         *)
(* A chunk is the bytes it has for blocks, its header (a pointer, or the   *)
(* ch_arena itself in the first one) left out; a block is a request that   *)
(* was granted.                                                            *)
(***************************************************************************)
EXTENDS Integers, Sequences, FiniteSets

CONSTANTS
    SizeMod,        \* sizes are modulo this: 2^32
    MallocMax,      \* malloc never gives more than this
    InitSizes,      \* the sizes ch_arena_new is called with
    Requests,       \* the sizes ch_arena_alloc is called with
    MaxBlocks       \* bound: blocks requested in a run

ASSUME ArenaAssumption ==
    /\ SizeMod \in Nat
    /\ MallocMax \in Nat /\ MallocMax >= 8 /\ 2 * MallocMax < SizeMod
    /\ InitSizes \subseteq 0..(MallocMax - 4)
    /\ Requests \subseteq Nat
    /\ \A n \in Requests : 2 * (n + 8) <= SizeMod
    /\ MaxBlocks \in Nat

VARIABLES
    at,             \* in ch_arena_alloc: "idle", "grow", "place"; after: "null", "freed"
    asked,          \* what is asked for
    chunks,         \* the bytes for blocks of each chunk, the last chunk last
    ptr,            \* offset in the last chunk of what is handed out next
    n_free,
    chunk_size,
    blocks          \* what was handed out: chunk, offset and requested size

arena_vars == <<at, asked, chunks, ptr, n_free, chunk_size, blocks>>

Ptr == 4                                \* sizeof(void*), CH_ARENA_ALIGNMENT
Wrap(x) == x % SizeMod

\* Mutant: rounding down.
Align_Down(x) == (Wrap(x) \div Ptr) * Ptr

Align(x) == (Wrap(x + Ptr - 1) \div Ptr) * Ptr      \* CH_ARENA_ALIGN
AtLeast(x, y) == IF x < y THEN y ELSE x             \* max

\* ch_arena_new
AInit ==
    /\ at = "idle" /\ asked = 0
    /\ \E size \in InitSizes : chunk_size = Align(AtLeast(Ptr, size))
    /\ n_free = chunk_size
    /\ chunks = <<chunk_size>>
    /\ ptr = 0
    /\ blocks = {}

\* ch_arena_alloc is called: what does not fit needs a chunk.
Request(size) ==
    /\ at = "idle"
    /\ Cardinality(blocks) < MaxBlocks
    /\ asked' = AtLeast(size, 1)
    /\ IF n_free < asked'
         THEN at' = "grow" /\ chunk_size' = Wrap(2 * chunk_size)
         ELSE at' = "place" /\ UNCHANGED chunk_size
    /\ UNCHANGED <<chunks, ptr, n_free, blocks>>

MinAllocSize == Align(Wrap(asked + Ptr))

\* Mutant: what is doubled is not the size that is compared.
Grow_NotCompared ==
    /\ at = "grow"
    /\ chunk_size < MinAllocSize
    /\ UNCHANGED arena_vars

\* while (arena->chunk_size < min_alloc_size) arena->chunk_size *= 2;
Grow ==
    /\ at = "grow"
    /\ chunk_size < MinAllocSize
    /\ chunk_size' = Wrap(2 * chunk_size)
    /\ UNCHANGED <<at, asked, chunks, ptr, n_free, blocks>>

NewChunk ==
    /\ at = "grow"
    /\ chunk_size >= MinAllocSize
    /\ chunk_size <= MallocMax
    /\ n_free' = Wrap(chunk_size - Ptr)
    /\ chunks' = Append(chunks, chunk_size - Ptr)
    /\ ptr' = 0
    /\ at' = "place"
    /\ UNCHANGED <<asked, chunk_size, blocks>>

\* malloc fails: NULL is returned, and every caller gives up the parse then.
NoChunk ==
    /\ at = "grow"
    /\ chunk_size >= MinAllocSize
    /\ at' = "null"
    /\ UNCHANGED <<asked, chunks, ptr, n_free, chunk_size, blocks>>

Place ==
    /\ at = "place"
    /\ blocks' = blocks \cup {[chunk |-> Len(chunks), from |-> ptr, size |-> asked]}
    /\ ptr' = ptr + Align(asked)
    /\ n_free' = Wrap(n_free - Align(asked))
    /\ at' = "idle"
    /\ UNCHANGED <<asked, chunks, chunk_size>>

\* ch_arena_free: the chunks go, and every block with them.
Free ==
    /\ at \in {"idle", "null"}
    /\ at' = "freed"
    /\ chunks' = <<>> /\ blocks' = {}
    /\ UNCHANGED <<asked, ptr, n_free, chunk_size>>

Step == Grow \/ NewChunk \/ NoChunk \/ Place

ANext == Step \/ Free \/ \E size \in Requests : Request(size)

ASpec == AInit /\ [][ANext]_arena_vars

\* A call runs to its end.
FairSpec == ASpec /\ WF_arena_vars(Step)
-----------------------------------------------------------------------------
Block == [chunk : Nat \ {0}, from : Nat, size : Nat \ {0}]

TypeOK ==
    /\ at \in {"idle", "grow", "place", "null", "freed"}
    /\ asked \in Nat /\ ptr \in Nat /\ n_free \in Nat /\ chunk_size \in Nat
    /\ chunks \in Seq(Nat)
    /\ blocks \subseteq Block

\* Every block lies in its chunk, all the bytes that were asked for, however
\* the sizes that led to it were rounded, doubled and subtracted.
InBounds ==
    \A b \in blocks :
        b.chunk <= Len(chunks) /\ b.from + b.size <= chunks[b.chunk]

\* No two blocks share a byte.
Disjoint ==
    \A a, b \in blocks :
        a # b /\ a.chunk = b.chunk =>
            a.from + a.size <= b.from \/ b.from + b.size <= a.from

\* Every block is aligned for a pointer, after blocks of odd sizes too.
Aligned == \A b \in blocks : b.from % Ptr = 0

\* Who calls ch_arena_alloc is given memory of its own, as much as it asked for, for
\* anything it may put there (ch_arena.h:61-91).
BlocksSound == InBounds /\ Disjoint /\ Aligned

\* A call of ch_arena_alloc returns: the doubling reaches what is needed.
CallReturns == at \in {"grow", "place"} ~> at \in {"idle", "null"}
=============================================================================
