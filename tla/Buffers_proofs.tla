--------------------------- MODULE Buffers_proofs ---------------------------
(***************************************************************************)
(* Proofs about the buffers of the exe and what is in them: RecvLoop,      *)
(* whatever the sizes of the buffer and of the messages, and in however    *)
(* many parts they come; Arena, for all sizes of chunks and of requests    *)
(* that its assumption allows; and Wire, for every session: what a client  *)
(* may send, however bad, and what becomes of what the payload sends.      *)
(***************************************************************************)
EXTENDS RecvLoop, Arena, Wire, SequenceTheorems, WellFoundedInduction, TLAPS

-----------------------------------------------------------------------------
(* The receive loop *)

Results == {"none", "success", "more_data", "io_pending", "waiting", "broken_pipe", "failed"}

LoopTypeOK ==
    /\ sent \in Seq(Nat \ {0}) /\ handled \in Seq(Nat)
    /\ arrived \in Nat /\ got \in Nat /\ read_n_bytes \in Nat
    /\ res \in Results
    /\ used \in Nat /\ free \in Nat /\ off \in Nat
    /\ shared \in BOOLEAN
    /\ buf_expand_size \in Nat

\* The bytes of the buffer that are not parsed, counting those of the last read that
\* msgpack_unpacker_buffer_consumed has not been told of.
Unparsed ==
    used - off + (IF res = "success" THEN read_n_bytes ELSE IF res = "more_data" THEN free ELSE 0)

\* They are what has been read of the message, ...
BytesAccounted ==
    /\ off <= used
    /\ res = "success" => read_n_bytes <= free
    /\ state = "running" => Unparsed = got

\* ... which is the one after those that have been handled: a part of it until it
\* has arrived.
InTurn ==
    /\ arrived <= Len(sent)
    /\ Len(handled) <= Len(sent)
    /\ \A i \in 1..Len(handled) : handled[i] = sent[i]
    /\ state = "running" =>
          IF res = "success"
          THEN arrived = Len(handled) + 1 /\ got = sent[arrived]
          ELSE /\ arrived = Len(handled)
               /\ IF arrived < Len(sent) THEN got < sent[arrived + 1] ELSE got = 0

LoopInv == LoopTypeOK /\ BytesAccounted /\ InTurn /\ state # "garbled"

LEMMA InitLoop == Init => LoopInv
<1> SUFFICES ASSUME Init PROVE LoopInv
  OBVIOUS
<1>1. LoopTypeOK
  <2>1. sent \in Seq(Nat \ {0}) /\ handled \in Seq(Nat)
    BY DEF Init
  <2>2. arrived \in Nat /\ got \in Nat /\ read_n_bytes \in Nat /\ used \in Nat /\ free \in Nat
        /\ off \in Nat /\ buf_expand_size \in Nat /\ res \in Results
    BY RecvLoopAssumption DEF Init, Results
  <2>3. shared \in BOOLEAN
    BY DEF Init
  <2> QED
    BY <2>1, <2>2, <2>3 DEF LoopTypeOK
<1>2. Len(sent) = 0 /\ Len(handled) = 0
  BY DEF Init
<1>3. BytesAccounted /\ InTurn /\ state # "garbled"
  BY <1>2 DEF Init, BytesAccounted, Unparsed, InTurn
<1> QED
  BY <1>1, <1>3 DEF LoopInv

\* msgpack_unpacker_expand_buffer makes room for the bytes that are asked for, and
\* what was not parsed is still there and nothing else.
LEMMA ExpandKeeps ==
    ASSUME LoopTypeOK, NEW u \in Nat, NEW f \in Nat, NEW size \in Nat, off <= u,
           Expand(u, f, size)
    PROVE  /\ used' \in Nat /\ free' \in Nat /\ off' = 0 /\ shared' \in BOOLEAN
           /\ used' - off' = u - off
           /\ free' >= size
           /\ shared /\ shared' => off = 0 /\ used' = u
<1>1. ASSUME NEW q, NEW need, NEW c \in Capacity(q, need), need \in Nat, q \in Nat
      PROVE  c \in Nat /\ c >= need
  BY <1>1 DEF Capacity
<1>2. off \in Nat /\ used \in Nat /\ shared \in BOOLEAN /\ InitSize \in Nat
  BY RecvLoopAssumption DEF LoopTypeOK
<1>3. CASE Rewound(u) /\ f + u >= size
  BY <1>2, <1>3 DEF Expand, Rewound
<1>4. CASE Rewound(u) /\ ~(f + u >= size)
  <2>1. PICK c \in Capacity(2 * (0 + (f + u)), size + 0) :
            used' = 0 /\ free' = c - 0 /\ off' = 0 /\ shared' = shared
    BY <1>4 DEF Expand
  <2>2. c \in Nat /\ c >= size
    BY <1>1, <2>1
  <2> QED
    BY <1>2, <1>4, <2>1, <2>2 DEF Rewound
<1>5. CASE ~Rewound(u) /\ off = 0
  <2>1. PICK c \in Capacity(2 * (u + f), size + u) :
            used' = u /\ free' = c - u /\ off' = 0 /\ shared' = shared
    BY <1>5 DEF Expand
  <2>2. c \in Nat /\ c >= size + u
    BY <1>1, <2>1
  <2> QED
    BY <1>2, <1>5, <2>1, <2>2
<1>6. CASE ~Rewound(u) /\ off # 0
  <2>1. PICK c \in Capacity(InitSize, size + (u - off)) :
            used' = u - off /\ free' = c - used' /\ off' = 0 /\ shared' = FALSE
    BY <1>6 DEF Expand
  <2>2. u - off \in Nat
    BY <1>2
  <2>3. c \in Nat /\ c >= size + (u - off)
    BY <1>1, <1>2, <2>1, <2>2
  <2>4. free' \in Nat /\ free' >= size /\ used' \in Nat /\ used' - off' = u - off
    BY <1>2, <2>1, <2>2, <2>3
  <2> QED
    BY <2>1, <2>4
<1> QED
  BY <1>3, <1>4, <1>5, <1>6

\* A read that can complete.
LEMMA TransferKeeps ==
    ASSUME LoopInv, state = "running", res \in {"none", "waiting"}, Transfer,
           UNCHANGED <<pipevars, handled, state, bufvars>>
    PROVE  LoopInv'
<1> USE DEF LoopInv, LoopTypeOK, BytesAccounted, Unparsed, InTurn, Results
<1>1. UNCHANGED <<sent, handled, state, used, free, off, shared, buf_expand_size>>
  BY DEF pipevars, bufvars
<1>2. Unread => sent[arrived + 1] \in Nat \ {0} /\ got < sent[arrived + 1]
  BY DEF Unread
<1>3. CASE Unread /\ Remaining <= free /\ res' = "success" /\ read_n_bytes' = Remaining
           /\ arrived' = arrived + 1 /\ got' = got + Remaining
  <2>1. Remaining \in Nat /\ got' = sent[arrived'] /\ arrived' <= Len(sent)
    BY <1>2, <1>3 DEF Remaining, Unread
  <2> QED
    BY <1>1, <1>3, <2>1
<1>4. CASE Unread /\ Remaining > free /\ res' = "more_data" /\ read_n_bytes' = 0
           /\ got' = got + free /\ arrived' = arrived
  <2>1. got' < sent[arrived + 1] /\ got' \in Nat
    BY <1>2, <1>4 DEF Remaining
  <2> QED
    BY <1>1, <1>4, <2>1 DEF Unread
<1>5. CASE res' = "broken_pipe" /\ read_n_bytes' = 0 /\ UNCHANGED readvars
  BY <1>1, <1>5 DEF readvars
<1> QED
  BY <1>3, <1>4, <1>5 DEF Transfer

LEMMA StepLoop == LoopInv /\ [Next]_vars => LoopInv'
<1> SUFFICES ASSUME LoopInv, [Next]_vars PROVE LoopInv'
  OBVIOUS
<1>1. CASE ReadFile
  <2>1. CASE Transfer
    BY <1>1, <2>1, TransferKeeps DEF ReadFile
  <2>2. CASE res' = "io_pending" /\ read_n_bytes' = 0 /\ UNCHANGED readvars
    BY <1>1, <2>2 DEF ReadFile, readvars, pipevars, bufvars,
       LoopInv, LoopTypeOK, BytesAccounted, Unparsed, InTurn, Results
  <2> QED
    BY <1>1, <2>1, <2>2 DEF ReadFile
<1>2. CASE WaitRead
  BY <1>2, TransferKeeps DEF WaitRead
<1>3. CASE ReadError \/ HandlePending \/ HandleBrokenPipe \/ TooManyFails
  BY <1>3 DEF ReadError, HandlePending, HandleBrokenPipe, TooManyFails, NoSuccess,
     readvars, pipevars, bufvars, LoopInv, LoopTypeOK, BytesAccounted, Unparsed, InTurn, Results
<1>4. CASE HandleMoreData
  <2>1. /\ state = "running" /\ res = "more_data" /\ res' = "none"
        /\ UNCHANGED <<sent, arrived, got, handled, read_n_bytes>>
    BY <1>4 DEF HandleMoreData, NoSuccess, pipevars, readvars
  <2>2. /\ used \in Nat /\ free \in Nat /\ off \in Nat /\ used + free \in Nat /\ off <= used + free
        /\ used + free - off = got
    BY <2>1 DEF LoopInv, LoopTypeOK, BytesAccounted, Unparsed
  <2>3. CASE Expand(used + free, 0, buf_expand_size) /\ buf_expand_size' = 2 * buf_expand_size
             /\ UNCHANGED state
    <3>1. /\ used' \in Nat /\ free' \in Nat /\ off' = 0
          /\ used' - off' = used + free - off
      BY <2>2, <2>3, ExpandKeeps DEF LoopInv, LoopTypeOK
    <3>2. LoopTypeOK'
      <4>1. used' \in Nat /\ off' \in Nat /\ free' \in Nat /\ buf_expand_size' \in Nat
        BY <2>3, <2>2, <3>1 DEF LoopInv, LoopTypeOK
      <4>2. shared' \in BOOLEAN
        BY <2>2, <2>3, ExpandKeeps DEF LoopInv, LoopTypeOK
      <4> QED
        BY <2>1, <4>1, <4>2 DEF LoopInv, LoopTypeOK, Results
    <3>3. BytesAccounted'
      <4>1. got' = got /\ off' = 0 /\ used' \in Nat /\ used' - off' = got
        BY <2>1, <2>2, <3>1
      <4>2. off' <= used' /\ used' - off' + 0 = got'
        BY <4>1
      <4> QED
        BY <2>1, <4>2 DEF BytesAccounted, Unparsed
    <3>4. InTurn' /\ state' # "garbled"
      BY <2>1, <2>3 DEF LoopInv, InTurn
    <3> QED
      BY <3>2, <3>3, <3>4 DEF LoopInv
  <2>4. CASE used' = used + free /\ free' = 0 /\ state' = "error"
             /\ UNCHANGED <<off, shared, buf_expand_size>>
    BY <2>1, <2>2, <2>4 DEF LoopInv, LoopTypeOK, BytesAccounted, InTurn, Results
  <2> QED
    BY <1>4, <2>3, <2>4 DEF HandleMoreData
<1>5. CASE HandleSuccess
  <2>1. /\ state = "running" /\ res = "success" /\ res' = "none" /\ got' = 0
        /\ used' = used + read_n_bytes /\ free' = free - read_n_bytes
        /\ UNCHANGED <<sent, arrived, read_n_bytes, buf_expand_size>>
    BY <1>5 DEF HandleSuccess, pipevars
  <2>2. used' - off = got /\ used' \in Nat
    BY <2>1 DEF LoopInv, LoopTypeOK, BytesAccounted, Unparsed
  <2>3. /\ off' = used' /\ handled' = Append(handled, got)
        /\ shared' \in {shared, TRUE} /\ state' \in {"running", "done"}
    BY <1>5, <2>2 DEF HandleSuccess
  <2>4. read_n_bytes \in Nat /\ free' \in Nat /\ got \in Nat
    BY <2>1 DEF LoopInv, LoopTypeOK, BytesAccounted
  <2>5. LoopTypeOK'
    <3>1. shared' \in BOOLEAN
      BY <2>3 DEF LoopInv, LoopTypeOK
    <3> QED
      BY <2>1, <2>2, <2>3, <2>4, <3>1 DEF LoopInv, LoopTypeOK, Results
  <2>6. BytesAccounted'
    BY <2>1, <2>2, <2>3 DEF BytesAccounted, Unparsed
  <2>7. /\ arrived = Len(handled) + 1 /\ got = sent[arrived] /\ arrived <= Len(sent)
        /\ Len(handled') = arrived
    BY <2>1, <2>3, <2>4 DEF LoopInv, LoopTypeOK, InTurn
  <2>8. \A i \in 1..Len(handled') : handled'[i] = sent[i]
    BY <2>3, <2>4, <2>7 DEF LoopInv, LoopTypeOK, InTurn
  <2>9. arrived < Len(sent) => sent[arrived + 1] > 0
    BY DEF LoopInv, LoopTypeOK
  <2> QED
    BY <2>1, <2>3, <2>5, <2>6, <2>7, <2>8, <2>9 DEF LoopInv, InTurn
<1>6. CASE Close \/ UNCHANGED vars
  BY <1>6 DEF Close, vars, readvars, pipevars, bufvars, LoopInv, LoopTypeOK, BytesAccounted,
     Unparsed, InTurn, Results
<1>7. ASSUME NEW q \in Sizes, Write(q)
      PROVE  LoopInv'
  <2>1. /\ sent' = Append(sent, q) /\ q \in Nat \ {0}
        /\ UNCHANGED <<readvars, handled, res, read_n_bytes, state, bufvars>>
    BY <1>7, RecvLoopAssumption DEF Write
  <2> QED
    BY <2>1 DEF readvars, bufvars, LoopInv, LoopTypeOK, BytesAccounted, Unparsed, InTurn
<1> QED
  BY <1>1, <1>2, <1>3, <1>4, <1>5, <1>6, <1>7 DEF Next, Loop

THEOREM LoopInvariant == Spec => []LoopInv
  BY InitLoop, StepLoop, PTL DEF Spec

\* In however many parts a message is read, and however often the buffer is expanded
\* on the way (ch_inject.c:338-374), the unpacker gets every message once, whole and
\* in order.
THEOREM MessagesAreReassembled == Spec => []Reassembled
<1>1. LoopInv => Reassembled
  <2> SUFFICES ASSUME LoopInv PROVE Reassembled
    OBVIOUS
  <2>1. state = "running" /\ res = "none" => used - off = got
    BY DEF LoopInv, LoopTypeOK, BytesAccounted, Unparsed
  <2>2. IsPrefix(handled, sent)
    BY DEF LoopInv, LoopTypeOK, InTurn, IsPrefix
  <2> QED
    BY <2>1, <2>2 DEF LoopInv, Reassembled
<1> QED
  BY <1>1, LoopInvariant, PTL

\* What a kept message refers to in the buffer is never moved, parsed again or
\* overwritten: while a zone shares the buffer it is neither rewound nor reallocated
\* from its start (msgpack_unpacker_expand_buffer).
THEOREM KeptBytesAreLeft == Spec => KeptBytesStay
<1>1. LoopInv /\ [Next]_vars => [shared /\ shared' => off' >= off /\ used' >= used]_vars
  <2> SUFFICES ASSUME LoopInv, Next, shared, shared' PROVE off' >= off /\ used' >= used
    OBVIOUS
  <2>1. used \in Nat /\ off \in Nat /\ free \in Nat /\ off <= used /\ read_n_bytes \in Nat
    BY DEF LoopInv, LoopTypeOK, BytesAccounted
  <2>2. CASE HandleMoreData
    <3>1. CASE Expand(used + free, 0, buf_expand_size)
      <4>1. off = 0 /\ used' = used + free /\ off' = 0
        BY <2>1, <3>1, ExpandKeeps DEF LoopInv, LoopTypeOK
      <4> QED
        BY <2>1, <4>1
    <3>2. CASE used' = used + free /\ UNCHANGED off
      BY <2>1, <3>2
    <3> QED
      BY <2>2, <3>1, <3>2 DEF HandleMoreData
  <2>3. CASE HandleSuccess
    BY <2>1, <2>3 DEF HandleSuccess
  <2>4. CASE UNCHANGED <<used, off>>
    BY <2>1, <2>4
  <2> QED
    BY <2>2, <2>3, <2>4 DEF Next, Loop, ReadFile, WaitRead, HandlePending, HandleBrokenPipe,
       TooManyFails, ReadError, Close, Write, bufvars
<1> QED
  BY <1>1, LoopInvariant, PTL DEF Spec, KeptBytesStay


\* A set of natural numbers has a least one: what induction over them comes down to.
LEMMA LeastOf ==
    ASSUME NEW S \in SUBSET Nat, S # {}
    PROVE  \E x \in S : \A y \in S : x <= y
<1> DEFINE R == {ss \in Nat \X Nat : ss[1] < ss[2]}
<1>1. IsWellFoundedOn(R, Nat)
  BY NatLessThanWellFounded DEF OpToRel
<1>2. PICK x \in S : \A y \in S : ~(<<y, x>> \in R)
  <2> HIDE DEF R
  <2> QED
    BY <1>1, WFMin
<1>3. ASSUME NEW y \in S PROVE x <= y
  <2>1. x \in Nat /\ y \in Nat /\ <<y, x>> \in Nat \X Nat
    OBVIOUS
  <2>2. ~(y < x)
    <3> SUFFICES ASSUME y < x PROVE <<y, x>> \in R
      BY <1>2
    <3> QED
      BY <2>1
  <2> QED
    BY <2>1, <2>2
<1> QED
  BY <1>3

\* The first values of what begins with v0 and goes on with step.
Begun(g, q, v0, step) ==
    /\ DOMAIN g = 0..q /\ g[0] = v0
    /\ \A k \in 0..q : k < q => g[k + 1] = step[g[k]]

Iterates(f, v0, step) == f[0] = v0 /\ \A q \in Nat : f[q + 1] = step[f[q]]

\* Something can be defined by where it begins and how it goes on.
LEMMA Iteration ==
    ASSUME NEW V, NEW v0 \in V, NEW step \in [V -> V]
    PROVE  \E f \in [Nat -> V] : Iterates(f, v0, step)
<1>1. ASSUME NEW q \in Nat PROVE \E g : Begun(g, q, v0, step)
  <2> DEFINE None == {m \in Nat : ~ \E g : Begun(g, m, v0, step)}
  <2> SUFFICES ASSUME None # {} PROVE FALSE
    OBVIOUS
  <2>1. PICK m \in None : \A l \in None : m <= l
    <3> HIDE DEF None
    <3>1. None \in SUBSET Nat
      BY DEF None
    <3> QED
      BY <3>1, LeastOf
  <2>2. CASE m = 0
    <3>1. Begun([k \in 0..0 |-> v0], 0, v0, step)
      BY DEF Begun
    <3> QED
      BY <2>1, <2>2, <3>1
  <2>3. CASE m # 0
    <3>1. m - 1 \in Nat /\ ~(m <= m - 1)
      BY <2>1, <2>3
    <3>2. PICK g : Begun(g, m - 1, v0, step)
      BY <2>1, <3>1
    <3> DEFINE h == [k \in 0..m |-> IF k = m THEN step[g[m - 1]] ELSE g[k]]
    <3>3. DOMAIN h = 0..m /\ h[0] = v0
      BY <2>3, <3>1, <3>2 DEF Begun
    <3>4. ASSUME NEW k \in 0..m, k < m PROVE h[k + 1] = step[h[k]]
      <4>1. k \in 0..(m - 1) /\ k + 1 \in 0..m /\ h[k] = g[k]
        BY <3>1, <3>4
      <4>2. CASE k + 1 = m
        <5>1. k = m - 1
          BY <3>1, <4>2
        <5> QED
          BY <4>1, <4>2, <5>1
      <4>3. CASE k + 1 # m
        <5>1. k < m - 1
          BY <3>1, <3>4, <4>3
        <5>2. g[k + 1] = step[g[k]]
          BY <3>2, <4>1, <5>1 DEF Begun
        <5> QED
          BY <4>1, <4>3, <5>2
      <4> QED
        BY <4>2, <4>3
    <3>5. Begun(h, m, v0, step)
      <4> HIDE DEF h
      <4> QED
        BY <3>3, <3>4 DEF Begun
    <3> QED
      BY <2>1, <3>5
  <2> QED
    BY <2>2, <2>3
<1>2. ASSUME NEW q \in Nat, NEW m \in Nat, NEW g, NEW h, q <= m,
             Begun(g, q, v0, step), Begun(h, m, v0, step), NEW k \in 0..q
      PROVE  g[k] = h[k] /\ g[k] \in V
  <2> DEFINE Apart == {l \in 0..q : ~(g[l] = h[l] /\ g[l] \in V)}
  <2> SUFFICES ASSUME Apart # {} PROVE FALSE
    OBVIOUS
  <2>1. PICK l \in Apart : \A i \in Apart : l <= i
    <3> HIDE DEF Apart
    <3>1. Apart \in SUBSET Nat
      BY DEF Apart
    <3> QED
      BY <3>1, LeastOf
  <2>2. l # 0
    BY <1>2 DEF Begun
  <2>3. l - 1 \in 0..q /\ l - 1 \in 0..m /\ l - 1 < q /\ l - 1 < m /\ ~(l <= l - 1) /\ (l - 1) + 1 = l
    BY <1>2, <2>1, <2>2
  <2>4. g[l - 1] = h[l - 1] /\ g[l - 1] \in V
    BY <2>1, <2>3
  <2>5. g[l] = step[g[l - 1]] /\ h[l] = step[h[l - 1]]
    BY <1>2, <2>3 DEF Begun
  <2> QED
    BY <2>1, <2>4, <2>5
<1> DEFINE first(q) == CHOOSE g : Begun(g, q, v0, step)
           f == [q \in Nat |-> first(q)[q]]
<1>3. ASSUME NEW q \in Nat PROVE Begun(first(q), q, v0, step)
  BY <1>1, <1>3
<1> HIDE DEF first
<1>4. ASSUME NEW q \in Nat PROVE f[q] \in V
  BY <1>2, <1>3, <1>4
<1>5. f[0] = v0
  BY <1>3 DEF Begun
<1>6. ASSUME NEW q \in Nat PROVE f[q + 1] = step[f[q]]
  <2>1. Begun(first(q), q, v0, step) /\ Begun(first(q + 1), q + 1, v0, step)
    BY <1>3
  <2>2. q \in 0..q /\ q \in 0..(q + 1) /\ q <= q + 1 /\ q < q + 1
    OBVIOUS
  <2>3. first(q)[q] = first(q + 1)[q]
    BY <1>2, <2>1, <2>2
  <2>4. first(q + 1)[q + 1] = step[first(q + 1)[q]]
    BY <2>1, <2>2 DEF Begun
  <2> QED
    BY <2>3, <2>4
<1>7. f \in [Nat -> V] /\ Iterates(f, v0, step)
  BY <1>4, <1>5, <1>6 DEF Iterates
<1> QED
  BY <1>7

LEMMA ExpandedIs ==
    /\ Expanded \in [Nat -> Nat] /\ Expanded[0] = 0
    /\ \A q \in Nat : Expanded[q + 1] = 2 * Expanded[q] + InitSize
<1> DEFINE step == [v \in Nat |-> 2 * v + InitSize]
<1>1. step \in [Nat -> Nat]
  BY RecvLoopAssumption
<1>2. PICK f \in [Nat -> Nat] : Iterates(f, 0, step)
  <2> HIDE DEF step
  <2> QED
    BY <1>1, Iteration
<1>3. ASSUME NEW q \in Nat, q # 0 PROVE f[q] = 2 * f[q - 1] + InitSize
  <2>1. q - 1 \in Nat /\ (q - 1) + 1 = q
    BY <1>3
  <2> QED
    BY <1>2, <2>1 DEF Iterates
<1>4. f = [q \in Nat |-> IF q = 0 THEN 0 ELSE 2 * f[q - 1] + InitSize]
  BY <1>2, <1>3 DEF Iterates
<1>5. Expanded = [q \in Nat |-> IF q = 0 THEN 0 ELSE 2 * Expanded[q - 1] + InitSize]
  BY <1>4 DEF Expanded
<1>6. Expanded[0] = 0
  BY <1>5
<1>7. ASSUME NEW q \in Nat PROVE Expanded[q + 1] = 2 * Expanded[q] + InitSize
  <2>1. q + 1 \in Nat /\ q + 1 # 0 /\ (q + 1) - 1 = q
    OBVIOUS
  <2> QED
    BY <1>5, <2>1
<1>8. ASSUME NEW q \in Nat PROVE Expanded[q] \in Nat
  <2> DEFINE Bad == {m \in Nat : Expanded[m] \notin Nat}
  <2> SUFFICES ASSUME Bad # {} PROVE FALSE
    OBVIOUS
  <2>1. PICK m \in Bad : \A l \in Bad : m <= l
    <3> HIDE DEF Bad
    <3>1. Bad \in SUBSET Nat
      BY DEF Bad
    <3> QED
      BY <3>1, LeastOf
  <2>2. m # 0
    BY <1>6
  <2>3. m - 1 \in Nat /\ ~(m <= m - 1) /\ (m - 1) + 1 = m
    BY <2>1, <2>2
  <2>4. Expanded[m - 1] \in Nat
    BY <2>1, <2>3
  <2>5. Expanded[m] = 2 * Expanded[m - 1] + InitSize
    BY <1>7, <2>3
  <2> QED
    BY <2>1, <2>4, <2>5, RecvLoopAssumption
<1>9. Expanded \in [Nat -> Nat]
  BY <1>5, <1>8
<1> QED
  BY <1>6, <1>7, <1>9

\* What the loop has to show for the reads that have failed it: all but one of them
\* were expansions of the buffer, the bytes of which have been filled or are free.
Patient ==
    /\ n_loops_without_success \in Nat
    /\ buf_expand_size >= InitSize
    /\ state = "running" =>
          /\ res = "more_data" => Unread
          /\ res = "io_pending" \/ (res = "none" /\ ~Unread) => n_loops_without_success = 0
          /\ res \in {"waiting", "broken_pipe"} => n_loops_without_success <= 1
    /\ state = "running" /\ res # "success" =>
          \A k \in Nat : k < n_loops_without_success =>
              /\ buf_expand_size >= Expanded[k] + InitSize
              /\ got + (IF res = "more_data" THEN 0 ELSE free) >= Expanded[k]

PatientInv == LoopInv /\ Patient /\ NeverGivesUpEarly

LEMMA InitPatient == Init => Patient /\ NeverGivesUpEarly
  BY RecvLoopAssumption DEF Init, Patient, NeverGivesUpEarly, Unread

\* What one more expansion adds to the expansions before it.
LEMMA NextExpansion ==
    ASSUME LoopInv, Patient, state = "running", res # "success",
           NEW k \in Nat, k < n_loops_without_success + 1, NEW room \in Nat,
           room >= buf_expand_size
    PROVE  2 * buf_expand_size >= Expanded[k] + InitSize
           /\ (res = "more_data" => got + room >= Expanded[k])
<1>1. got \in Nat /\ buf_expand_size \in Nat /\ buf_expand_size >= InitSize /\ InitSize \in Nat
      /\ n_loops_without_success \in Nat
  BY RecvLoopAssumption DEF LoopInv, LoopTypeOK, Patient
<1>2. CASE k = 0
  <2>1. Expanded[k] = 0
    BY <1>2, ExpandedIs
  <2> QED
    BY <1>1, <2>1
<1>3. CASE k # 0
  <2>1. k - 1 \in Nat /\ (k - 1) + 1 = k /\ k - 1 < n_loops_without_success
    BY <1>1, <1>3
  <2>2. Expanded[k] = 2 * Expanded[k - 1] + InitSize /\ Expanded[k - 1] \in Nat
    BY <2>1, ExpandedIs
  <2>3. /\ buf_expand_size >= Expanded[k - 1] + InitSize
        /\ res = "more_data" => got >= Expanded[k - 1]
    BY <1>1, <2>1, <2>2 DEF Patient
  <2> QED
    BY <1>1, <2>2, <2>3
<1> QED
  BY <1>2, <1>3

LEMMA StepPatient == PatientInv /\ [Next]_vars => PatientInv'
<1> SUFFICES ASSUME PatientInv, [Next]_vars PROVE Patient' /\ NeverGivesUpEarly'
  BY StepLoop DEF PatientInv
<1> USE DEF PatientInv
<1>1. /\ n_loops_without_success \in Nat /\ buf_expand_size \in Nat /\ InitSize \in Nat
      /\ got \in Nat /\ free \in Nat /\ arrived \in Nat /\ res \in Results
  BY RecvLoopAssumption DEF LoopInv, LoopTypeOK, Patient
<1>2. CASE state = "running" /\ res \in {"none", "waiting"} /\ Transfer
           /\ UNCHANGED <<pipevars, handled, n_loops_without_success, state, bufvars>>
  <2>1. UNCHANGED <<sent, writer, n_loops_without_success, state, buf_expand_size, free>>
    BY <1>2 DEF pipevars, bufvars
  <2>2. CASE Unread /\ Remaining <= free /\ res' = "success"
    BY <1>1, <1>2, <2>1, <2>2 DEF Patient, NeverGivesUpEarly
  <2>3. CASE Unread /\ res' = "more_data" /\ got' = got + free /\ UNCHANGED arrived
    BY <1>1, <1>2, <2>1, <2>3 DEF Patient, NeverGivesUpEarly, Unread
  <2>4. CASE ~Unread /\ res' = "broken_pipe" /\ UNCHANGED readvars
    BY <1>1, <1>2, <2>1, <2>4 DEF Patient, NeverGivesUpEarly, Unread, readvars
  <2> QED
    BY <1>2, <2>2, <2>3, <2>4 DEF Transfer
<1>3. CASE ReadFile
  <2>1. CASE ~Unread /\ res' = "io_pending" /\ UNCHANGED readvars
    BY <1>1, <1>3, <2>1 DEF ReadFile, Patient, NeverGivesUpEarly, Unread, readvars, pipevars, bufvars
  <2> QED
    BY <1>2, <1>3, <2>1 DEF ReadFile
<1>4. CASE WaitRead
  BY <1>2, <1>4 DEF WaitRead
<1>5. CASE ReadError
  BY <1>1, <1>5 DEF ReadError, Patient, NeverGivesUpEarly, Unread, readvars, pipevars, bufvars
<1>6. CASE HandlePending
  <2>1. n_loops_without_success = 0 /\ n_loops_without_success' = 1 /\ res' = "waiting"
        /\ state = "running" /\ UNCHANGED <<got, free, buf_expand_size, state>>
    BY <1>6 DEF HandlePending, NoSuccess, Patient, readvars, bufvars
  <2>2. \A k \in Nat : k < 1 => Expanded[k] = 0
    BY ExpandedIs
  <2> QED
    BY <1>1, <2>1, <2>2 DEF Patient, NeverGivesUpEarly
<1>7. CASE HandleBrokenPipe
  BY <1>1, <1>7 DEF HandleBrokenPipe, NoSuccess, Patient, NeverGivesUpEarly, bufvars
<1>8. CASE TooManyFails
  <2>1. /\ state = "running" /\ state' = "gave_up" /\ n_loops_without_success > MaxFails
        /\ res \in {"io_pending", "more_data", "broken_pipe", "failed"}
        /\ UNCHANGED <<sent, arrived, got, res, buf_expand_size>>
        /\ n_loops_without_success' = n_loops_without_success + 1
    BY <1>8 DEF TooManyFails, GivesUp, pipevars, readvars, bufvars
  <2>2. MaxFails \in Nat /\ MaxFails >= 1
    BY RecvLoopAssumption
  <2>3. res \in {"more_data", "failed"}
    BY <1>1, <2>1, <2>2 DEF Patient
  <2>4. CASE res = "more_data"
    <3>1. Unread /\ got >= Expanded[MaxFails] /\ got < sent[arrived + 1]
      BY <1>1, <2>1, <2>2, <2>4 DEF Patient, Unread, LoopInv, InTurn
    <3>2. arrived + 1 \in 1..Len(sent) /\ sent \in Seq(Nat \ {0})
      BY <1>1, <3>1 DEF Unread, LoopInv, LoopTypeOK
    <3>3. sent[arrived + 1] \in Nat
      BY <3>2
    <3>4. Expanded[MaxFails] \in Nat
      BY <2>2, ExpandedIs
    <3> QED
      BY <1>1, <2>1, <3>1, <3>3, <3>4 DEF Patient, NeverGivesUpEarly, Unread
  <2> QED
    BY <1>1, <2>1, <2>3, <2>4 DEF Patient, NeverGivesUpEarly
<1>9. CASE HandleMoreData
  <2>1. /\ state = "running" /\ res = "more_data" /\ res' = "none" /\ Unread
        /\ n_loops_without_success' = n_loops_without_success + 1
        /\ UNCHANGED <<sent, arrived, got>>
    BY <1>9 DEF HandleMoreData, NoSuccess, pipevars, readvars, Patient
  <2>2. CASE Expand(used + free, 0, buf_expand_size) /\ buf_expand_size' = 2 * buf_expand_size
             /\ UNCHANGED state
    <3>1. used + free \in Nat /\ off <= used + free
      BY DEF LoopInv, LoopTypeOK, BytesAccounted
    <3>2. free' \in Nat /\ free' >= buf_expand_size
      BY <1>1, <2>2, <3>1, ExpandKeeps DEF LoopInv
    <3>3. ASSUME NEW k \in Nat, k < n_loops_without_success'
          PROVE  buf_expand_size' >= Expanded[k] + InitSize /\ got' + free' >= Expanded[k]
      BY <2>1, <2>2, <3>2, <3>3, NextExpansion
    <3> QED
      BY <1>1, <2>1, <2>2, <3>3 DEF Patient, NeverGivesUpEarly, Unread
  <2>3. CASE state' = "error" /\ UNCHANGED buf_expand_size
    BY <1>1, <2>1, <2>3 DEF Patient, NeverGivesUpEarly
  <2> QED
    BY <1>9, <2>2, <2>3 DEF HandleMoreData
<1>10. CASE HandleSuccess
  <2>1. /\ n_loops_without_success' = 0 /\ buf_expand_size' = buf_expand_size /\ res' = "none"
        /\ state' \in {"running", "done", "garbled"}
    BY <1>10 DEF HandleSuccess
  <2>2. Patient'
    BY <1>1, <2>1 DEF Patient
  <2> QED
    BY <2>1, <2>2 DEF NeverGivesUpEarly
<1>11. CASE Close \/ UNCHANGED vars
  BY <1>11 DEF Close, vars, readvars, pipevars, bufvars, Patient, NeverGivesUpEarly, Unread
<1>12. ASSUME NEW q \in Sizes, Write(q) PROVE Patient' /\ NeverGivesUpEarly'
  <2>1. /\ sent' = Append(sent, q) /\ sent \in Seq(Nat \ {0})
        /\ UNCHANGED <<readvars, res, n_loops_without_success, state, bufvars>>
    BY <1>12 DEF Write, LoopInv, LoopTypeOK
  <2>2. Unread => Unread' /\ sent'[arrived + 1] = sent[arrived + 1]
    BY <1>1, <2>1 DEF Unread, readvars
  <2> QED
    BY <1>1, <2>1, <2>2 DEF readvars, bufvars, Patient, NeverGivesUpEarly
<1> QED
  BY <1>3, <1>4, <1>5, <1>6, <1>7, <1>8, <1>9, <1>10, <1>11, <1>12 DEF Next, Loop

\* However often a message makes the loop expand the buffer, and whether or not it
\* had to wait for it, the loop does not give up (ch_inject.c:344-348) on one that
\* the expansions it allows make room for.
THEOREM LoopIsPatient == Spec => []NeverGivesUpEarly
<1>1. Init => PatientInv
  BY InitLoop, InitPatient DEF PatientInv
<1>2. PatientInv => NeverGivesUpEarly
  BY DEF PatientInv
<1> QED
  BY <1>1, <1>2, StepPatient, PTL DEF Spec
-----------------------------------------------------------------------------
(* The arena: the blocks lie in their chunks, disjoint and aligned.  The   *)
(* invariant that carries them relates the last chunk's accounting (ptr,   *)
(* n_free) to its blocks, and says that no size wraps.                     *)

\* A sum or a product that is below SizeMod does not wrap.
LEMMA WrapSmall ==
    ASSUME NEW x \in Nat, x < SizeMod
    PROVE  Wrap(x) = x
BY ArenaAssumption DEF Wrap

\* Rounding up gives a multiple of the alignment, less than Ptr away.
LEMMA AlignRoundsUp ==
    ASSUME NEW x \in Nat, x + 3 < SizeMod
    PROVE  /\ Align(x) \in Nat
           /\ x <= Align(x) /\ Align(x) <= x + 3
           /\ Align(x) % 4 = 0
<1>1. Wrap(x + Ptr - 1) = x + 3
  BY WrapSmall DEF Ptr
<1>2. Align(x) = ((x + 3) \div 4) * 4
  BY <1>1 DEF Align, Ptr
<1> QED
  BY <1>2

\* A multiple of the alignment that is not below x is not below Align(x).
LEMMA AlignIsLeast ==
    ASSUME NEW x \in Nat, NEW y \in Nat, x + 3 < SizeMod, y % 4 = 0, x <= y
    PROVE  Align(x) <= y
<1>1. Wrap(x + Ptr - 1) = x + 3
  BY WrapSmall DEF Ptr
<1>2. Align(x) = ((x + 3) \div 4) * 4
  BY <1>1 DEF Align, Ptr
<1> QED
  BY <1>2

\* Sums and differences of whole numbers of pointers.
LEMMA WholePointers ==
    ASSUME NEW x \in Nat, NEW y \in Nat, x % 4 = 0, y % 4 = 0
    PROVE  /\ x + y \in Nat /\ (x + y) % 4 = 0
           /\ y <= x => x - y \in Nat /\ x - y <= x /\ (x - y) % 4 = 0
OBVIOUS
-----------------------------------------------------------------------------
LastChunk == chunks[Len(chunks)]

\* The last chunk is what was handed out of it and what is free, both in whole
\* pointers, and its blocks lie in what was handed out.
Accounted ==
    /\ chunks # <<>>
    /\ ptr + n_free = LastChunk /\ LastChunk < SizeMod
    /\ ptr % 4 = 0 /\ n_free % 4 = 0
    /\ \A b \in blocks : b.chunk = Len(chunks) => b.from + b.size <= ptr

\* chunk_size is a whole number of pointers and was never too large for malloc
\* but for the doubling that a call is about to fail with.
SizeOK ==
    /\ chunk_size % 4 = 0 /\ chunk_size >= 4
    /\ at # "grow" => chunk_size <= MallocMax

\* What a call has been asked for.
AskedOK ==
    /\ at \in {"grow", "place"} => asked >= 1 /\ 2 * (asked + 7) <= SizeMod
    /\ at = "place" => asked <= n_free

IInv ==
    /\ TypeOK
    /\ InBounds
    /\ Disjoint
    /\ Aligned
    /\ at \in {"idle", "grow", "place"} => Accounted /\ SizeOK /\ AskedOK

LEMMA InitIInv == AInit => IInv
<1> SUFFICES ASSUME AInit PROVE IInv
  OBVIOUS
<1>1. PICK size \in InitSizes : chunk_size = Align(AtLeast(Ptr, size))
  BY DEF AInit
<1>2. size \in Nat /\ size <= MallocMax - 4
  BY ArenaAssumption
<1>3. /\ AtLeast(Ptr, size) \in Nat
      /\ AtLeast(Ptr, size) >= 4 /\ AtLeast(Ptr, size) <= MallocMax - 4
  BY <1>2, ArenaAssumption DEF AtLeast, Ptr
<1>4. AtLeast(Ptr, size) + 3 < SizeMod
  BY <1>3, ArenaAssumption
<1>5. /\ chunk_size \in Nat /\ chunk_size >= 4 /\ chunk_size <= MallocMax
      /\ chunk_size % 4 = 0
  BY <1>1, <1>3, <1>4, AlignRoundsUp, ArenaAssumption
<1>6. chunks = <<chunk_size>> /\ Len(chunks) = 1 /\ LastChunk = chunk_size
  BY <1>5 DEF AInit, LastChunk
<1>7. TypeOK /\ InBounds /\ Disjoint /\ Aligned
  BY <1>5, <1>6 DEF AInit, TypeOK, InBounds, Disjoint, Aligned
<1>8. Accounted
  BY <1>5, <1>6, ArenaAssumption DEF AInit, Accounted
<1>9. SizeOK /\ AskedOK
  BY <1>5 DEF AInit, SizeOK, AskedOK
<1> QED
  BY <1>7, <1>8, <1>9 DEF IInv

LEMMA RequestIInv ==
    ASSUME IInv, NEW size \in Requests, Request(size)
    PROVE  IInv'
<1> USE DEF Request
<1>1. size \in Nat /\ 2 * (size + 8) <= SizeMod
  BY ArenaAssumption
<1>2. asked' \in Nat /\ asked' >= 1 /\ 2 * (asked' + 7) <= SizeMod
  BY <1>1, ArenaAssumption DEF AtLeast
<1>3. /\ Accounted /\ SizeOK /\ chunk_size <= MallocMax
      /\ chunk_size \in Nat /\ n_free \in Nat
  BY DEF IInv, SizeOK, TypeOK
<1>4. Wrap(2 * chunk_size) = 2 * chunk_size
  BY <1>3, WrapSmall, ArenaAssumption
<1>5. TypeOK'
  BY <1>2, <1>3, <1>4 DEF IInv, TypeOK
<1>6. InBounds' /\ Disjoint' /\ Aligned'
  BY DEF IInv, InBounds, Disjoint, Aligned
<1>7. Accounted'
  BY <1>3 DEF Accounted, LastChunk
<1>8. SizeOK'
  BY <1>3, <1>4 DEF SizeOK
<1>9. AskedOK'
  BY <1>2, <1>3 DEF AskedOK
<1> QED
  BY <1>5, <1>6, <1>7, <1>8, <1>9 DEF IInv

\* What MinAllocSize is while a chunk is looked for: nothing of it wraps.
LEMMA MinAllocSizeBounds ==
    ASSUME IInv, at = "grow"
    PROVE  /\ MinAllocSize \in Nat
           /\ asked + 4 <= MinAllocSize /\ MinAllocSize <= asked + 7
           /\ 2 * (asked + 7) <= SizeMod /\ asked \in Nat
<1>1. asked \in Nat /\ 2 * (asked + 7) <= SizeMod
  BY DEF IInv, TypeOK, AskedOK
<1>2. Wrap(asked + Ptr) = asked + 4
  BY <1>1, WrapSmall, ArenaAssumption DEF Ptr
<1>3. (asked + 4) + 3 < SizeMod
  BY <1>1, ArenaAssumption
<1> QED
  BY <1>1, <1>2, <1>3, AlignRoundsUp DEF MinAllocSize

LEMMA GrowIInv == IInv /\ Grow => IInv'
<1> SUFFICES ASSUME IInv, Grow PROVE IInv'
  OBVIOUS
<1> USE DEF Grow
<1>1. chunk_size \in Nat /\ 2 * chunk_size < SizeMod
  BY MinAllocSizeBounds, ArenaAssumption DEF IInv, TypeOK
<1>2. chunk_size' = 2 * chunk_size
  BY <1>1, WrapSmall
<1>3. TypeOK'
  BY <1>1, <1>2 DEF IInv, TypeOK
<1>4. InBounds' /\ Disjoint' /\ Aligned'
  BY DEF IInv, InBounds, Disjoint, Aligned
<1>5. Accounted' /\ AskedOK'
  BY DEF IInv, Accounted, LastChunk, AskedOK
<1>6. SizeOK'
  BY <1>1, <1>2 DEF IInv, SizeOK
<1> QED
  BY <1>3, <1>4, <1>5, <1>6 DEF IInv

LEMMA NewChunkIInv == IInv /\ NewChunk => IInv'
<1> SUFFICES ASSUME IInv, NewChunk PROVE IInv'
  OBVIOUS
<1> USE DEF NewChunk
<1>1. /\ chunk_size \in Nat /\ chunk_size % 4 = 0 /\ chunk_size >= 4
      /\ chunk_size <= MallocMax /\ chunk_size >= asked + 4 /\ asked \in Nat /\ asked >= 1
  BY MinAllocSizeBounds DEF IInv, TypeOK, SizeOK, AskedOK
<1>2. n_free' = chunk_size - 4 /\ n_free' \in Nat /\ n_free' < SizeMod
  BY <1>1, WrapSmall, ArenaAssumption DEF Ptr
<1>3. /\ chunks' = Append(chunks, n_free') /\ Len(chunks') = Len(chunks) + 1
      /\ chunks' \in Seq(Nat) /\ chunks \in Seq(Nat) /\ LastChunk' = n_free'
      /\ \A i \in 1..Len(chunks) : chunks'[i] = chunks[i]
  BY <1>2 DEF IInv, TypeOK, LastChunk, Ptr
<1>4. TypeOK'
  BY <1>1, <1>2, <1>3 DEF IInv, TypeOK
<1>5. \A b \in blocks : b.chunk \in Nat \ {0} /\ b.chunk <= Len(chunks)
  BY DEF IInv, TypeOK, Block, InBounds
<1>6. InBounds'
  BY <1>3, <1>5 DEF IInv, InBounds
<1>7. Disjoint' /\ Aligned'
  BY DEF IInv, Disjoint, Aligned
<1>8. Accounted'
  <2>1. n_free' % 4 = 0 /\ ptr' % 4 = 0
    BY <1>1, <1>2
  <2>2. \A b \in blocks' : b.chunk # Len(chunks')
    BY <1>3, <1>5
  <2> QED
    BY <1>2, <1>3, <2>1, <2>2 DEF Accounted
<1>9. SizeOK' /\ AskedOK'
  BY <1>1, <1>2 DEF IInv, SizeOK, AskedOK
<1> QED
  BY <1>4, <1>6, <1>7, <1>8, <1>9 DEF IInv

LEMMA PlaceIInv == IInv /\ Place => IInv'
<1> SUFFICES ASSUME IInv, Place PROVE IInv'
  OBVIOUS
<1> USE DEF Place
<1> DEFINE new == [chunk |-> Len(chunks), from |-> ptr, size |-> asked]
<1>1. /\ asked \in Nat /\ asked >= 1 /\ asked <= n_free /\ asked + 3 < SizeMod
      /\ n_free \in Nat /\ n_free < SizeMod /\ SizeMod \in Nat
      /\ ptr \in Nat /\ ptr + n_free = LastChunk
      /\ chunks \in Seq(Nat) /\ chunks # <<>> /\ Len(chunks) \in Nat \ {0}
  BY ArenaAssumption DEF IInv, TypeOK, Accounted, AskedOK, LastChunk
<1>2. ptr % 4 = 0 /\ n_free % 4 = 0
  BY DEF IInv, Accounted
<1>3. PICK a \in Nat : a = Align(asked) /\ asked <= a /\ a % 4 = 0 /\ a <= n_free
  BY <1>1, <1>2, AlignRoundsUp, AlignIsLeast
<1>4. a = Align(asked) /\ asked <= a /\ a <= n_free
  BY <1>3
<1>5. ptr' = ptr + a /\ ptr' \in Nat
  BY <1>1, <1>4
<1>6. n_free' = n_free - a /\ n_free' \in Nat
  <2>1. n_free - a \in Nat /\ n_free - a < SizeMod
    BY <1>1, <1>4
  <2> QED
    BY <1>4, <2>1, WrapSmall
<1>7. ptr' % 4 = 0 /\ n_free' % 4 = 0
  <2>1. (ptr + a) % 4 = 0
    BY <1>1, <1>2, <1>3, WholePointers
  <2>2. (n_free - a) % 4 = 0
    BY <1>1, <1>2, <1>3, WholePointers
  <2> QED
    BY <1>5, <1>6, <2>1, <2>2
<1>8. new \in Block /\ blocks' = blocks \cup {new}
  BY <1>1 DEF Block
<1>9. TypeOK'
  BY <1>1, <1>5, <1>6, <1>8 DEF IInv, TypeOK
<1>10. InBounds'
  <2>1. new.from + new.size <= chunks[new.chunk]
    BY <1>1 DEF LastChunk
  <2> QED
    BY <1>1, <1>8, <2>1 DEF IInv, InBounds
<1>11. \A b \in blocks : b.chunk = new.chunk => b.from + b.size <= new.from
  BY DEF IInv, Accounted
<1>12. Disjoint'
  BY <1>8, <1>11 DEF IInv, Disjoint
<1>13. Aligned'
  <2>1. new.from % 4 = 0
    BY <1>2
  <2> QED
    BY <1>8, <2>1 DEF IInv, Aligned, Ptr
<1>14. Accounted'
  <2>1. LastChunk' = LastChunk /\ chunks' = chunks
    BY DEF LastChunk
  <2>2. ptr' + n_free' = LastChunk'
    BY <1>1, <1>5, <1>6, <2>1
  <2>3. \A b \in blocks : b.from \in Nat /\ b.size \in Nat
    BY DEF IInv, TypeOK, Block
  <2>4. \A b \in blocks' : b.chunk = Len(chunks') => b.from + b.size <= ptr'
    <3> SUFFICES ASSUME NEW b \in blocks', b.chunk = Len(chunks') PROVE b.from + b.size <= ptr'
      OBVIOUS
    <3>1. b \in blocks \/ b = new
      BY <1>8
    <3>2. b.chunk = Len(chunks)
      BY <2>1
    <3>3. CASE b \in blocks
      <4>1. b.from + b.size <= ptr /\ b.from + b.size \in Nat
        BY <1>11, <2>3, <3>2, <3>3
      <4> QED
        BY <1>1, <1>4, <1>5, <4>1
    <3>4. CASE b = new
      <4>1. b.from = ptr /\ b.size = asked
        BY <3>4
      <4> QED
        BY <1>1, <1>4, <1>5, <4>1
    <3> QED
      BY <3>1, <3>3, <3>4
  <2>5. LastChunk < SizeMod
    BY DEF IInv, Accounted
  <2> QED
    BY <1>1, <1>7, <2>1, <2>2, <2>4, <2>5 DEF Accounted
<1>15. SizeOK' /\ AskedOK'
  BY DEF IInv, SizeOK, AskedOK
<1> QED
  BY <1>9, <1>10, <1>12, <1>13, <1>14, <1>15 DEF IInv

LEMMA StepIInv == IInv /\ [ANext]_arena_vars => IInv'
<1> SUFFICES ASSUME IInv, [ANext]_arena_vars PROVE IInv'
  OBVIOUS
<1>1. ASSUME NEW size \in Requests, Request(size) PROVE IInv'
  BY <1>1, RequestIInv
<1>2. CASE Grow
  BY <1>2, GrowIInv
<1>3. CASE NewChunk
  BY <1>3, NewChunkIInv
<1>4. CASE NoChunk
  BY <1>4 DEF NoChunk, IInv, TypeOK, InBounds, Disjoint, Aligned
<1>5. CASE Place
  BY <1>5, PlaceIInv
<1>6. CASE Free
  BY <1>6 DEF Free, IInv, TypeOK, InBounds, Disjoint, Aligned
<1>7. CASE UNCHANGED arena_vars
  BY <1>7 DEF arena_vars, IInv, TypeOK, InBounds, Disjoint, Aligned, Accounted, LastChunk,
              SizeOK, AskedOK
<1> QED
  BY <1>1, <1>2, <1>3, <1>4, <1>5, <1>6, <1>7 DEF ANext, Step

\* The inductive invariant holds in every reachable state.
THEOREM ArenaInductive == ASpec => []IInv
  BY InitIInv, StepIInv, PTL DEF ASpec

\* Every variable of the arena keeps its type: no size wraps into another
\* (ch_arena_new, ch_arena_alloc).
THEOREM ArenaTypeCorrect == ASpec => []TypeOK
<1>1. IInv => TypeOK
  BY DEF IInv
<1> QED
  BY <1>1, ArenaInductive, PTL

\* Every block ch_arena_alloc hands out lies in its chunk with all its bytes, shares none of
\* them with another, and is aligned for a pointer.
THEOREM BlocksAreSound == ASpec => []BlocksSound
<1>1. IInv => BlocksSound
  BY DEF IInv, BlocksSound
<1> QED
  BY <1>1, ArenaInductive, PTL
-----------------------------------------------------------------------------
(* Objects *)

\* What the unpacker makes: values that are no containers, and containers of what has
\* been made before, n of them in each other.
Leaf ==
    {Nil} \cup [type : {"positive"}, v : Nat] \cup [type : {"negative"}, v : Int]
    \cup [type : {"str", "float"}, v : Seq(Byte)]

Container(S) == [type : {"array"}, v : Seq(S)] \cup [type : {"map"}, v : Seq(S \X S)]

Objects[n \in Nat] == Leaf \cup (IF n = 0 THEN {} ELSE Container(Objects[n - 1]))

LEMMA ObjectsIs ==
    Objects[0] = Leaf /\ \A n \in Nat : Objects[n + 1] = Leaf \cup Container(Objects[n])
<1> DEFINE Begins(g, n) ==
              /\ g[0] = Leaf
              /\ \A k \in 0..n : k < n => g[k + 1] = Leaf \cup Container(g[k])
<1>1. ASSUME NEW n \in Nat PROVE \E g : Begins(g, n)
  <2> DEFINE None == {m \in Nat : ~ \E g : Begins(g, m)}
  <2> SUFFICES ASSUME None # {} PROVE FALSE
    OBVIOUS
  <2>1. PICK m \in None : \A l \in None : m <= l
    <3> HIDE DEF None
    <3>1. None \in SUBSET Nat
      BY DEF None
    <3> QED
      BY <3>1, LeastOf
  <2>2. CASE m = 0
    <3>1. Begins([k \in 0..0 |-> Leaf], 0)
      OBVIOUS
    <3> QED
      BY <2>1, <2>2, <3>1
  <2>3. CASE m # 0
    <3>1. m - 1 \in Nat /\ ~(m <= m - 1)
      BY <2>1, <2>3
    <3>2. PICK g : Begins(g, m - 1)
      BY <2>1, <3>1
    <3> DEFINE h == [k \in 0..m |-> IF k = m THEN Leaf \cup Container(g[m - 1]) ELSE g[k]]
    <3> HIDE DEF Leaf, Container
    <3>3. h[0] = Leaf
      BY <2>3, <3>1, <3>2
    <3>4. ASSUME NEW k \in 0..m, k < m PROVE h[k + 1] = Leaf \cup Container(h[k])
      <4>1. k \in 0..(m - 1) /\ k + 1 \in 0..m /\ h[k] = g[k]
        BY <3>1, <3>4
      <4>2. CASE k + 1 = m
        <5>1. k = m - 1
          BY <3>1, <4>2
        <5> QED
          BY <4>1, <4>2, <5>1
      <4>3. CASE k + 1 # m
        <5>1. k < m - 1
          BY <3>1, <3>4, <4>3
        <5>2. g[k + 1] = Leaf \cup Container(g[k])
          BY <3>2, <4>1, <5>1
        <5> QED
          BY <4>1, <4>3, <5>2
      <4> QED
        BY <4>2, <4>3
    <3>5. Begins(h, m)
      <4> HIDE DEF h
      <4> QED
        BY <3>3, <3>4
    <3> QED
      BY <2>1, <3>5
  <2> QED
    BY <2>2, <2>3
<1>2. ASSUME NEW n \in Nat, NEW m \in Nat, NEW g, NEW h, n <= m, Begins(g, n), Begins(h, m),
             NEW k \in 0..n
      PROVE  g[k] = h[k]
  <2> DEFINE Apart == {l \in 0..n : g[l] # h[l]}
  <2> SUFFICES ASSUME Apart # {} PROVE FALSE
    OBVIOUS
  <2>1. PICK l \in Apart : \A i \in Apart : l <= i
    <3> HIDE DEF Apart
    <3>1. Apart \in SUBSET Nat
      BY DEF Apart
    <3> QED
      BY <3>1, LeastOf
  <2> HIDE DEF Leaf, Container
  <2>2. l # 0
    BY <1>2
  <2>3. l - 1 \in 0..n /\ l - 1 \in 0..m /\ l - 1 < n /\ l - 1 < m /\ ~(l <= l - 1) /\ (l - 1) + 1 = l
    BY <1>2, <2>1, <2>2
  <2>4. g[l - 1] = h[l - 1]
    BY <2>1, <2>3
  <2>5. g[l] = Leaf \cup Container(g[l - 1]) /\ h[l] = Leaf \cup Container(h[l - 1])
    BY <1>2, <2>3
  <2> QED
    BY <2>1, <2>4, <2>5
<1> DEFINE first(n) == CHOOSE g : Begins(g, n)
           f == [n \in Nat |-> first(n)[n]]
<1>3. ASSUME NEW n \in Nat PROVE Begins(first(n), n)
  <2> HIDE DEF Begins
  <2> QED
    BY <1>1, <1>3
<1> HIDE DEF first
<1> HIDE DEF Leaf, Container
<1>4. f[0] = Leaf
  BY <1>3
<1>5. ASSUME NEW n \in Nat PROVE f[n + 1] = Leaf \cup Container(f[n])
  <2>1. Begins(first(n), n) /\ Begins(first(n + 1), n + 1)
    BY <1>3
  <2>2. n \in 0..n /\ n \in 0..(n + 1) /\ n <= n + 1 /\ n < n + 1
    OBVIOUS
  <2>3. first(n)[n] = first(n + 1)[n]
    <3> HIDE DEF Begins
    <3> QED
      BY <1>2, <2>1, <2>2
  <2>4. first(n + 1)[n + 1] = Leaf \cup Container(first(n + 1)[n])
    BY <2>1, <2>2
  <2> QED
    BY <2>3, <2>4
<1> HIDE DEF f
<1>6. f = [n \in Nat |-> Leaf \cup (IF n = 0 THEN {} ELSE Container(f[n - 1]))]
  <2>1. f = [n \in Nat |-> f[n]]
    BY DEF f
  <2>2. ASSUME NEW n \in Nat
        PROVE  f[n] = Leaf \cup (IF n = 0 THEN {} ELSE Container(f[n - 1]))
    <3>1. CASE n = 0
      BY <1>4, <3>1
    <3>2. CASE n # 0
      <4>1. n - 1 \in Nat /\ (n - 1) + 1 = n
        BY <3>2
      <4> QED
        BY <1>5, <3>2, <4>1
    <3> QED
      BY <3>1, <3>2
  <2> QED
    BY <2>1, <2>2
<1>7. Objects = [n \in Nat |-> Leaf \cup (IF n = 0 THEN {} ELSE Container(Objects[n - 1]))]
  BY <1>6 DEF Objects
<1>8. Objects[0] = Leaf
  BY <1>7
<1>9. ASSUME NEW n \in Nat PROVE Objects[n + 1] = Leaf \cup Container(Objects[n])
  <2>1. n + 1 \in Nat /\ n + 1 # 0 /\ (n + 1) - 1 = n
    OBVIOUS
  <2> QED
    BY <1>7, <2>1
<1> QED
  BY <1>8, <1>9

\* What is made with less room can be made with more.
LEMMA ObjectsGrow ==
    ASSUME NEW m \in Nat, NEW n \in Nat, m <= n
    PROVE  Objects[m] \subseteq Objects[n]
<1> HIDE DEF Leaf
<1>1. ASSUME NEW S, NEW T, S \subseteq T PROVE Container(S) \subseteq Container(T)
  <2>1. S \X S \subseteq T \X T
    BY <1>1
  <2>2. Seq(S) \subseteq Seq(T) /\ Seq(S \X S) \subseteq Seq(T \X T)
    BY <1>1, <2>1, SeqMonotonic
  <2> QED
    BY <2>2 DEF Container
<1>2. ASSUME NEW k \in Nat PROVE Objects[k] \subseteq Objects[k + 1]
  <2> DEFINE Bad == {l \in Nat : ~(Objects[l] \subseteq Objects[l + 1])}
  <2> SUFFICES ASSUME Bad # {} PROVE FALSE
    OBVIOUS
  <2>1. PICK l \in Bad : \A i \in Bad : l <= i
    <3> HIDE DEF Bad
    <3>1. Bad \in SUBSET Nat
      BY DEF Bad
    <3> QED
      BY <3>1, LeastOf
  <2>2. CASE l = 0
    BY <2>1, <2>2, ObjectsIs
  <2>3. CASE l # 0
    <3>1. l - 1 \in Nat /\ ~(l <= l - 1) /\ (l - 1) + 1 = l
      BY <2>1, <2>3
    <3>2. Objects[l - 1] \subseteq Objects[l]
      BY <2>1, <3>1
    <3>3. Objects[l] = Leaf \cup Container(Objects[l - 1]) /\ Objects[l + 1] = Leaf \cup Container(Objects[l])
      BY <3>1, ObjectsIs
    <3> QED
      BY <1>1, <2>1, <3>2, <3>3
  <2> QED
    BY <2>2, <2>3
<1> DEFINE Bad == {l \in Nat : l >= m /\ ~(Objects[m] \subseteq Objects[l])}
<1> SUFFICES ASSUME Bad # {} PROVE FALSE
  OBVIOUS
<1>3. PICK l \in Bad : \A i \in Bad : l <= i
  <2> HIDE DEF Bad
  <2>1. Bad \in SUBSET Nat
    BY DEF Bad
  <2> QED
    BY <2>1, LeastOf
<1>4. l # m
  BY <1>3
<1>5. l - 1 \in Nat /\ l - 1 >= m /\ ~(l <= l - 1) /\ (l - 1) + 1 = l
  BY <1>3, <1>4
<1> QED
  BY <1>2, <1>3, <1>5

\* Induction over the natural numbers, with a set for what is to be shown.
LEMMA Inductively ==
    ASSUME NEW S, 0 \in S, \A n \in Nat : n \in S => n + 1 \in S
    PROVE  \A n \in Nat : n \in S
<1> DEFINE Bad == {n \in Nat : n \notin S}
<1> SUFFICES ASSUME Bad # {} PROVE FALSE
  OBVIOUS
<1>1. PICK m \in Bad : \A l \in Bad : m <= l
  <2>1. Bad \in SUBSET Nat
    OBVIOUS
  <2> HIDE DEF Bad
  <2> QED
    BY <2>1, LeastOf
<1>2. m # 0
  BY <1>1
<1>3. m - 1 \in Nat /\ ~(m <= m - 1) /\ (m - 1) + 1 = m
  BY <1>1, <1>2
<1> QED
  BY <1>1, <1>3

\* Of the values only the containers have others in them.
LEMMA ContainersOf ==
    ASSUME NEW n \in Nat, NEW x \in Objects[n], x.type \in {"array", "map"}
    PROVE  n # 0 /\ n - 1 \in Nat /\ x \in Container(Objects[n - 1])
<1>1. x \notin Leaf
  BY DEF Leaf, Nil
<1>2. n # 0
  BY <1>1, ObjectsIs
<1>3. n - 1 \in Nat /\ (n - 1) + 1 = n
  BY <1>2
<1>4. Objects[n] = Leaf \cup Container(Objects[n - 1])
  BY <1>3, ObjectsIs
<1> QED
  BY <1>1, <1>2, <1>3, <1>4

LEMMA ItemsOf ==
    ASSUME NEW S, NEW x \in Container(S)
    PROVE  /\ Items(x) \subseteq S
           /\ x.type = "array" => x \in [type : {"array"}, v : Seq(S)]
           /\ x.type # "array" => x \in [type : {"map"}, v : Seq(S \X S)]
<1>1. CASE x \in [type : {"array"}, v : Seq(S)]
  <2>1. x.type = "array" /\ \A i \in DOMAIN x.v : x.v[i] \in S
    BY <1>1
  <2> QED
    BY <1>1, <2>1 DEF Items
<1>2. CASE x \in [type : {"map"}, v : Seq(S \X S)]
  <2>1. x.type # "array" /\ \A i \in DOMAIN x.v : x.v[i] \in S \X S
    BY <1>2
  <2>2. \A i \in DOMAIN x.v : x.v[i][1] \in S /\ x.v[i][2] \in S
    BY <2>1
  <2>3. \A k \in 1..2 : k = 1 \/ k = 2
    OBVIOUS
  <2>4. Items(x) \subseteq S
    BY <2>1, <2>2, <2>3 DEF Items
  <2> QED
    BY <1>2, <2>1, <2>4
<1> QED
  BY <1>1, <1>2 DEF Container

\* Level is what it is defined to be: there is such a function.
LEMMA LevelIs ==
    ASSUME NEW d \in Nat, NEW o \in Objects[d]
    PROVE  /\ Level(o)[0] = Containers({o})
           /\ \A n \in Nat : Level(o)[n + 1] = Containers(UNION {Items(x) : x \in Level(o)[n]})
<1> DEFINE V == SUBSET Containers(Objects[d])
           down(S) == Containers(UNION {Items(x) : x \in S})
           step == [S \in V |-> down(S)]
<1>1. ASSUME NEW S \in V PROVE down(S) \in V
  <2>1. ASSUME NEW x \in S PROVE Items(x) \subseteq Objects[d]
    <3>1. x \in Objects[d] /\ x.type \in {"array", "map"}
      BY DEF Containers
    <3>2. d - 1 \in Nat /\ d - 1 <= d /\ x \in Container(Objects[d - 1])
      BY <3>1, ContainersOf
    <3>3. Items(x) \subseteq Objects[d - 1]
      BY <3>2, ItemsOf
    <3>4. Objects[d - 1] \subseteq Objects[d]
      BY <3>2, ObjectsGrow
    <3> QED
      BY <3>3, <3>4
  <2> QED
    BY <2>1 DEF Containers
<1>2. Containers({o}) \in V
  BY DEF Containers
<1> HIDE DEF V, down
<1>3. step \in [V -> V]
  BY <1>1
<1>4. PICK f \in [Nat -> V] : Iterates(f, Containers({o}), step)
  <2> HIDE DEF step
  <2> QED
    BY <1>2, <1>3, Iteration
<1>5. \A n \in Nat : f[n + 1] = down(f[n])
  BY <1>4 DEF Iterates
<1>6. f = [n \in Nat |-> IF n = 0 THEN Containers({o}) ELSE down(f[n - 1])]
  <2>1. ASSUME NEW n \in Nat
        PROVE  f[n] = IF n = 0 THEN Containers({o}) ELSE down(f[n - 1])
    <3>1. CASE n = 0
      BY <1>4, <3>1 DEF Iterates
    <3>2. CASE n # 0
      <4>1. n - 1 \in Nat /\ (n - 1) + 1 = n
        BY <3>2
      <4> QED
        BY <1>5, <3>2, <4>1
    <3> QED
      BY <3>1, <3>2
  <2> QED
    BY <2>1
<1> DEFINE Is(g) == g = [n \in Nat |-> IF n = 0 THEN Containers({o}) ELSE down(g[n - 1])]
<1>7. Level(o) = CHOOSE g : Is(g)
  BY DEF Level, down
<1>8. Is(f)
  BY <1>6
<1> HIDE DEF Is
<1>9. Is(Level(o))
  BY <1>7, <1>8, Zenon
<1>10. Level(o) = [n \in Nat |-> IF n = 0 THEN Containers({o}) ELSE down(Level(o)[n - 1])]
  BY <1>9 DEF Is
<1>11. Level(o)[0] = Containers({o})
  BY <1>10
<1>12. ASSUME NEW n \in Nat PROVE Level(o)[n + 1] = down(Level(o)[n])
  <2>1. n + 1 \in Nat /\ n + 1 # 0 /\ (n + 1) - 1 = n
    OBVIOUS
  <2> QED
    BY <1>10, <2>1
<1> QED
  BY <1>11, <1>12 DEF down

\* The deeper, the less is in it; and what is n deep has nothing at n.
LEMMA LevelFits ==
    ASSUME NEW d \in Nat, NEW o \in Objects[d], NEW n \in 0..d
    PROVE  /\ Level(o)[n] \subseteq Containers(Objects[d - n])
           /\ n = d => Level(o)[n] = {}
<1> DEFINE S == {k \in Nat : k <= d => Level(o)[k] \subseteq Containers(Objects[d - k])}
<1>1. 0 \in S
  <2>1. d - 0 = d
    OBVIOUS
  <2> QED
    BY <2>1, LevelIs DEF Containers
<1>2. ASSUME NEW k \in Nat, k \in S PROVE k + 1 \in S
  <2> SUFFICES ASSUME k + 1 <= d PROVE Level(o)[k + 1] \subseteq Containers(Objects[d - (k + 1)])
    OBVIOUS
  <2>1. d - k \in Nat /\ (d - k) - 1 = d - (k + 1) /\ k <= d
    OBVIOUS
  <2>2. ASSUME NEW x \in Level(o)[k] PROVE Items(x) \subseteq Objects[d - (k + 1)]
    <3>1. x \in Objects[d - k] /\ x.type \in {"array", "map"}
      BY <1>2, <2>1, <2>2 DEF Containers
    <3>2. x \in Container(Objects[(d - k) - 1])
      BY <2>1, <3>1, ContainersOf
    <3>3. Items(x) \subseteq Objects[(d - k) - 1]
      BY <3>2, ItemsOf
    <3> QED
      BY <2>1, <3>3
  <2>3. UNION {Items(x) : x \in Level(o)[k]} \subseteq Objects[d - (k + 1)]
    BY <2>2
  <2>4. Level(o)[k + 1] = Containers(UNION {Items(x) : x \in Level(o)[k]})
    BY LevelIs
  <2> QED
    BY <2>3, <2>4 DEF Containers
<1> HIDE DEF S
<1>3. n \in S
  BY <1>1, <1>2, Inductively
<1>4. Level(o)[n] \subseteq Containers(Objects[d - n])
  BY <1>3 DEF S
<1>5. n = d => Level(o)[n] = {}
  <2> SUFFICES ASSUME n = d, NEW x \in Level(o)[n] PROVE FALSE
    OBVIOUS
  <2>1. d - n = 0
    OBVIOUS
  <2>2. x \in Objects[0] /\ x.type \in {"array", "map"}
    BY <1>4, <2>1 DEF Containers
  <2> QED
    BY <2>2, ContainersOf
<1> QED
  BY <1>4, <1>5

\* What the unpacker makes has all of its containers inside: with one those in it.
LEMMA InsideIsWhole ==
    ASSUME NEW o \in Objects[StackSize]
    PROVE  /\ Containers({o}) \subseteq Inside(o)
           /\ Inside(o) \subseteq Containers(Objects[StackSize])
           /\ \A x \in Inside(o) : Containers(Items(x)) \subseteq Inside(o)
<1> USE StackAssumption
<1>1. Containers({o}) \subseteq Inside(o)
  <2>1. 0 \in 0..StackSize
    OBVIOUS
  <2> QED
    BY <2>1, LevelIs DEF Inside
<1>2. Inside(o) \subseteq Containers(Objects[StackSize])
  <2>1. ASSUME NEW n \in 0..StackSize PROVE Level(o)[n] \subseteq Containers(Objects[StackSize])
    <3>1. StackSize - n \in Nat /\ StackSize - n <= StackSize
      OBVIOUS
    <3>2. Objects[StackSize - n] \subseteq Objects[StackSize]
      BY <3>1, ObjectsGrow
    <3> QED
      BY <3>2, LevelFits DEF Containers
  <2> QED
    BY <2>1 DEF Inside
<1>3. ASSUME NEW x \in Inside(o) PROVE Containers(Items(x)) \subseteq Inside(o)
  <2>1. PICK n \in 0..StackSize : x \in Level(o)[n]
    BY <1>3 DEF Inside
  <2>2. n # StackSize
    BY <2>1, LevelFits
  <2>3. n \in Nat /\ n + 1 \in 0..StackSize
    BY <2>2
  <2>4. Containers(Items(x)) \subseteq Level(o)[n + 1]
    BY <2>1, <2>3, LevelIs DEF Containers
  <2> QED
    BY <2>3, <2>4 DEF Inside
<1> QED
  BY <1>1, <1>2, <1>3
-----------------------------------------------------------------------------
(* What the unpacker makes *)

\* A container that is not complete, the values in which may have n more in each other.
Frames(n) ==
    [obj : Container(Objects[n]), count : Nat \ {0}, ct : {"array", "map", "value"}, key : Objects[n]]

FrameOK(frame) ==
    /\ frame.ct = "array" <=> frame.obj.type = "array"
    /\ frame.obj.type \in {"array", "map"}

\* The more containers are not complete, the fewer there may be in the one that is.
StackOK ==
    /\ stack \in Seq(Frames(StackSize)) /\ Len(stack) <= StackSize
    /\ \A k \in 1..Len(stack) : stack[k] \in Frames(StackSize - k) /\ FrameOK(stack[k])

Labels == {"header", "trail", "push", "finish", "continue", "nomem", "parse_error"}

UnpackOK ==
    /\ buf \in Seq(Byte) /\ p \in 1..(Len(buf) + 1)
    /\ label \in Labels
    /\ trail \in Nat
    /\ label = "trail" =>
          /\ cs \in {"float", "uint", "int", "str_n", "str", "array", "map"}
          /\ cs # "str" => trail \in {1, 2, 4}
          /\ p > 1
    /\ label = "push" => p <= Len(buf) /\ obj \in Objects[StackSize - Len(stack)]
    /\ StackOK
    /\ obj \in Objects[StackSize]

LEMMA InSeq ==
    ASSUME NEW S, NEW s \in Seq(S)
    PROVE  DOMAIN s = 1..Len(s) /\ Len(s) \in Nat /\ \A i \in DOMAIN s : s[i] \in S
OBVIOUS

\* What Load makes of one, of two and of four bytes.
LEMMA LoadOne ==
    ASSUME NEW S, NEW s \in Seq(S), Len(s) = 1
    PROVE  s[1] \in S /\ Load(s) = s[1]
BY InSeq, SMT DEF Load

LEMMA LoadTwo ==
    ASSUME NEW S, NEW s \in Seq(S), Len(s) = 2
    PROVE  s[1] \in S /\ s[2] \in S /\ Load(s) = 256 * s[1] + s[2]
<1>1. s[1] \in S /\ s[2] \in S
  BY InSeq, SMT
<1> QED
  BY <1>1, SMT DEF Load

Four(s) == 16777216 * s[1] + 65536 * s[2] + 256 * s[3] + s[4]

LEMMA FourIs ==
    ASSUME NEW s
    PROVE  /\ s[1] \in Int /\ s[2] \in Int /\ s[3] \in Int /\ s[4] \in Int => Four(s) \in Int
           /\ s[1] \in Nat /\ s[2] \in Nat /\ s[3] \in Nat /\ s[4] \in Nat => Four(s) \in Nat
BY SMT DEF Four

LEMMA LoadFour ==
    ASSUME NEW S, NEW s \in Seq(S), Len(s) = 4
    PROVE  /\ s[1] \in S /\ s[2] \in S /\ s[3] \in S /\ s[4] \in S
           /\ Load(s) = Four(s)
<1>1. s[1] \in S /\ s[2] \in S /\ s[3] \in S /\ s[4] \in S
  BY InSeq, SMT
<1> QED
  BY <1>1, SMT DEF Load, Four

LEMMA LoadIsNat ==
    ASSUME NEW bytes \in Seq(Byte), NEW n \in {1, 2, 4}, Len(bytes) = n
    PROVE  Load(bytes) \in Nat /\ LoadSigned(bytes) \in Int
<1>1. \A b \in Byte : b \in Nat
  BY SMT DEF Byte
<1>2. ASSUME NEW S, NEW s \in Seq(S), S \in {Nat, Int}, Len(s) = n PROVE Load(s) \in S
  <2>1. CASE n = 1
    <3>1. s[1] \in S /\ Load(s) = s[1]
      BY <1>2, <2>1, LoadOne
    <3> QED
      BY <3>1
  <2>2. CASE n = 2
    <3>1. s[1] \in S /\ s[2] \in S /\ Load(s) = 256 * s[1] + s[2]
      BY <1>2, <2>2, LoadTwo
    <3> QED
      BY <1>2, <3>1, SMT
  <2>3. CASE n = 4
    <3>1. s[1] \in S /\ s[2] \in S /\ s[3] \in S /\ s[4] \in S
      BY <1>2, <2>3, LoadFour
    <3>2. Load(s) = Four(s)
      BY <1>2, <2>3, LoadFour
    <3>3. CASE S = Nat
      <4>1. s[1] \in Nat /\ s[2] \in Nat /\ s[3] \in Nat /\ s[4] \in Nat
        BY <3>1, <3>3
      <4>2. Load(s) \in Nat
        BY <3>2, <4>1, FourIs
      <4> QED
        BY <3>3, <4>2
    <3>4. CASE S = Int
      <4>1. s[1] \in Int /\ s[2] \in Int /\ s[3] \in Int /\ s[4] \in Int
        BY <3>1, <3>4
      <4>2. Load(s) \in Int
        BY <3>2, <4>1, FourIs
      <4> QED
        BY <3>4, <4>2
    <3> QED
      BY <1>2, <3>3, <3>4
  <2> QED
    BY <2>1, <2>2, <2>3
<1>3. bytes \in Seq(Nat) /\ bytes \in Seq(Int)
  BY <1>1
<1>4. Load(bytes) \in Nat
  BY <1>2, <1>3
<1>5. \A e \in Int : [bytes EXCEPT ![1] = e] \in Seq(Int) /\ Len([bytes EXCEPT ![1] = e]) = n
  BY <1>3, ExceptSeq
<1>6. bytes[1] - 256 \in Int
  BY <1>3
<1>7. Load([bytes EXCEPT ![1] = bytes[1] - 256]) \in Int
  BY <1>2, <1>5, <1>6
<1> QED
  BY <1>4, <1>7 DEF LoadSigned

LEMMA StackRoom ==
    ASSUME UnpackOK
    PROVE  /\ Len(stack) \in Nat /\ StackSize - Len(stack) \in Nat /\ StackSize \in Nat
           /\ Objects[StackSize - Len(stack)] \subseteq Objects[StackSize]
<1>1. Len(stack) \in Nat /\ StackSize - Len(stack) \in Nat /\ StackSize \in Nat
      /\ StackSize - Len(stack) <= StackSize
  BY StackAssumption DEF UnpackOK, StackOK
<1> QED
  BY <1>1, ObjectsGrow

LEMMA OutKeeps ==
    ASSUME UnpackOK, NEW r \in {"continue", "nomem", "parse_error"}, Out(r)
    PROVE  UnpackOK'
<1>1. UNCHANGED <<buf, p, trail, cs, stack, obj>> /\ label' = r
  BY DEF Out
<1>2. StackOK'
  BY <1>1 DEF UnpackOK, StackOK
<1> QED
  BY <1>1, <1>2 DEF UnpackOK, Labels

LEMMA ValueKeeps ==
    ASSUME UnpackOK, NEW o \in Objects[StackSize - Len(stack)], NEW last \in 1..Len(buf),
           Value(o, last)
    PROVE  UnpackOK'
<1>1. UNCHANGED <<buf, trail, cs, stack>> /\ label' = "push" /\ p' = last /\ obj' = o
  BY DEF Value
<1>2. StackOK'
  BY <1>1 DEF UnpackOK, StackOK
<1>3. obj' \in Objects[StackSize] /\ obj' \in Objects[StackSize - Len(stack')]
  BY <1>1, StackRoom
<1>4. last \in 1..(Len(buf) + 1) /\ last <= Len(buf)
  BY DEF UnpackOK
<1> QED
  BY <1>1, <1>2, <1>3, <1>4 DEF UnpackOK, Labels

LEMMA ExpectKeeps ==
    ASSUME UnpackOK, NEW c \in {"float", "uint", "int", "str_n", "str", "array", "map"}, NEW n \in Nat,
           c # "str" => n \in {1, 2, 4}, NEW next \in 2..(Len(buf) + 1), Expect(c, n, next)
    PROVE  UnpackOK'
<1>1. UNCHANGED <<buf, stack, obj>> /\ label' = "trail" /\ p' = next /\ cs' = c /\ trail' = n
  BY DEF Expect
<1>2. StackOK'
  BY <1>1 DEF UnpackOK, StackOK
<1>3. Len(buf) \in Nat
  BY DEF UnpackOK
<1>4. next \in 1..(Len(buf) + 1) /\ next > 1
  BY <1>3
<1> QED
  BY <1>1, <1>2, <1>4 DEF UnpackOK, Labels

LEMMA EmptyFits ==
    ASSUME NEW n \in Nat, NEW type \in {"array", "map"}
    PROVE  /\ Obj(type, <<>>) \in Container(Objects[n]) /\ Obj(type, <<>>) \in Objects[n + 1]
           /\ Nil \in Objects[n]
<1>1. <<>> \in Seq(Objects[n]) /\ <<>> \in Seq(Objects[n] \X Objects[n])
  OBVIOUS
<1>2. Obj(type, <<>>) \in Container(Objects[n])
  BY <1>1 DEF Container, Obj
<1>3. Nil \in Objects[0]
  BY ObjectsIs DEF Leaf
<1>4. Objects[0] \subseteq Objects[n]
  BY ObjectsGrow
<1> QED
  BY <1>2, <1>3, <1>4, ObjectsIs

LEMMA StartKeeps ==
    ASSUME UnpackOK, NEW type \in {"array", "map"}, NEW n \in Nat, NEW last \in 1..Len(buf),
           Start(type, n, last)
    PROVE  UnpackOK'
<1>1. CASE Out("nomem")
  BY <1>1, OutKeeps
<1>2. CASE Len(stack) < StackSize /\ n = 0 /\ Value(Obj(type, <<>>), last)
  <2>1. StackSize - (Len(stack) + 1) \in Nat /\ (StackSize - (Len(stack) + 1)) + 1 = StackSize - Len(stack)
    BY <1>2, StackRoom
  <2>2. Obj(type, <<>>) \in Objects[StackSize - Len(stack)]
    BY <2>1, EmptyFits
  <2> QED
    BY <1>2, <2>2, ValueKeeps
<1>3. CASE Len(stack) < StackSize /\ n # 0
           /\ stack' = Append(stack, [obj |-> Obj(type, <<>>), count |-> n, ct |-> type, key |-> Nil])
           /\ p' = last + 1 /\ label' = "header" /\ cs' = "header" /\ UNCHANGED <<buf, trail, obj>>
  <2> DEFINE frame == [obj |-> Obj(type, <<>>), count |-> n, ct |-> type, key |-> Nil]
             k == Len(stack) + 1
  <2>1. StackSize - k \in Nat /\ StackSize \in Nat
    BY <1>3, StackRoom
  <2>2. frame \in Frames(StackSize - k) /\ frame \in Frames(StackSize) /\ FrameOK(frame)
    BY <1>3, <2>1, EmptyFits DEF Frames, FrameOK, Obj
  <2>3. stack \in Seq(Frames(StackSize)) /\ stack' = Append(stack, frame) /\ Len(stack) \in Nat
    BY <1>3 DEF UnpackOK, StackOK
  <2> HIDE DEF frame
  <2>4. /\ stack' \in Seq(Frames(StackSize)) /\ Len(stack') = k
        /\ stack'[k] = frame /\ \A i \in 1..Len(stack) : stack'[i] = stack[i]
    BY <2>2, <2>3, AppendProperties
  <2>5. \A i \in 1..k : i = k \/ i \in 1..Len(stack)
    BY <2>3
  <2>6. ASSUME NEW i \in 1..Len(stack') PROVE stack'[i] \in Frames(StackSize - i) /\ FrameOK(stack'[i])
    <3>1. CASE i = k
      BY <2>2, <2>4, <3>1
    <3>2. CASE i \in 1..Len(stack)
      <4>1. stack[i] \in Frames(StackSize - i) /\ FrameOK(stack[i])
        BY <3>2 DEF UnpackOK, StackOK
      <4> QED
        BY <2>4, <3>2, <4>1
    <3>3. i \in 1..k
      BY <2>4
    <3> QED
      BY <2>5, <3>1, <3>2, <3>3
  <2>7. StackOK'
    <3>1. Len(stack') <= StackSize
      BY <1>3, <2>1, <2>3, <2>4
    <3> QED
      BY <2>4, <2>6, <3>1 DEF StackOK
  <2>8. last + 1 \in 1..(Len(buf) + 1)
    BY DEF UnpackOK
  <2> QED
    BY <1>3, <2>7, <2>8 DEF UnpackOK, Labels
<1> QED
  BY <1>1, <1>2, <1>3 DEF Start

LEMMA HeaderKeeps == UnpackOK /\ Header => UnpackOK'
<1> SUFFICES ASSUME UnpackOK, Header PROVE UnpackOK'
  OBVIOUS
<1> DEFINE b == buf[p]
<1>1. CASE p > Len(buf)
  BY <1>1, OutKeeps DEF Header
<1>2. CASE ~(p > Len(buf))
  <2>1. p \in 1..Len(buf) /\ b \in Byte /\ p + 1 \in 2..(Len(buf) + 1)
    BY <1>2 DEF UnpackOK
  <2>2. \/ b \in 0..127 /\ Value(Num(b), p)
        \/ b \in 128..143 /\ Start("map", b - 128, p)
        \/ b \in 144..159 /\ Start("array", b - 144, p)
        \/ b \in 160..191 /\ Expect("str", b - 160, p + 1)
        \/ b = 192 /\ Value(Nil, p)
        \/ b \in DOMAIN Trails /\ Expect(Trails[b].cs, Trails[b].n, p + 1)
        \/ b = 193 /\ Out("parse_error")
        \/ b \in 224..255 /\ Value(Num(b - 256), p)
    BY <1>2 DEF Header
  <2>3. ASSUME NEW d \in Int PROVE Num(d) \in Objects[StackSize - Len(stack)]
    <3>1. Num(d) \in Objects[0]
      BY ObjectsIs DEF Num, Leaf
    <3>2. Objects[0] \subseteq Objects[StackSize - Len(stack)]
      BY StackRoom, ObjectsGrow
    <3> QED
      BY <3>1, <3>2
  <2>4. CASE b \in 0..127 /\ Value(Num(b), p)
    <3>1. b \in Int
      BY <2>4, SMT
    <3> QED
      BY <2>1, <2>3, <2>4, <3>1, ValueKeeps, SMT
  <2>5. CASE b \in 128..143 /\ Start("map", b - 128, p)
    <3>1. b - 128 \in Nat
      BY <2>5, SMT
    <3> QED
      BY <2>1, <2>5, <3>1, StartKeeps, SMT
  <2>6. CASE b \in 144..159 /\ Start("array", b - 144, p)
    <3>1. b - 144 \in Nat
      BY <2>6, SMT
    <3> QED
      BY <2>1, <2>6, <3>1, StartKeeps, SMT
  <2>7. CASE b \in 160..191 /\ Expect("str", b - 160, p + 1)
    <3>1. b - 160 \in Nat
      BY <2>7, SMT
    <3> QED
      BY <2>1, <2>7, <3>1, ExpectKeeps, SMT
  <2>8. CASE b = 192 /\ Value(Nil, p)
    <3>1. Nil \in Objects[StackSize - Len(stack)]
      BY StackRoom, EmptyFits
    <3> QED
      BY <2>1, <2>8, <3>1, ValueKeeps
  <2>9. CASE b \in DOMAIN Trails /\ Expect(Trails[b].cs, Trails[b].n, p + 1)
    <3>1. Trails[b].cs \in {"float", "uint", "int", "str_n", "array", "map"} /\ Trails[b].n \in {1, 2, 4}
      BY <2>9 DEF Trails
    <3>2. Trails[b].cs \in {"float", "uint", "int", "str_n", "str", "array", "map"} /\ Trails[b].n \in Nat
      BY <3>1
    <3> QED
      BY <2>1, <2>9, <3>1, <3>2, ExpectKeeps
  <2>10. CASE b = 193 /\ Out("parse_error")
    BY <2>10, OutKeeps
  <2>11. CASE b \in 224..255 /\ Value(Num(b - 256), p)
    <3>1. b - 256 \in Int
      BY <2>11
    <3> QED
      BY <2>1, <2>3, <2>11, <3>1, ValueKeeps
  <2> QED
    BY <2>2, <2>4, <2>5, <2>6, <2>7, <2>8, <2>9, <2>10, <2>11
<1> QED
  BY <1>1, <1>2

\* A sequence without its last item.
LEMMA FrontOf ==
    ASSUME NEW S, NEW s \in Seq(S), s # <<>>
    PROVE  /\ Len(s) \in Nat \ {0} /\ Len(s) - 1 \in Nat
           /\ Front(s) \in Seq(S) /\ Len(Front(s)) = Len(s) - 1
           /\ \A i \in 1..(Len(s) - 1) : i \in 1..Len(s) /\ Front(s)[i] = s[i]
           /\ Last(s) = s[Len(s)] /\ Last(s) \in S
<1> DEFINE k == Len(s)
<1>1. k \in Nat \ {0} /\ \A i \in 1..k : s[i] \in S
  OBVIOUS
<1>2. k - 1 \in Int /\ k - 1 \in Nat /\ (k - 1) - 1 + 1 = k - 1 /\ (1 <= k - 1 \/ k - 1 = 0)
  BY <1>1
<1>3. \A i \in 1..(k - 1) : i \in 1..k /\ s[i] \in S
  BY <1>1
<1>4. /\ SubSeq(s, 1, k - 1) \in Seq(S)
      /\ Len(SubSeq(s, 1, k - 1)) = (IF 1 <= k - 1 THEN (k - 1) - 1 + 1 ELSE 0)
      /\ \A i \in 1..((k - 1) - 1 + 1) : SubSeq(s, 1, k - 1)[i] = s[1 + i - 1]
  BY <1>2, <1>3, SubSeqProperties
<1>5. Last(s) = s[k] /\ s[k] \in S
  BY <1>1 DEF Last
<1> HIDE DEF k
<1>6. Front(s) = SubSeq(s, 1, k - 1)
  BY DEF Front, k
<1>7. Len(Front(s)) = k - 1
  BY <1>2, <1>4, <1>6
<1>8. \A i \in 1..(k - 1) : Front(s)[i] = s[i]
  <2>1. \A i \in 1..(k - 1) : 1 + i - 1 = i
    BY <1>2
  <2> QED
    BY <1>2, <1>4, <1>6, <2>1
<1> QED
  BY <1>1, <1>2, <1>3, <1>4, <1>5, <1>6, <1>7, <1>8 DEF k

LEMMA LeafFits ==
    ASSUME UnpackOK, NEW o \in Leaf
    PROVE  o \in Objects[StackSize - Len(stack)]
<1>1. o \in Objects[0]
  BY ObjectsIs
<1>2. StackSize - Len(stack) \in Nat
  BY StackRoom
<1>3. Objects[0] \subseteq Objects[StackSize - Len(stack)]
  BY <1>2, ObjectsGrow
<1> QED
  BY <1>1, <1>3

LEMMA TrailKeeps == UnpackOK /\ Trail => UnpackOK'
<1> SUFFICES ASSUME UnpackOK, Trail PROVE UnpackOK'
  OBVIOUS
<1> DEFINE n == SubSeq(buf, p, p + trail - 1)
           last == p + trail - 1
<1>1. CASE last > Len(buf)
  BY <1>1, OutKeeps DEF Trail
<1>2. CASE ~(last > Len(buf))
  <2>1. buf \in Seq(Byte) /\ Len(buf) \in Nat /\ p \in Nat /\ p > 1 /\ trail \in Nat
        /\ (cs # "str" => trail \in {1, 2, 4})
    BY DEF UnpackOK, Trail
  <2>2. last \in Int /\ last <= Len(buf) /\ \A i \in p..last : buf[i] \in Byte
    BY <1>2, <2>1
  <2>3. n \in Seq(Byte) /\ Len(n) = (IF p <= last THEN last - p + 1 ELSE 0)
    BY <2>1, <2>2, SubSeqProperties
  <2>4. Len(n) = trail /\ last \in 1..Len(buf) /\ last + 1 \in 2..(Len(buf) + 1)
    BY <2>1, <2>2, <2>3
  <2>5. \/ cs = "float" /\ Value(Obj("float", n), last)
        \/ cs = "uint" /\ Value(Num(Load(n)), last)
        \/ cs = "int" /\ Value(Num(LoadSigned(n)), last)
        \/ cs = "str_n" /\ Expect("str", Load(n), last + 1)
        \/ cs = "str" /\ (Value(Obj("str", n), last) \/ Out("nomem"))
        \/ cs \in {"array", "map"} /\ Start(cs, Load(n), last)
    BY <1>2 DEF Trail
  <2> HIDE DEF n, last
  <2>6. ASSUME cs # "str" PROVE Load(n) \in Nat /\ LoadSigned(n) \in Int
    BY <2>1, <2>3, <2>4, <2>6, LoadIsNat
  <2>7. ASSUME NEW type \in {"float", "str"} PROVE Obj(type, n) \in Leaf
    BY <2>3, <2>7 DEF Leaf, Obj
  <2>8. \A d \in Int : Num(d) \in Leaf
    BY DEF Leaf, Num
  <2>9. CASE cs = "float" /\ Value(Obj("float", n), last)
    <3>1. Obj("float", n) \in Objects[StackSize - Len(stack)]
      BY <2>7, LeafFits
    <3> QED
      BY <2>4, <2>9, <3>1, ValueKeeps
  <2>10. CASE cs = "uint" /\ Value(Num(Load(n)), last)
    <3>1. Num(Load(n)) \in Objects[StackSize - Len(stack)]
      BY <2>6, <2>8, <2>10, LeafFits
    <3> QED
      BY <2>4, <2>10, <3>1, ValueKeeps
  <2>11. CASE cs = "int" /\ Value(Num(LoadSigned(n)), last)
    <3>1. Num(LoadSigned(n)) \in Objects[StackSize - Len(stack)]
      BY <2>6, <2>8, <2>11, LeafFits
    <3> QED
      BY <2>4, <2>11, <3>1, ValueKeeps
  <2>12. CASE cs = "str_n" /\ Expect("str", Load(n), last + 1)
    BY <2>4, <2>6, <2>12, ExpectKeeps
  <2>13. CASE cs = "str" /\ (Value(Obj("str", n), last) \/ Out("nomem"))
    <3>1. Obj("str", n) \in Objects[StackSize - Len(stack)]
      BY <2>7, LeafFits
    <3> QED
      BY <2>4, <2>13, <3>1, ValueKeeps, OutKeeps
  <2>14. CASE cs \in {"array", "map"} /\ Start(cs, Load(n), last)
    BY <2>4, <2>6, <2>14, StartKeeps
  <2> QED
    BY <2>5, <2>9, <2>10, <2>11, <2>12, <2>13, <2>14
<1> QED
  BY <1>1, <1>2

\* A container gets one item more.
LEMMA WithItemFits ==
    ASSUME UnpackOK, label = "push", stack # <<>>, Top.ct # "map"
    PROVE  WithItem \in Container(Objects[StackSize - Len(stack)]) /\ WithItem.type = Top.obj.type
<1> DEFINE k == Len(stack)
           S == Objects[StackSize - k]
<1>1. k \in 1..k /\ Top = stack[k]
  BY DEF UnpackOK, StackOK, Last, Top
<1>2. Top \in Frames(StackSize - k) /\ FrameOK(Top) /\ obj \in S
  BY <1>1 DEF UnpackOK, StackOK
<1>3. Top.obj \in Container(S) /\ Top.key \in S
  BY <1>2 DEF Frames
<1>4. CASE Top.ct = "array"
  <2>1. Top.obj.type = "array"
    BY <1>2, <1>4 DEF FrameOK
  <2>2. Top.obj \in [type : {"array"}, v : Seq(S)]
    BY <1>3, <2>1, ItemsOf
  <2>3. Append(Top.obj.v, obj) \in Seq(S)
    <3>1. Top.obj.v \in Seq(S) /\ obj \in S
      BY <1>2, <2>2
    <3> HIDE DEF S
    <3> QED
      BY <3>1, AppendProperties
  <2>4. [Top.obj EXCEPT !.v = Append(@, obj)] \in [type : {"array"}, v : Seq(S)]
        /\ [Top.obj EXCEPT !.v = Append(@, obj)].type = "array"
    BY <2>2, <2>3
  <2> QED
    BY <1>4, <2>1, <2>4 DEF WithItem, Container
<1>5. CASE Top.ct # "array"
  <2>1. Top.obj.type = "map"
    BY <1>2, <1>5 DEF FrameOK
  <2>2. Top.obj \in [type : {"map"}, v : Seq(S \X S)]
    BY <1>3, <2>1, ItemsOf
  <2>3. Append(Top.obj.v, <<Top.key, obj>>) \in Seq(S \X S)
    <3>1. Top.obj.v \in Seq(S \X S) /\ <<Top.key, obj>> \in S \X S
      BY <1>2, <1>3, <2>2
    <3> HIDE DEF S
    <3> QED
      BY <3>1, AppendProperties
  <2>4. [Top.obj EXCEPT !.v = Append(@, <<Top.key, obj>>)] \in [type : {"map"}, v : Seq(S \X S)]
        /\ [Top.obj EXCEPT !.v = Append(@, <<Top.key, obj>>)].type = "map"
    BY <2>2, <2>3
  <2> QED
    BY <1>5, <2>1, <2>4 DEF WithItem, Container
<1> QED
  BY <1>4, <1>5

\* The container on top is another one.
LEMMA FrameKeeps ==
    ASSUME UnpackOK, stack # <<>>, p < Len(buf) + 1, NEW frame \in Frames(StackSize - Len(stack)),
           FrameOK(frame), GoOnWith(frame), HeaderAgain
    PROVE  UnpackOK'
<1> DEFINE k == Len(stack)
<1>1. /\ stack' = Append(Front(stack), frame) /\ obj' = obj
      /\ p' = p + 1 /\ label' = "header" /\ cs' = "header" /\ buf' = buf /\ trail' = trail
  BY DEF GoOnWith, HeaderAgain
<1>2. stack \in Seq(Frames(StackSize)) /\ k \in Nat \ {0} /\ k <= StackSize /\ StackSize \in Nat
  BY StackAssumption DEF UnpackOK, StackOK
<1>3. /\ Front(stack) \in Seq(Frames(StackSize)) /\ Len(Front(stack)) = k - 1
      /\ \A i \in 1..(k - 1) : Front(stack)[i] = stack[i]
  BY <1>2, FrontOf
<1>4. frame \in Frames(StackSize)
  <2>1. StackSize - k \in Nat /\ StackSize - k <= StackSize
    BY <1>2
  <2>2. Objects[StackSize - k] \subseteq Objects[StackSize]
    BY <1>2, <2>1, ObjectsGrow
  <2>3. Container(Objects[StackSize - k]) \subseteq Container(Objects[StackSize])
    <3>1. Objects[StackSize - k] \X Objects[StackSize - k] \subseteq Objects[StackSize] \X Objects[StackSize]
      BY <2>2
    <3>2. /\ Seq(Objects[StackSize - k]) \subseteq Seq(Objects[StackSize])
          /\ Seq(Objects[StackSize - k] \X Objects[StackSize - k])
                \subseteq Seq(Objects[StackSize] \X Objects[StackSize])
      BY <2>2, <3>1, SeqMonotonic
    <3> QED
      BY <3>2 DEF Container
  <2> QED
    BY <2>2, <2>3 DEF Frames
<1>5. /\ stack' \in Seq(Frames(StackSize)) /\ Len(stack') = k
      /\ stack'[k] = frame /\ \A i \in 1..(k - 1) : stack'[i] = stack[i]
  <2>1. (k - 1) + 1 = k
    BY <1>2
  <2>2. /\ Append(Front(stack), frame) \in Seq(Frames(StackSize))
        /\ Len(Append(Front(stack), frame)) = Len(Front(stack)) + 1
        /\ \A i \in 1..Len(Front(stack)) : Append(Front(stack), frame)[i] = Front(stack)[i]
        /\ Append(Front(stack), frame)[Len(Front(stack)) + 1] = frame
    BY <1>3, <1>4, AppendProperties
  <2> QED
    BY <1>1, <1>3, <2>1, <2>2
<1>6. ASSUME NEW i \in 1..Len(stack') PROVE stack'[i] \in Frames(StackSize - i) /\ FrameOK(stack'[i])
  <2>1. i = k \/ i \in 1..(k - 1)
    BY <1>2, <1>5
  <2>2. i \in 1..(k - 1) => stack[i] \in Frames(StackSize - i) /\ FrameOK(stack[i])
    BY <1>2 DEF UnpackOK, StackOK
  <2> QED
    BY <1>5, <2>1, <2>2
<1>7. StackOK'
  BY <1>2, <1>5, <1>6 DEF StackOK
<1>8. p + 1 \in 1..(Len(buf) + 1)
  BY DEF UnpackOK
<1> QED
  BY <1>1, <1>7, <1>8 DEF UnpackOK, Labels

LEMMA PushKeeps == UnpackOK /\ Push => UnpackOK'
<1> SUFFICES ASSUME UnpackOK, Push PROVE UnpackOK'
  OBVIOUS
<1> DEFINE k == Len(stack)
<1>1. label = "push" /\ p \in 1..Len(buf) /\ buf \in Seq(Byte) /\ obj \in Objects[StackSize - k]
      /\ p + 1 \in 1..(Len(buf) + 1)
  BY DEF UnpackOK, Push
<1>2. CASE stack = <<>>
  <2>1. p' = p + 1 /\ label' = "finish" /\ UNCHANGED <<buf, cs, trail, stack, obj>>
    BY <1>2 DEF Push
  <2>2. StackOK'
    BY <2>1 DEF UnpackOK, StackOK
  <2> QED
    BY <1>1, <2>1, <2>2 DEF UnpackOK, Labels
<1>3. ASSUME stack # <<>>
      PROVE  /\ k \in Nat \ {0} /\ k <= StackSize /\ StackSize \in Nat
             /\ Top = stack[k] /\ Top \in Frames(StackSize - k) /\ FrameOK(Top)
  <2>1. k \in Nat \ {0} /\ k <= StackSize /\ StackSize \in Nat
    BY <1>3, StackAssumption DEF UnpackOK, StackOK
  <2>2. k \in 1..k /\ Top = stack[k]
    BY <2>1 DEF Top, Last
  <2> QED
    BY <2>1, <2>2 DEF UnpackOK, StackOK
<1>4. p < Len(buf) + 1
  BY <1>1
<1>5. CASE stack # <<>> /\ Top.ct = "map"
  <2> DEFINE frame == [Top EXCEPT !.ct = "value", !.key = obj]
  <2>1. GoOnWith(frame) /\ HeaderAgain
    BY <1>5 DEF Push
  <2>2. frame \in Frames(StackSize - k)
    BY <1>1, <1>3, <1>5 DEF Frames
  <2>3. frame.ct = "value" /\ frame.obj = Top.obj
    BY <1>3, <1>5 DEF Frames
  <2>4. FrameOK(frame)
    BY <1>3, <1>5, <2>3 DEF FrameOK
  <2> HIDE DEF frame
  <2> QED
    BY <1>4, <1>5, <2>1, <2>2, <2>4, FrameKeeps
<1>6. CASE stack # <<>> /\ Top.ct # "map" /\ Top.count = 1
  <2>1. obj' = WithItem /\ stack' = Front(stack) /\ UNCHANGED <<buf, p, label, cs, trail>>
    BY <1>6 DEF Push
  <2>2. k - 1 \in Nat /\ StackSize - (k - 1) = (StackSize - k) + 1 /\ StackSize - k \in Nat
        /\ StackSize - (k - 1) \in Nat /\ StackSize - (k - 1) <= StackSize
    BY <1>3, <1>6
  <2>3. WithItem \in Container(Objects[StackSize - k])
    BY <1>1, <1>6, WithItemFits
  <2>4. WithItem \in Objects[StackSize - (k - 1)]
    BY <2>2, <2>3, ObjectsIs
  <2>5. WithItem \in Objects[StackSize]
    <3>1. Objects[StackSize - (k - 1)] \subseteq Objects[StackSize]
      BY <1>3, <1>6, <2>2, ObjectsGrow
    <3> QED
      BY <2>4, <3>1
  <2>6. stack \in Seq(Frames(StackSize)) /\ k \in Nat
    BY <1>3, <1>6 DEF UnpackOK, StackOK
  <2>7. /\ stack' \in Seq(Frames(StackSize)) /\ Len(stack') = k - 1
        /\ \A i \in 1..(k - 1) : stack'[i] = stack[i]
    BY <1>6, <2>1, <2>6, FrontOf
  <2>8. ASSUME NEW i \in 1..Len(stack') PROVE stack'[i] \in Frames(StackSize - i) /\ FrameOK(stack'[i])
    <3>1. i \in 1..(k - 1) /\ i \in 1..k
      BY <2>2, <2>6, <2>7
    <3>2. stack[i] \in Frames(StackSize - i) /\ FrameOK(stack[i])
      BY <3>1 DEF UnpackOK, StackOK
    <3> QED
      BY <2>7, <3>1, <3>2
  <2>9. Len(stack') <= StackSize
    BY <1>3, <1>6, <2>2, <2>7
  <2>10. StackOK'
    BY <2>7, <2>8, <2>9 DEF StackOK
  <2> QED
    BY <1>1, <2>1, <2>4, <2>5, <2>7, <2>10 DEF UnpackOK, Labels
<1>7. CASE stack # <<>> /\ Top.ct # "map" /\ Top.count # 1
  <2> DEFINE frame == [Top EXCEPT !.obj = WithItem, !.count = Top.count - 1, !.ct = Top.obj.type]
  <2>1. GoOnWith(frame) /\ HeaderAgain
    BY <1>7 DEF Push
  <2>2. WithItem \in Container(Objects[StackSize - k]) /\ WithItem.type = Top.obj.type
    BY <1>1, <1>7, WithItemFits
  <2>3. Top \in Frames(StackSize - k) /\ Top.obj.type \in {"array", "map"}
    BY <1>3, <1>7 DEF FrameOK
  <2>4. Top.count - 1 \in Nat \ {0}
    BY <1>7, <2>3 DEF Frames
  <2>5. frame \in Frames(StackSize - k)
    BY <2>2, <2>3, <2>4 DEF Frames
  <2>6. frame.ct = Top.obj.type /\ frame.obj = WithItem
    BY <2>3 DEF Frames
  <2>7. FrameOK(frame)
    BY <2>2, <2>3, <2>6 DEF FrameOK
  <2> HIDE DEF frame
  <2> QED
    BY <1>4, <1>7, <2>1, <2>5, <2>7, FrameKeeps
<1> QED
  BY <1>2, <1>5, <1>6, <1>7

LEMMA ExecuteKeeps == UnpackOK /\ Execute => UnpackOK'
BY HeaderKeeps, TrailKeeps, PushKeeps DEF Execute

\* A new message begins behind what is left of the last one.
LEMMA BeginKeeps ==
    ASSUME NEW bytes \in Seq(Byte), Begin(bytes)
    PROVE  UnpackOK'
<1>1. /\ buf' = bytes /\ p' = 1 /\ label' = "header" /\ trail' = 0 /\ stack' = <<>> /\ obj' = Nil
  BY DEF Begin
<1>2. 1 \in 1..(Len(bytes) + 1)
  OBVIOUS
<1>3. Nil \in Objects[StackSize]
  BY StackAssumption, EmptyFits
<1>4. <<>> \in Seq(Frames(StackSize)) /\ Len(<<>>) = 0
  OBVIOUS
<1>5. StackOK'
  BY <1>1, <1>4, StackAssumption DEF StackOK
<1> QED
  BY <1>1, <1>2, <1>3, <1>5 DEF UnpackOK, Labels

LEMMA UnpackInitOK == UnpackInit => UnpackOK
<1> SUFFICES ASSUME UnpackInit PROVE UnpackOK
  OBVIOUS
<1>1. Nil \in Objects[StackSize]
  BY StackAssumption, EmptyFits
<1>2. <<>> \in Seq(Byte) /\ <<>> \in Seq(Frames(StackSize)) /\ Len(<<>>) = 0
  OBVIOUS
<1>3. StackOK
  BY <1>2, StackAssumption DEF UnpackInit, StackOK
<1>4. 1 \in 1..(0 + 1)
  OBVIOUS
<1> QED
  BY <1>1, <1>2, <1>3, <1>4 DEF UnpackInit, UnpackOK, Labels

LEMMA UnpackStays == UnpackOK /\ UNCHANGED unpack_vars => UnpackOK'
BY DEF UnpackOK, StackOK, unpack_vars
-----------------------------------------------------------------------------
(* What is packed *)

\* What G makes of x and f depends only on f for what has a lower rank than x.
ByRank(D, rank, V, G) ==
    /\ rank \in [D -> Nat] /\ V # {} /\ G \in [D \X [D -> V] -> V]
    /\ \A x \in D : \A f, g \in [D -> V] :
          (\A y \in D : rank[y] < rank[x] => f[y] = g[y]) => G[<<x, f>>] = G[<<x, g>>]

Solved(D, V, G) == \E f \in [D -> V] : \A x \in D : f[x] = G[<<x, f>>]

\* Something can be defined by what it is for whatever has a lower rank.
LEMMA RankRecursion ==
    ASSUME NEW D, NEW rank, NEW V, NEW G, ByRank(D, rank, V, G)
    PROVE  Solved(D, V, G)
<1>1. PICK v0 \in V : TRUE
  BY DEF ByRank
<1>2. rank \in [D -> Nat] /\ G \in [D \X [D -> V] -> V]
  BY DEF ByRank
<1>3. \A x \in D : \A f, g \in [D -> V] :
         (\A y \in D : rank[y] < rank[x] => f[y] = g[y]) => G[<<x, f>>] = G[<<x, g>>]
  BY DEF ByRank
<1> DEFINE W == [D -> V]
           step == [f \in W |-> [x \in D |-> G[<<x, f>>]]]
           none == [x \in D |-> v0]
<1>4. none \in W /\ step \in [W -> W]
  BY <1>2
<1>5. PICK F \in [Nat -> W] : Iterates(F, none, step)
  <2> HIDE DEF none, step, W
  <2> QED
    BY <1>4, Iteration
<1>6. ASSUME NEW n \in Nat, NEW x \in D PROVE F[n + 1][x] = G[<<x, F[n]>>]
  <2>1. F[n] \in W /\ F[n + 1] = step[F[n]]
    BY <1>5 DEF Iterates
  <2> QED
    BY <2>1
<1> HIDE DEF step, none
<1> DEFINE S == {n \in Nat : \A x \in D : rank[x] < n => F[n + 1][x] = F[n][x]}
<1>7. 0 \in S
  BY <1>2
<1>8. ASSUME NEW n \in Nat, n \in S PROVE n + 1 \in S
  <2> SUFFICES ASSUME NEW x \in D, rank[x] < n + 1 PROVE F[(n + 1) + 1][x] = F[n + 1][x]
    OBVIOUS
  <2>1. ASSUME NEW y \in D, rank[y] < rank[x] PROVE F[n + 1][y] = F[n][y]
    <3>1. rank[y] \in Nat /\ rank[x] \in Nat
      BY <1>2
    <3>2. rank[y] < n
      BY <2>1, <3>1
    <3> QED
      BY <1>8, <3>2
  <2>2. F[n] \in W /\ F[n + 1] \in W
    OBVIOUS
  <2>3. G[<<x, F[n + 1]>>] = G[<<x, F[n]>>]
    BY <1>3, <2>1, <2>2
  <2>4. n + 1 \in Nat
    OBVIOUS
  <2> QED
    BY <1>6, <2>3, <2>4
<1>9. \A n \in Nat : n \in S
  <2> HIDE DEF S
  <2> QED
    BY <1>7, <1>8, Inductively
<1>10. ASSUME NEW y \in D, NEW m \in Nat, rank[y] < m PROVE F[m][y] = F[rank[y] + 1][y]
  <2> DEFINE T == {n \in Nat : rank[y] < n => F[n][y] = F[rank[y] + 1][y]}
  <2>1. 0 \in T
    <3>1. rank[y] \in Nat
      BY <1>2
    <3> QED
      BY <3>1
  <2>2. ASSUME NEW n \in Nat, n \in T PROVE n + 1 \in T
    <3>1. rank[y] \in Nat /\ n + 1 \in Nat
      BY <1>2
    <3>2. ASSUME rank[y] < n PROVE F[n + 1][y] = F[rank[y] + 1][y]
      <4>1. F[n][y] = F[rank[y] + 1][y] /\ F[n + 1][y] = F[n][y]
        BY <1>9, <2>2, <3>2
      <4> HIDE DEF T
      <4> QED
        BY <4>1, Zenon
    <3>3. \A r \in Nat : ~(r < n) /\ r < n + 1 => r = n
      OBVIOUS
    <3>4. rank[y] < n + 1 => rank[y] < n \/ rank[y] = n
      BY <3>1, <3>3
    <3>5. rank[y] < n + 1 => F[n + 1][y] = F[rank[y] + 1][y]
      <4>1. rank[y] = n => F[n + 1][y] = F[rank[y] + 1][y]
        OBVIOUS
      <4> HIDE DEF T
      <4> QED
        BY <3>2, <3>4, <4>1, Zenon
    <3> QED
      BY <3>1, <3>5
  <2> HIDE DEF T
  <2>3. m \in T
    BY <2>1, <2>2, Inductively
  <2> QED
    BY <1>10, <2>3 DEF T
<1> DEFINE f == [x \in D |-> F[rank[x] + 1][x]]
<1>11. f \in W
  <2>1. ASSUME NEW x \in D PROVE F[rank[x] + 1][x] \in V
    <3>1. rank[x] + 1 \in Nat
      BY <1>2
    <3>2. F[rank[x] + 1] \in W
      BY <3>1
    <3> QED
      BY <3>2
  <2> QED
    BY <2>1
<1>12. ASSUME NEW x \in D PROVE f[x] = G[<<x, f>>]
  <2>1. rank[x] \in Nat /\ F[rank[x]] \in W
    BY <1>2
  <2>2. ASSUME NEW y \in D, rank[y] < rank[x] PROVE f[y] = F[rank[x]][y]
    BY <1>10, <2>1, <2>2
  <2> HIDE DEF f
  <2>3. G[<<x, f>>] = G[<<x, F[rank[x]]>>]
    BY <1>11, <1>3, <2>1, <2>2
  <2>4. f[x] = F[rank[x] + 1][x]
    BY DEF f
  <2> QED
    BY <1>6, <2>1, <2>3, <2>4
<1> QED
  BY <1>11, <1>12 DEF Solved

\* Sequences one after another: where each of them ends.
LEMMA FlattenIs ==
    ASSUME NEW S, NEW ss \in Seq(Seq(S))
    PROVE  \E f \in [0..Len(ss) -> Seq(S)] :
              /\ f[0] = <<>> /\ FlattenSeq(ss) = f[Len(ss)]
              /\ \A i \in 1..Len(ss) : f[i] = f[i - 1] \o ss[i]
<1> DEFINE n == Len(ss)
           D == 1..n
           V == Seq(S)
           rank == [i \in D |-> i]
           body(i, f) == IF i = 1 THEN ss[i] ELSE f[i - 1] \o ss[i]
           G == [e \in D \X [D -> V] |-> body(e[1], e[2])]
<1>1. n \in Nat /\ \A i \in D : ss[i] \in V
  OBVIOUS
<1>2. rank \in [D -> Nat] /\ <<>> \in V
  BY <1>1
<1>3. ASSUME NEW i \in D, NEW f \in [D -> V] PROVE body(i, f) \in V
  <2>1. CASE i = 1
    BY <1>1, <2>1
  <2>2. CASE i # 1
    <3>1. i - 1 \in D
      BY <1>1, <2>2
    <3>2. f[i - 1] \in V /\ ss[i] \in V
      BY <1>1, <3>1
    <3> QED
      BY <2>2, <3>2, ConcatProperties
  <2> QED
    BY <2>1, <2>2
<1>4. \A i \in D : \A f \in [D -> V] : G[<<i, f>>] = body(i, f)
  OBVIOUS
<1>5. G \in [D \X [D -> V] -> V]
  <2>1. ASSUME NEW e \in D \X [D -> V] PROVE body(e[1], e[2]) \in V
    <3>1. e[1] \in D /\ e[2] \in [D -> V]
      OBVIOUS
    <3> HIDE DEF body, D, V
    <3> QED
      BY <1>3, <3>1
  <2> HIDE DEF body, D, V
  <2> QED
    BY <2>1
<1>6. ASSUME NEW i \in D, NEW f \in [D -> V], NEW g \in [D -> V],
             \A y \in D : rank[y] < rank[i] => f[y] = g[y]
      PROVE  body(i, f) = body(i, g)
  <2>1. CASE i = 1
    BY <2>1
  <2>2. CASE i # 1
    <3>1. i - 1 \in D /\ i - 1 < i
      BY <1>1, <2>2
    <3>2. f[i - 1] = g[i - 1]
      BY <1>6, <3>1
    <3> QED
      BY <2>2, <3>2
  <2> QED
    BY <2>1, <2>2
<1>7. PICK f \in [D -> V] : \A i \in D : f[i] = body(i, f)
  <2> HIDE DEF body, G, rank, V, D
  <2>1. \A x \in D : \A f, g \in [D -> V] :
           (\A y \in D : rank[y] < rank[x] => f[y] = g[y]) => G[<<x, f>>] = G[<<x, g>>]
    <3> SUFFICES ASSUME NEW x \in D, NEW f \in [D -> V], NEW g \in [D -> V],
                        \A y \in D : rank[y] < rank[x] => f[y] = g[y]
                 PROVE  G[<<x, f>>] = G[<<x, g>>]
      OBVIOUS
    <3>1. body(x, f) = body(x, g)
      BY <1>6
    <3>2. G[<<x, f>>] = body(x, f) /\ G[<<x, g>>] = body(x, g)
      BY <1>4
    <3> QED
      BY <3>1, <3>2
  <2>2. Solved(D, V, G)
    <3>1. rank \in [D -> Nat]
      BY <1>2
    <3>2. <<>> \in V
      BY <1>2
    <3>3. ByRank(D, rank, V, G)
      BY <1>5, <2>1, <3>1, <3>2 DEF ByRank
    <3> QED
      BY <3>3, RankRecursion, Zenon
  <2> QED
    BY <1>4, <2>2 DEF Solved
<1> DEFINE Is(g) == g = [i \in D |-> body(i, g)]
           flatten == CHOOSE g : Is(g)
<1>8. n # 0 => FlattenSeq(ss) = flatten[n]
  BY DEF FlattenSeq
<1>9. Is(f)
  <2> HIDE DEF body, D
  <2> QED
    BY <1>7
<1>10. Is(flatten)
  <2> HIDE DEF Is
  <2> QED
    BY <1>9, Zenon
<1>11. ASSUME NEW i \in D PROVE flatten[i] = body(i, flatten)
  <2> HIDE DEF body, flatten
  <2> QED
    BY <1>10
<1> HIDE DEF flatten
<1>12. ASSUME NEW i \in D PROVE flatten[i] \in V
  <2> DEFINE T == {m \in Nat : m \in D => flatten[m] \in V}
  <2>1. 0 \in T
    OBVIOUS
  <2>2. ASSUME NEW m \in Nat, m \in T PROVE m + 1 \in T
    <3> SUFFICES ASSUME m + 1 \in D PROVE flatten[m + 1] \in V
      OBVIOUS
    <3>1. CASE m = 0
      <4>1. m + 1 = 1 /\ 1 \in D
        BY <3>1
      <4>2. flatten[1] = ss[1] /\ ss[1] \in V
        BY <1>1, <1>11, <4>1
      <4> QED
        BY <4>1, <4>2
    <3>2. CASE m # 0
      <4>1. m \in D /\ (m + 1) - 1 = m /\ m + 1 # 1
        BY <1>1, <3>2
      <4>2. flatten[m] \in V /\ ss[m + 1] \in V
        BY <1>1, <2>2, <4>1
      <4>3. flatten[m + 1] = flatten[m] \o ss[m + 1]
        BY <1>11, <4>1
      <4> QED
        BY <4>2, <4>3, ConcatProperties
    <3> QED
      BY <3>1, <3>2
  <2> HIDE DEF T
  <2>3. i \in Nat
    BY <1>1
  <2>4. i \in T
    BY <2>1, <2>2, <2>3, Inductively
  <2> QED
    BY <2>4 DEF T
<1> DEFINE h == [i \in 0..n |-> IF i = 0 THEN <<>> ELSE flatten[i]]
<1>13. h \in [0..n -> Seq(S)]
  <2>1. ASSUME NEW i \in 0..n PROVE i = 0 \/ i \in D
    BY <1>1
  <2> QED
    BY <1>2, <1>12, <2>1
<1>14. h[0] = <<>>
  BY <1>1
<1>15. FlattenSeq(ss) = h[n]
  <2>1. CASE n = 0
    <3>1. ss = <<>> /\ FlattenSeq(ss) = ss
      BY <2>1 DEF FlattenSeq
    <3> QED
      BY <2>1, <3>1
  <2>2. CASE n # 0
    BY <1>1, <1>8, <2>2
  <2> QED
    BY <2>1, <2>2
<1>16. ASSUME NEW i \in 1..n PROVE h[i] = h[i - 1] \o ss[i]
  <2>1. i \in 0..n /\ i - 1 \in 0..n /\ i # 0 /\ ss[i] \in Seq(S)
    BY <1>1
  <2>2. h[i] = flatten[i]
    BY <2>1
  <2>3. CASE i = 1
    <3>1. h[i] = ss[i] /\ h[i - 1] = <<>>
      BY <1>11, <2>1, <2>2, <2>3
    <3>2. <<>> \o ss[i] = ss[i]
      BY <2>1, ConcatEmptySeq
    <3> QED
      BY <3>1, <3>2
  <2>4. CASE i # 1
    <3>1. i - 1 # 0
      BY <1>1, <2>4
    <3>2. h[i - 1] = flatten[i - 1]
      BY <2>1, <3>1
    <3>3. flatten[i] = flatten[i - 1] \o ss[i]
      BY <1>11, <2>4
    <3> QED
      BY <2>2, <3>2, <3>3
  <2> QED
    BY <2>3, <2>4
<1> HIDE DEF h
<1> QED
  BY <1>13, <1>14, <1>15, <1>16


\* What is stored are bytes.
LEMMA StoreBytes ==
    ASSUME NEW d \in Int
    PROVE  Store1(d) \in Seq(Byte) /\ Store2(d) \in Seq(Byte) /\ Store4(d) \in Seq(Byte)
<1>1. \A i \in Int : i % 256 \in Byte
  BY SMT DEF Byte
<1>2. d \div 256 \in Int /\ d \div 65536 \in Int /\ d \div 16777216 \in Int
  BY SMT
<1> DEFINE a == d % 256
           b == (d \div 256) % 256
           c == (d \div 65536) % 256
           e == (d \div 16777216) % 256
<1>3. a \in Byte /\ b \in Byte /\ c \in Byte /\ e \in Byte
  BY <1>1, <1>2, SMT
<1>4. Store1(d) = <<a>> /\ Store2(d) = <<b, a>> /\ Store4(d) = <<e, c, b, a>>
  BY SMT DEF Store1, Store2, Store4
<1> HIDE DEF a, b, c, e
<1>5. <<a>> \in Seq(Byte) /\ <<b, a>> \in Seq(Byte) /\ <<e, c, b, a>> \in Seq(Byte)
  BY <1>3, SMT
<1> QED
  BY <1>4, <1>5, SMT

\* A first byte and what follows.
LEMMA FirstAnd ==
    ASSUME NEW b \in Byte, NEW s \in Seq(Byte)
    PROVE  <<b>> \in Seq(Byte) /\ <<b>> \o s \in Seq(Byte)
<1>1. <<b>> \in Seq(Byte)
  BY SMT
<1> HIDE DEF Byte
<1> QED
  BY <1>1, ConcatProperties

LEMMA PackIntBytes ==
    ASSUME NEW d \in Int
    PROVE  PackInt(d) \in Seq(Byte)
<1> DEFINE s1 == Store1(d)
           s2 == Store2(d)
           s4 == Store4(d)
           P == PackInt(d)
<1>1. \A b \in 204..210 : b \in Byte
  BY SMT DEF Byte
<1>2. s1 \in Seq(Byte) /\ s2 \in Seq(Byte) /\ s4 \in Seq(Byte)
  BY StoreBytes, SMT
<1>3. \/ P = s1 \/ P = <<204>> \o s1 \/ P = <<205>> \o s2 \/ P = <<206>> \o s4
      \/ P = <<208>> \o s1 \/ P = <<209>> \o s2 \/ P = <<210>> \o s4
  BY SMT DEF PackInt
<1>4. /\ <<204>> \o s1 \in Seq(Byte) /\ <<205>> \o s2 \in Seq(Byte) /\ <<206>> \o s4 \in Seq(Byte)
      /\ <<208>> \o s1 \in Seq(Byte) /\ <<209>> \o s2 \in Seq(Byte) /\ <<210>> \o s4 \in Seq(Byte)
  <2> HIDE DEF s1, s2, s4, P
  <2> QED
    BY <1>1, <1>2, FirstAnd, SMT
<1>5. P \in Seq(Byte)
  <2> DEFINE f1 == <<204>> \o s1
             f2 == <<205>> \o s2
             f3 == <<206>> \o s4
             f4 == <<208>> \o s1
             f5 == <<209>> \o s2
             f6 == <<210>> \o s4
  <2>1. P = s1 \/ P = f1 \/ P = f2 \/ P = f3 \/ P = f4 \/ P = f5 \/ P = f6
    BY <1>3
  <2>2. f1 \in Seq(Byte) /\ f2 \in Seq(Byte) /\ f3 \in Seq(Byte)
    BY <1>4
  <2>3. f4 \in Seq(Byte) /\ f5 \in Seq(Byte) /\ f6 \in Seq(Byte)
    BY <1>4
  <2> HIDE DEF s1, s2, s4, P, f1, f2, f3, f4, f5, f6
  <2> QED
    BY <1>2, <2>1, <2>2, <2>3, SMT
<1> QED
  BY <1>5

LEMMA PackHeads ==
    ASSUME NEW n \in Nat
    PROVE  PackArray(n) \in Seq(Byte) /\ PackMap(n) \in Seq(Byte)
<1>1. 220 \in Byte /\ 221 \in Byte /\ 222 \in Byte /\ 223 \in Byte
  BY SMT DEF Byte
<1> DEFINE s2 == Store2(n)
           s4 == Store4(n)
<1>2. s2 \in Seq(Byte) /\ s4 \in Seq(Byte)
  BY StoreBytes, SMT
<1>3. PackArray(n) = IF n < 16 THEN <<144 + n>>
                     ELSE IF n < 65536 THEN <<220>> \o s2 ELSE <<221>> \o s4
  BY SMT DEF PackArray
<1>4. PackMap(n) = IF n < 16 THEN <<128 + n>>
                   ELSE IF n < 65536 THEN <<222>> \o s2 ELSE <<223>> \o s4
  BY SMT DEF PackMap
<1> HIDE DEF s2, s4
<1>5. <<220>> \o s2 \in Seq(Byte) /\ <<221>> \o s4 \in Seq(Byte)
  BY <1>1, <1>2, FirstAnd, SMT
<1>6. <<222>> \o s2 \in Seq(Byte) /\ <<223>> \o s4 \in Seq(Byte)
  BY <1>1, <1>2, FirstAnd, SMT
<1>7. n < 16 => 144 + n \in Byte /\ 128 + n \in Byte
  BY SMT DEF Byte
<1>8. n < 16 => <<144 + n>> \in Seq(Byte) /\ <<128 + n>> \in Seq(Byte)
  BY <1>7, FirstAnd, SMT
<1>9. PackArray(n) \in Seq(Byte)
  BY <1>3, <1>5, <1>8, SMT
<1>10. PackMap(n) \in Seq(Byte)
  BY <1>4, <1>6, <1>8, SMT
<1> QED
  BY <1>9, <1>10, SMT

LEMMA StrHeadBytes ==
    ASSUME NEW l \in Nat
    PROVE  PackStrHead(l) \in Seq(Byte)
<1> DEFINE s1 == Store1(l)
           s2 == Store2(l)
           s4 == Store4(l)
           P == PackStrHead(l)
<1>1. (l < 32 => 160 + l \in Byte) /\ \A b \in 217..219 : b \in Byte
  BY SMT DEF Byte
<1>2. s1 \in Seq(Byte) /\ s2 \in Seq(Byte) /\ s4 \in Seq(Byte)
  BY StoreBytes, SMT
<1>3. (l < 32 /\ P = <<160 + l>>) \/ P = <<217>> \o s1 \/ P = <<218>> \o s2 \/ P = <<219>> \o s4
  BY SMT DEF PackStrHead
<1>4. /\ <<217>> \o s1 \in Seq(Byte) /\ <<218>> \o s2 \in Seq(Byte) /\ <<219>> \o s4 \in Seq(Byte)
  <2> HIDE DEF s1, s2, s4, P
  <2> QED
    BY <1>1, <1>2, FirstAnd, SMT
<1>5. l < 32 => <<160 + l>> \in Seq(Byte)
  BY <1>1, FirstAnd, SMT
<1>6. P \in Seq(Byte)
  <2> DEFINE f0 == <<160 + l>>
             f1 == <<217>> \o s1
             f2 == <<218>> \o s2
             f3 == <<219>> \o s4
  <2>1. (l < 32 /\ P = f0) \/ P = f1 \/ P = f2 \/ P = f3
    BY <1>3
  <2>2. (l < 32 => f0 \in Seq(Byte)) /\ f1 \in Seq(Byte) /\ f2 \in Seq(Byte) /\ f3 \in Seq(Byte)
    BY <1>4, <1>5
  <2> HIDE DEF s1, s2, s4, P, f0, f1, f2, f3
  <2> QED
    BY <2>1, <2>2, SMT
<1> QED
  BY <1>6

LEMMA PackStrBytes ==
    ASSUME NEW s \in Seq(Byte)
    PROVE  PackStr(s) \in Seq(Byte)
<1>1. PackStrHead(Len(s)) \in Seq(Byte)
  <2> HIDE DEF Byte
  <2>1. Len(s) \in Nat
    BY LenProperties
  <2> QED
    BY <2>1, StrHeadBytes, Zenon
<1>2. PackStr(s) = PackStrHead(Len(s)) \o s
  BY SMT DEF PackStr
<1> HIDE DEF Byte
<1> QED
  BY <1>1, <1>2, ConcatProperties

\* Sequences of bytes, one after another.
LEMMA FlattenBytes ==
    ASSUME NEW S, NEW ss \in Seq(Seq(S))
    PROVE  FlattenSeq(ss) \in Seq(S)
<1>1. PICK f \in [0..Len(ss) -> Seq(S)] : FlattenSeq(ss) = f[Len(ss)]
  BY FlattenIs
<1>2. Len(ss) \in Nat
  BY LenProperties
<1>3. Len(ss) \in 0..Len(ss)
  BY <1>2
<1> QED
  BY <1>1, <1>3

LEMMA PairsBytes ==
    ASSUME NEW keys \in Seq(Byte), NEW values \in Seq(Seq(Byte)), Len(values) = Len(keys)
    PROVE  PackPairs(keys, values) \in Seq(Byte)
<1> HIDE DEF Byte
<1> DEFINE pair(i) == PackStr(<<keys[i]>>) \o values[i]
           ss == [i \in DOMAIN keys |-> pair(i)]
<1>1. Len(keys) \in Nat /\ DOMAIN keys = 1..Len(keys) /\ DOMAIN values = 1..Len(keys)
  BY LenProperties
<1>2. ASSUME NEW i \in DOMAIN keys PROVE pair(i) \in Seq(Byte)
  <2>1. keys[i] \in Byte /\ values[i] \in Seq(Byte)
    BY <1>1, ElementOfSeq
  <2>2. <<keys[i]>> \in Seq(Byte)
    BY <2>1
  <2>3. PackStr(<<keys[i]>>) \in Seq(Byte)
    BY <2>2, PackStrBytes
  <2> QED
    BY <2>1, <2>3, ConcatProperties
<1>3. ss \in Seq(Seq(Byte))
  <2> HIDE DEF pair
  <2> QED
    BY <1>1, <1>2
<1>4. FlattenSeq(ss) \in Seq(Byte)
  <2> HIDE DEF ss
  <2> QED
    BY <1>3, FlattenBytes, Zenon
<1>5. PackMap(Len(keys)) \in Seq(Byte)
  BY <1>1, PackHeads, Zenon
<1>6. PackPairs(keys, values) = PackMap(Len(keys)) \o FlattenSeq(ss)
  BY DEF PackPairs
<1> HIDE DEF ss
<1> QED
  BY <1>4, <1>5, <1>6, ConcatProperties

\* What holds for x if it holds for all of a lower rank, holds for all.
LEMMA RankInduction ==
    ASSUME NEW D, NEW rank \in [D -> Nat], NEW T,
           \A x \in D : (\A y \in D : rank[y] < rank[x] => y \in T) => x \in T
    PROVE  \A x \in D : x \in T
<1> DEFINE S == {k \in Nat : \A x \in D : rank[x] < k => x \in T}
<1>1. 0 \in S
  OBVIOUS
<1>2. ASSUME NEW k \in Nat, k \in S PROVE k + 1 \in S
  <2>1. ASSUME NEW x \in D, rank[x] < k + 1 PROVE x \in T
    <3>1. ASSUME NEW y \in D, rank[y] < rank[x] PROVE y \in T
      <4>1. rank[x] \in Nat /\ rank[y] \in Nat
        OBVIOUS
      <4>2. rank[y] < k
        BY <2>1, <3>1, <4>1
      <4> QED
        BY <1>2, <4>2
    <3> QED
      BY <3>1
  <2> QED
    BY <2>1
<1>3. \A k \in Nat : k \in S
  <2> HIDE DEF S
  <2> QED
    BY <1>1, <1>2, Inductively
<1>4. ASSUME NEW x \in D PROVE x \in T
  <2>1. rank[x] + 1 \in Nat /\ rank[x] < rank[x] + 1
    OBVIOUS
  <2> QED
    BY <1>3, <2>1
<1> QED
  BY <1>4

LEMMA SmallTypes == Number \subseteq Nat /\ Str \subseteq Seq(Byte)
<1>1. Number \subseteq Nat
  BY SMT DEF Number
<1>2. Str \subseteq Seq(Byte)
  BY Zenon DEF Str
<1> QED
  BY <1>1, <1>2

LEMMA KeysAre ==
    /\ IpcKeys \in Seq(Byte) /\ DmKeys \in Seq(Byte) /\ TdKeys \in Seq(Byte)
    /\ Len(IpcKeys) = 2 /\ Len(DmKeys) = 5 /\ Len(TdKeys) = 12
<1>1. \A i \in 1..19 : i \in Byte
  BY SMT DEF Byte
<1>2. IpcKeys \in Seq(1..19) /\ DmKeys \in Seq(1..19) /\ TdKeys \in Seq(1..19)
  BY SMT DEF IpcKeys, DmKeys, TdKeys
<1>3. Len(IpcKeys) = 2 /\ Len(DmKeys) = 5 /\ Len(TdKeys) = 12
  BY SMT DEF IpcKeys, DmKeys, TdKeys
<1>4. \A s \in Seq(1..19) : s \in Seq(Byte)
  <2> HIDE DEF Byte
  <2> QED
    BY <1>1, SMT
<1> QED
  BY <1>2, <1>3, <1>4

LEMMA OrNilBytes ==
    ASSUME NEW v, NEW packed, v # Null => packed \in Seq(Byte)
    PROVE  OrNil(v, packed) \in Seq(Byte)
<1>1. PackNil \in Seq(Byte)
  <2>1. 192 \in Byte
    BY SMT DEF Byte
  <2> QED
    BY <2>1, FirstAnd, SMT DEF PackNil
<1> QED
  BY <1>1, Zenon DEF OrNil

LEMMA PackFieldBytes ==
    ASSUME NEW f \in Field, NEW td \in Seq(Byte)
    PROVE  PackField(f, td) \in Seq(Byte)
<1> DEFINE v1 == PackStr(f.name)
           v2 == PackInt(f.type)
           v3 == PackInt(f.flags)
           v4 == OrNil(f.external, PackStr(f.external))
           v5 == PackInt(f.off)
           v6 == PackInt(f.n_elems)
           v7 == PackInt(f.size)
           v8 == PackModuleOffset(f.ops)
           v9 == PackModuleOffset(f.func)
           va == PackInt(f.override)
           vb == PackFloat(f.tol)
           vs == <<v1, v2, v3, v4, v5, v6, v7, v8, v9, td, va, vb>>
<1>1. /\ f.name \in Str /\ f.external \in OrNull(Str) /\ f.ops \in OrNull(Number)
      /\ f.func \in OrNull(Number) /\ f.tol \in Seq(Byte)
  BY Zenon DEF Field
<1>2. /\ f.type \in Number /\ f.flags \in Number /\ f.off \in Number /\ f.n_elems \in Number
      /\ f.size \in Number /\ f.override \in Number
  BY Zenon DEF Field
<1>3. \A n \in Number : PackInt(n) \in Seq(Byte)
  BY SmallTypes, PackIntBytes, SMT
<1>4. \A s \in Str : PackStr(s) \in Seq(Byte)
  BY SmallTypes, PackStrBytes, Zenon
<1>5. v1 \in Seq(Byte) /\ v2 \in Seq(Byte) /\ v3 \in Seq(Byte)
  BY <1>1, <1>2, <1>3, <1>4, Zenon
<1>6. v4 \in Seq(Byte)
  BY <1>1, <1>4, OrNilBytes, Zenon DEF OrNull
<1>7. v5 \in Seq(Byte) /\ v6 \in Seq(Byte) /\ v7 \in Seq(Byte) /\ va \in Seq(Byte)
  BY <1>2, <1>3, Zenon
<1>8. v8 \in Seq(Byte) /\ v9 \in Seq(Byte)
  BY <1>1, <1>3, OrNilBytes, Zenon DEF OrNull, PackModuleOffset
<1>9. vb \in Seq(Byte)
  <2>1. 202 \in Byte
    BY SMT DEF Byte
  <2> QED
    BY <1>1, <2>1, FirstAnd, SMT DEF PackFloat
<1>10. PackField(f, td) = PackPairs(TdKeys, vs)
  BY DEF PackField
<1> HIDE DEF v1, v2, v3, v4, v5, v6, v7, v8, v9, va, vb
<1>11. vs \in Seq(Seq(Byte)) /\ Len(vs) = 12
  <2> HIDE DEF Byte
  <2> QED
    BY <1>5, <1>6, <1>7, <1>8, <1>9, SMT
<1> HIDE DEF vs
<1> QED
  BY <1>10, <1>11, KeysAre, PairsBytes, Zenon

-----------------------------------------------------------------------------
\* A datamap is packed, what it refers to being so already.
DmBytes(dm, f) ==
    LET fields ==
            IF dm.fields = <<EmptyDesc>> THEN PackArray(0)
            ELSE PackArray(Len(dm.fields)) \o
                 FlattenSeq([i \in DOMAIN dm.fields |->
                                PackField(dm.fields[i], OrNil(dm.fields[i].td, f[dm.fields[i].td]))])
    IN  PackPairs(DmKeys, <<PackStr(dm.name), PackStr(dm.module), PackModuleOffset(dm.off),
                            OrNil(dm.base, f[dm.base]), fields>>)

\* Its fields, if they are not the one of an empty datamap.
LEMMA FieldsAre ==
    ASSUME NEW dm \in Datamap
    PROVE  /\ dm.fields = <<EmptyDesc>> \/ dm.fields \in Seq(Field)
           /\ dm.name \in Str /\ dm.module \in Str /\ dm.off \in Number /\ dm.base \in OrNull(Datamap)
<1>1. dm \in [name : Str, module : Str, off : Number, base : OrNull(Datamap),
              fields : Seq(Field) \cup {<<EmptyDesc>>}]
  BY DatamapAssumption, Zenon
<1> HIDE DEF Field, EmptyDesc
<1> QED
  BY <1>1

LEMMA DmBytesIsBytes ==
    ASSUME NEW dm \in Datamap, NEW f \in [Datamap -> Seq(Byte)]
    PROVE  DmBytes(dm, f) \in Seq(Byte)
<1> HIDE DEF Byte
<1> DEFINE item(i) == PackField(dm.fields[i], OrNil(dm.fields[i].td, f[dm.fields[i].td]))
           items == [i \in DOMAIN dm.fields |-> item(i)]
           fields == IF dm.fields = <<EmptyDesc>> THEN PackArray(0)
                     ELSE PackArray(Len(dm.fields)) \o FlattenSeq(items)
           vs == <<PackStr(dm.name), PackStr(dm.module), PackModuleOffset(dm.off),
                   OrNil(dm.base, f[dm.base]), fields>>
<1>1. fields \in Seq(Byte)
  <2>1. CASE dm.fields = <<EmptyDesc>>
    <3>1. PackArray(0) \in Seq(Byte)
      BY PackHeads
    <3> QED
      BY <2>1, <3>1
  <2>2. CASE dm.fields # <<EmptyDesc>>
    <3>1. dm.fields \in Seq(Field)
      BY <2>2, FieldsAre
    <3>2. Len(dm.fields) \in Nat /\ DOMAIN dm.fields = 1..Len(dm.fields)
      BY <3>1, LenProperties
    <3>3. ASSUME NEW i \in DOMAIN dm.fields PROVE item(i) \in Seq(Byte)
      <4>1. dm.fields[i] \in Field
        BY <3>1, <3>2, ElementOfSeq
      <4>2. dm.fields[i].td \in OrNull(Datamap)
        BY <4>1, Zenon DEF Field
      <4>3. dm.fields[i].td # Null => f[dm.fields[i].td] \in Seq(Byte)
        BY <4>2 DEF OrNull
      <4>4. OrNil(dm.fields[i].td, f[dm.fields[i].td]) \in Seq(Byte)
        BY <4>3, OrNilBytes, Zenon
      <4> QED
        BY <4>1, <4>4, PackFieldBytes, Zenon
    <3>4. items \in Seq(Seq(Byte))
      <4> HIDE DEF item
      <4> QED
        BY <3>2, <3>3
    <3>5. FlattenSeq(items) \in Seq(Byte)
      <4> HIDE DEF items
      <4> QED
        BY <3>4, FlattenBytes, Zenon
    <3>6. PackArray(Len(dm.fields)) \in Seq(Byte)
      BY <3>2, PackHeads, Zenon
    <3>7. fields = PackArray(Len(dm.fields)) \o FlattenSeq(items)
      BY <2>2
    <3> HIDE DEF items, fields
    <3> QED
      BY <3>5, <3>6, <3>7, ConcatProperties
  <2> QED
    BY <2>1, <2>2
<1>2. PackStr(dm.name) \in Seq(Byte) /\ PackStr(dm.module) \in Seq(Byte)
  <2>1. dm.name \in Seq(Byte) /\ dm.module \in Seq(Byte)
    BY FieldsAre, SmallTypes
  <2> QED
    BY <2>1, PackStrBytes
<1>3. PackModuleOffset(dm.off) \in Seq(Byte)
  <2>1. dm.off \in Int
    <3>1. dm.off \in Number
      BY FieldsAre
    <3>2. dm.off \in Nat
      BY <3>1, SmallTypes, Zenon
    <3> QED
      BY <3>2
  <2>2. PackInt(dm.off) \in Seq(Byte)
    BY <2>1, PackIntBytes
  <2> QED
    BY <2>2, OrNilBytes, Zenon DEF PackModuleOffset
<1>4. OrNil(dm.base, f[dm.base]) \in Seq(Byte)
  <2>1. dm.base # Null => f[dm.base] \in Seq(Byte)
    BY FieldsAre DEF OrNull
  <2> QED
    BY <2>1, OrNilBytes, Zenon
<1>5. DmBytes(dm, f) = PackPairs(DmKeys, vs)
  BY DEF DmBytes
<1> HIDE DEF fields
<1>6. vs \in Seq(Seq(Byte)) /\ Len(vs) = 5
  BY <1>1, <1>2, <1>3, <1>4, SMT
<1> HIDE DEF vs
<1> QED
  BY <1>5, <1>6, KeysAre, PairsBytes, Zenon

LEMMA DmBytesByRank ==
    ASSUME NEW dm \in Datamap, NEW f, NEW g, \A e \in Datamap : Rank[e] < Rank[dm] => f[e] = g[e]
    PROVE  DmBytes(dm, f) = DmBytes(dm, g)
<1>1. /\ dm.base # Null => Rank[dm.base] < Rank[dm]
      /\ \A i \in DOMAIN dm.fields : dm.fields[i].td # Null => Rank[dm.fields[i].td] < Rank[dm]
  BY DatamapAssumption, Zenon
<1> DEFINE item(i, h) == PackField(dm.fields[i], OrNil(dm.fields[i].td, h[dm.fields[i].td]))
           items(h) == [i \in DOMAIN dm.fields |-> item(i, h)]
           base(h) == OrNil(dm.base, h[dm.base])
<1>2. base(f) = base(g)
  <2>1. dm.base # Null => f[dm.base] = g[dm.base]
    BY <1>1, FieldsAre DEF OrNull
  <2> QED
    BY <2>1 DEF OrNil
<1>3. dm.fields # <<EmptyDesc>> => items(f) = items(g)
  <2> SUFFICES ASSUME dm.fields # <<EmptyDesc>> PROVE items(f) = items(g)
    OBVIOUS
  <2>1. dm.fields \in Seq(Field)
    BY FieldsAre
  <2>2. ASSUME NEW i \in DOMAIN dm.fields PROVE item(i, f) = item(i, g)
    <3>1. dm.fields[i] \in Field
      BY <2>1, LenProperties, ElementOfSeq
    <3>2. dm.fields[i].td \in OrNull(Datamap)
      BY <3>1, Zenon DEF Field
    <3>3. dm.fields[i].td # Null => f[dm.fields[i].td] = g[dm.fields[i].td]
      BY <1>1, <3>2 DEF OrNull
    <3>4. OrNil(dm.fields[i].td, f[dm.fields[i].td]) = OrNil(dm.fields[i].td, g[dm.fields[i].td])
      BY <3>3 DEF OrNil
    <3> QED
      BY <3>4, Zenon
  <2> HIDE DEF item
  <2> QED
    BY <2>2
<1> DEFINE fields(h) == IF dm.fields = <<EmptyDesc>> THEN PackArray(0)
                        ELSE PackArray(Len(dm.fields)) \o FlattenSeq(items(h))
<1>4. fields(f) = fields(g)
  <2> HIDE DEF items
  <2> QED
    BY <1>3, Zenon
<1>5. \A h : DmBytes(dm, h) = PackPairs(DmKeys, <<PackStr(dm.name), PackStr(dm.module),
                                 PackModuleOffset(dm.off), base(h), fields(h)>>)
  BY DEF DmBytes
<1> HIDE DEF base, fields
<1> QED
  BY <1>2, <1>4, <1>5

\* How datamaps are packed is what packs each of them.
LEMMA PackDmIs ==
    /\ PackDm \in [Datamap -> Seq(Byte)]
    /\ \A dm \in Datamap : PackDm[dm] = DmBytes(dm, PackDm)
<1> HIDE DEF Byte
<1> DEFINE V == Seq(Byte)
           G == [e \in Datamap \X [Datamap -> V] |-> DmBytes(e[1], e[2])]
<1>1. \A dm \in Datamap : \A f \in [Datamap -> V] : G[<<dm, f>>] = DmBytes(dm, f)
  OBVIOUS
<1>2. ByRank(Datamap, Rank, V, G)
  <2>1. Rank \in [Datamap -> Nat]
    BY DatamapAssumption, Zenon
  <2>2. V # {}
    BY EmptySeq
  <2>3. G \in [Datamap \X [Datamap -> V] -> V]
    <3>1. \A e \in Datamap \X [Datamap -> V] : DmBytes(e[1], e[2]) \in V
      BY DmBytesIsBytes
    <3> HIDE DEF V
    <3> QED
      BY <3>1
  <2>4. ASSUME NEW dm \in Datamap, NEW f \in [Datamap -> V], NEW g \in [Datamap -> V],
               \A e \in Datamap : Rank[e] < Rank[dm] => f[e] = g[e]
        PROVE  G[<<dm, f>>] = G[<<dm, g>>]
    <3>1. DmBytes(dm, f) = DmBytes(dm, g)
      BY <2>4, DmBytesByRank
    <3> QED
      BY <1>1, <3>1
  <2> HIDE DEF V, G
  <2> QED
    BY <2>1, <2>2, <2>3, <2>4 DEF ByRank
<1>3. PICK f \in [Datamap -> V] : \A dm \in Datamap : f[dm] = DmBytes(dm, f)
  <2> HIDE DEF V, G
  <2>1. Solved(Datamap, V, G)
    BY <1>2, RankRecursion, Zenon
  <2> QED
    BY <1>1, <2>1 DEF Solved
<1> DEFINE Is(g) == g = [dm \in Datamap |-> DmBytes(dm, g)]
<1>4. PackDm = CHOOSE g : Is(g)
  BY DEF PackDm, DmBytes
<1>5. Is(f)
  BY <1>3
<1>6. Is(PackDm)
  <2> HIDE DEF Is
  <2> QED
    BY <1>4, <1>5, Zenon
<1>7. \A dm \in Datamap : PackDm[dm] = DmBytes(dm, PackDm)
  BY <1>6
<1> DEFINE T == {dm \in Datamap : PackDm[dm] = f[dm]}
<1>8. \A dm \in Datamap : dm \in T
  <2>1. ASSUME NEW dm \in Datamap, \A e \in Datamap : Rank[e] < Rank[dm] => e \in T PROVE dm \in T
    <3>1. DmBytes(dm, PackDm) = DmBytes(dm, f)
      BY <2>1, DmBytesByRank
    <3> QED
      BY <1>3, <1>7, <3>1
  <2>2. Rank \in [Datamap -> Nat]
    BY DatamapAssumption, Zenon
  <2> HIDE DEF T
  <2> QED
    BY <2>1, <2>2, RankInduction
<1>9. \A dm \in Datamap : PackDm[dm] \in V
  BY <1>8
<1> QED
  <2>1. PackDm \in [Datamap -> V]
    <3> HIDE DEF V
    <3> QED
      BY <1>6, <1>9
  <2> QED
    BY <1>7, <2>1, Zenon

\* The number of a type stands for it.
LEMMA TypeNumIs ==
    ASSUME NEW i \in 1..6
    PROVE  TypeNum(MsgTypes[i]) = i - 1
<1>1. /\ MsgTypes[1] = "HELLO" /\ MsgTypes[2] = "DATAMAP" /\ MsgTypes[3] = "LINKED_NAME"
      /\ MsgTypes[4] = "LOG_INFO" /\ MsgTypes[5] = "LOG_ERROR" /\ MsgTypes[6] = "GOODBYE"
      /\ DOMAIN MsgTypes = 1..6
  BY DEF MsgTypes
<1>2. \A j \in 1..6 : MsgTypes[j] = MsgTypes[i] => j = i
  BY <1>1
<1> DEFINE c == CHOOSE j \in DOMAIN MsgTypes : MsgTypes[j] = MsgTypes[i]
<1>3. c \in 1..6 /\ MsgTypes[c] = MsgTypes[i]
  <2>1. \E j \in DOMAIN MsgTypes : MsgTypes[j] = MsgTypes[i]
    BY <1>1, Zenon
  <2> QED
    BY <1>1, <2>1, Zenon
<1>4. c = i
  BY <1>2, <1>3
<1>5. TypeNum(MsgTypes[i]) = c - 1
  BY DEF TypeNum
<1> HIDE DEF c
<1> QED
  BY <1>4, <1>5

\* What the payload sends, in numbers.
LEMMA TypesAre ==
    ASSUME NEW m \in Message
    PROVE  \/ m.type = "raw" /\ m.data \in Seq(Byte)
           \/ m.type \in {"HELLO", "GOODBYE"} /\ m.data = Null
           \/ m.type \in {"LOG_INFO", "LOG_ERROR"} /\ m.data \in Str
           \/ m.type = "DATAMAP" /\ m.data \in Datamap
           \/ /\ m.type = "LINKED_NAME" /\ m.data \in Seq(Str \X Str)
              /\ Len(m.data) \in Number \ {0}
BY Zenon DEF Message

LEMMA TypeNums ==
    ASSUME NEW t \in {"HELLO", "DATAMAP", "LINKED_NAME", "LOG_INFO", "LOG_ERROR", "GOODBYE"}
    PROVE  TypeNum(t) \in 0..5 /\ MsgTypes[TypeNum(t) + 1] = t
<1>1. \E i \in 1..6 : MsgTypes[i] = t
  BY DEF MsgTypes
<1>2. PICK i \in 1..6 : MsgTypes[i] = t
  BY <1>1
<1>3. TypeNum(t) = i - 1
  BY <1>2, TypeNumIs
<1> QED
  BY <1>2, <1>3

LEMMA PackMsgBytes ==
    ASSUME NEW m \in Message
    PROVE  PackMsg(m) \in Seq(Byte)
<1> HIDE DEF Byte
<1> DEFINE With(data) == PackPairs(IpcKeys, <<PackInt(TypeNum(m.type)), data>>)
           pair(i) == PackStr(m.data[i][1]) \o PackStr(m.data[i][2])
           ss == [i \in DOMAIN m.data |-> pair(i)]
           linked == PackMap(Len(m.data)) \o FlattenSeq(ss)
<1>1. ASSUME NEW data \in Seq(Byte), m.type # "raw" PROVE With(data) \in Seq(Byte)
  <2>1. TypeNum(m.type) \in 0..5
    <3>1. m.type \in {"HELLO", "DATAMAP", "LINKED_NAME", "LOG_INFO", "LOG_ERROR", "GOODBYE"}
      BY <1>1, TypesAre, Zenon
    <3> QED
      BY <3>1, TypeNums
  <2>2. TypeNum(m.type) \in Int
    BY <2>1
  <2>3. PackInt(TypeNum(m.type)) \in Seq(Byte)
    BY <2>2, PackIntBytes
  <2> DEFINE vs == <<PackInt(TypeNum(m.type)), data>>
  <2>4. vs \in Seq(Seq(Byte)) /\ Len(vs) = 2
    BY <2>3
  <2>5. With(data) = PackPairs(IpcKeys, vs)
    OBVIOUS
  <2> HIDE DEF vs, With
  <2> QED
    BY <2>4, <2>5, KeysAre, PairsBytes, Zenon
<1>2. CASE m.type = "raw"
  BY <1>2, TypesAre DEF PackMsg
<1>3. CASE m.type \in {"HELLO", "GOODBYE"}
  <2>1. OrNil(Null, PackNil) \in Seq(Byte)
    BY OrNilBytes, Zenon
  <2>2. PackNil \in Seq(Byte)
    BY <2>1 DEF OrNil
  <2>3. PackMsg(m) = With(PackNil) /\ m.type # "raw"
    BY <1>3 DEF PackMsg
  <2> HIDE DEF With
  <2> QED
    BY <1>1, <2>2, <2>3
<1>4. CASE m.type \in {"LOG_INFO", "LOG_ERROR"}
  <2>1. m.data \in Str
    BY <1>4, TypesAre
  <2>2. m.data \in Seq(Byte)
    BY <2>1, SmallTypes, Zenon
  <2>3. PackStr(m.data) \in Seq(Byte)
    BY <2>2, PackStrBytes
  <2>4. PackMsg(m) = With(PackStr(m.data)) /\ m.type # "raw"
    BY <1>4 DEF PackMsg
  <2> HIDE DEF With
  <2> QED
    BY <1>1, <2>3, <2>4
<1>5. CASE m.type = "DATAMAP"
  <2>1. m.data \in Datamap
    BY <1>5, TypesAre
  <2>2. PackDm[m.data] \in Seq(Byte)
    BY <2>1, PackDmIs
  <2>3. PackMsg(m) = With(PackDm[m.data]) /\ m.type # "raw"
    BY <1>5 DEF PackMsg
  <2> HIDE DEF With
  <2> QED
    BY <1>1, <2>2, <2>3
<1>6. CASE m.type = "LINKED_NAME"
  <2>1. m.data \in Seq(Str \X Str)
    BY <1>6, TypesAre
  <2>2. Len(m.data) \in Nat /\ DOMAIN m.data = 1..Len(m.data)
    BY <2>1, LenProperties
  <2>3. ASSUME NEW i \in DOMAIN m.data PROVE pair(i) \in Seq(Byte)
    <3>1. m.data[i] \in Str \X Str
      BY <2>1, <2>2, ElementOfSeq
    <3>2. m.data[i][1] \in Seq(Byte) /\ m.data[i][2] \in Seq(Byte)
      BY <3>1, SmallTypes
    <3>3. PackStr(m.data[i][1]) \in Seq(Byte) /\ PackStr(m.data[i][2]) \in Seq(Byte)
      BY <3>2, PackStrBytes
    <3> QED
      BY <3>3, ConcatProperties
  <2>4. ss \in Seq(Seq(Byte))
    <3> HIDE DEF pair
    <3> QED
      BY <2>2, <2>3
  <2>5. FlattenSeq(ss) \in Seq(Byte)
    <3> HIDE DEF ss
    <3> QED
      BY <2>4, FlattenBytes, Zenon
  <2>6. PackMap(Len(m.data)) \in Seq(Byte)
    BY <2>2, PackHeads, Zenon
  <2>7. linked \in Seq(Byte)
    <3> HIDE DEF ss
    <3> QED
      BY <2>5, <2>6, ConcatProperties
  <2>8. PackMsg(m) = With(linked) /\ m.type # "raw"
    BY <1>6 DEF PackMsg
  <2> HIDE DEF With, linked
  <2> QED
    BY <1>1, <2>7, <2>8
<1> QED
  BY <1>2, <1>3, <1>4, <1>5, <1>6, TypesAre
-----------------------------------------------------------------------------
(* What the exe checks of a datamap *)

\* The value of a pair of a map is an item of it, and so is the key.
LEMMA PairsOf ==
    ASSUME NEW x, x.type = "map", NEW i \in DOMAIN x.v
    PROVE  x.v[i][1] \in Items(x) /\ At(x, i) \in Items(x)
<1>1. 1 \in 1..2 /\ 2 \in 1..2
  OBVIOUS
<1>2. Items(x) = {x.v[j][k] : j \in DOMAIN x.v, k \in 1..2}
  BY DEF Items
<1> QED
  BY <1>1, <1>2 DEF At

\* A number that is positive is natural.
LEMMA PositiveIs ==
    ASSUME NEW n \in Nat, NEW x \in Objects[n], x.type = "positive"
    PROVE  IsNum(x)
<1>1. x \in Leaf
  <2>1. CASE n = 0
    BY <2>1, ObjectsIs
  <2>2. CASE n # 0
    <3>1. n - 1 \in Nat /\ (n - 1) + 1 = n
      BY <2>2
    <3>2. Objects[n] = Leaf \cup Container(Objects[n - 1])
      BY <3>1, ObjectsIs
    <3>3. x \notin Container(Objects[n - 1])
      BY DEF Container
    <3> QED
      BY <3>2, <3>3
  <2> QED
    BY <2>1, <2>2
<1>2. x \in [type : {"positive"}, v : Nat]
  BY <1>1 DEF Leaf, Nil
<1> QED
  BY <1>2 DEF IsNum

LEMMA SchemasAre ==
    /\ DOMAIN DmSchema = 1..5 /\ Len(DmSchema) = 5 /\ DOMAIN TdSchema = 1..12 /\ Len(TdSchema) = 12
    /\ DmSchema[1] = {"str"} /\ DmSchema[2] = {"str"} /\ DmSchema[3] = {"positive"}
    /\ DmSchema[4] = {"map", "nil"} /\ DmSchema[5] = {"array"}
    /\ TdSchema[1] = {"str"} /\ TdSchema[4] = {"str", "nil"} /\ TdSchema[12] = {"float"}
    /\ TdSchema[2] = {"positive"} /\ TdSchema[3] = {"positive"} /\ TdSchema[5] = {"positive"}
    /\ TdSchema[6] = {"positive"} /\ TdSchema[7] = {"positive"} /\ TdSchema[11] = {"positive"}
    /\ TdSchema[8] = {"positive", "nil"} /\ TdSchema[9] = {"positive", "nil"}
    /\ TdSchema[10] = {"map", "nil"}
BY DEF DmSchema, TdSchema

\* The types of what is in a map for a datamap and of what is in one for a field.
LEMMA DmTypes ==
    ASSUME NEW x, CheckKvSchema(x, DmKeys, DmSchema)
    PROVE  /\ x.type = "map" /\ Len(x.v) = 5 /\ \A i \in 1..5 : x.v[i][1].type = "str"
           /\ At(x, 1).type = "str" /\ At(x, 2).type = "str" /\ At(x, 3).type = "positive"
           /\ At(x, 4).type \in {"map", "nil"} /\ At(x, 5).type = "array"
<1>1. /\ x.type = "map" /\ Len(x.v) = 5
      /\ \A i \in 1..5 : x.v[i][1].type = "str" /\ (DmSchema[i] = {} \/ x.v[i][2].type \in DmSchema[i])
  BY SchemasAre DEF CheckKvSchema
<1>2. \A i \in 1..5 : DmSchema[i] = {} \/ At(x, i).type \in DmSchema[i]
  BY <1>1 DEF At
<1>3. 1 \in 1..5 /\ 2 \in 1..5 /\ 3 \in 1..5 /\ 4 \in 1..5 /\ 5 \in 1..5
  OBVIOUS
<1> QED
  BY <1>1, <1>2, <1>3, SchemasAre

LEMMA TdTypes ==
    ASSUME NEW x, CheckKvSchema(x, TdKeys, TdSchema)
    PROVE  /\ x.type = "map" /\ Len(x.v) = 12 /\ \A i \in 1..12 : x.v[i][1].type = "str"
           /\ At(x, 1).type = "str" /\ At(x, 4).type \in {"str", "nil"}
           /\ \A i \in {2, 3, 5, 6, 7, 11} : At(x, i).type = "positive"
           /\ \A i \in {8, 9} : At(x, i).type \in {"positive", "nil"}
           /\ At(x, 10).type \in {"map", "nil"} /\ At(x, 12).type = "float"
<1>1. /\ x.type = "map" /\ Len(x.v) = 12
      /\ \A i \in 1..12 : x.v[i][1].type = "str" /\ (TdSchema[i] = {} \/ x.v[i][2].type \in TdSchema[i])
  BY SchemasAre DEF CheckKvSchema
<1>2. \A i \in 1..12 : TdSchema[i] = {} \/ At(x, i).type \in TdSchema[i]
  BY <1>1 DEF At
<1>3. At(x, 1).type = "str" /\ At(x, 4).type \in {"str", "nil"}
  <2>1. 1 \in 1..12 /\ 4 \in 1..12
    OBVIOUS
  <2> QED
    BY <1>2, <2>1, SchemasAre
<1>4. \A i \in {2, 3, 5, 6, 7, 11} : At(x, i).type = "positive"
  <2>1. \A i \in {2, 3, 5, 6, 7, 11} : i \in 1..12 /\ TdSchema[i] = {"positive"}
    BY SchemasAre
  <2> QED
    BY <1>2, <2>1
<1>5. \A i \in {8, 9} : At(x, i).type \in {"positive", "nil"}
  <2>1. \A i \in {8, 9} : i \in 1..12 /\ TdSchema[i] = {"positive", "nil"}
    BY SchemasAre
  <2> QED
    BY <1>2, <2>1
<1>6. At(x, 10).type \in {"map", "nil"} /\ At(x, 12).type = "float"
  <2>1. 10 \in 1..12 /\ 12 \in 1..12
    OBVIOUS
  <2> QED
    BY <1>2, <2>1, SchemasAre
<1> QED
  BY <1>1, <1>3, <1>4, <1>5, <1>6

\* What a datamap refers to.
Refs(d) == {At(d, 4)} \cup Embedded(d)

\* Where the fields of a datamap are.
LEMMA FieldsOf ==
    ASSUME NEW o \in Objects[StackSize], NEW d \in Inside(o), CheckDatamap(d)
    PROVE  /\ d.type = "map" /\ Len(d.v) = 5 /\ DOMAIN d.v = 1..5 /\ At(d, 5) \in Inside(o)
           /\ At(d, 5).type = "array"
           /\ \A i \in DOMAIN At(d, 5).v :
                 At(d, 5).v[i] \in Inside(o) /\ CheckKvSchema(At(d, 5).v[i], TdKeys, TdSchema)
           /\ \A e \in Refs(d) : e.type # "nil" => e \in Inside(o) /\ e.type = "map"
<1>1. CheckKvSchema(d, DmKeys, DmSchema)
      /\ \A i \in DOMAIN At(d, 5).v : CheckKvSchema(At(d, 5).v[i], TdKeys, TdSchema)
  BY DEF CheckDatamap
<1>2. d.type = "map" /\ Len(d.v) = 5 /\ At(d, 4).type \in {"map", "nil"} /\ At(d, 5).type = "array"
  BY <1>1, DmTypes
<1>3. \A x \in Inside(o) : x \in Objects[StackSize] /\ x.type \in {"array", "map"}
                           /\ Containers(Items(x)) \subseteq Inside(o)
  BY InsideIsWhole DEF Containers
<1>4. \A x \in Inside(o) : x.type = "map" => DOMAIN x.v = 1..Len(x.v)
  <2> SUFFICES ASSUME NEW x \in Inside(o), x.type = "map" PROVE DOMAIN x.v = 1..Len(x.v)
    OBVIOUS
  <2>1. x \in Container(Objects[StackSize - 1])
    BY <1>3, StackAssumption, ContainersOf
  <2>2. x.v \in Seq(Objects[StackSize - 1] \X Objects[StackSize - 1])
    BY <2>1, ItemsOf
  <2> QED
    BY <2>2, LenProperties
<1>5. DOMAIN d.v = 1..5
  BY <1>2, <1>4
<1>6. At(d, 4) \in Items(d) /\ At(d, 5) \in Items(d)
  <2>1. 4 \in 1..5 /\ 5 \in 1..5
    OBVIOUS
  <2> QED
    BY <1>2, <1>5, <2>1, PairsOf
<1>7. At(d, 5) \in Inside(o) /\ (At(d, 4).type # "nil" => At(d, 4) \in Inside(o) /\ At(d, 4).type = "map")
  BY <1>2, <1>3, <1>6 DEF Containers
<1>8. ASSUME NEW i \in DOMAIN At(d, 5).v
      PROVE  /\ At(d, 5).v[i] \in Inside(o)
             /\ LET e == At(At(d, 5).v[i], 10) IN e.type # "nil" => e \in Inside(o) /\ e.type = "map"
  <2> DEFINE x == At(d, 5).v[i]
             e == At(x, 10)
  <2>1. x \in Items(At(d, 5))
    BY <1>2 DEF Items
  <2>2. x.type = "map" /\ Len(x.v) = 12 /\ e.type \in {"map", "nil"}
    BY <1>1, TdTypes
  <2>3. x \in Inside(o)
    BY <1>3, <1>7, <2>1, <2>2 DEF Containers
  <2>4. 10 \in DOMAIN x.v
    BY <1>4, <2>2, <2>3
  <2>5. e \in Items(x)
    BY <2>2, <2>4, PairsOf
  <2>6. e.type # "nil" => e \in Inside(o) /\ e.type = "map"
    BY <1>3, <2>2, <2>3, <2>5 DEF Containers
  <2> QED
    BY <2>3, <2>6
<1>9. \A e \in Refs(d) : e.type # "nil" => e \in Inside(o) /\ e.type = "map"
  BY <1>7, <1>8 DEF Refs, Embedded
<1> QED
  BY <1>1, <1>2, <1>5, <1>7, <1>8, <1>9

\* The check is what it is defined to be: there is such a function.
IsCheck(o, f) ==
    f = [d \in Inside(o) |-> CheckDatamap(d) /\ \A e \in Refs(d) : e.type = "nil" \/ f[e]]

LEMMA CheckIs ==
    ASSUME NEW o \in Objects[StackSize]
    PROVE  \E f : IsCheck(o, f) /\ CheckDm(o) = f[o]
<1> DEFINE Closed(C) == /\ C \subseteq Inside(o)
                        /\ \A d \in C : CheckDatamap(d) /\ \A e \in Refs(d) : e.type = "nil" \/ e \in C
           Good == UNION {C \in SUBSET Inside(o) : Closed(C)}
           f == [d \in Inside(o) |-> d \in Good]
<1>1. Closed(Good)
  OBVIOUS
<1>2. ASSUME NEW d \in Inside(o), CheckDatamap(d), \A e \in Refs(d) : e.type = "nil" \/ e \in Good
      PROVE  d \in Good
  <2> DEFINE C == Good \cup {d}
  <2>1. Closed(C)
    <3> HIDE DEF Good
    <3> QED
      BY <1>1, <1>2
  <2>2. C \in SUBSET Inside(o) /\ d \in C
    BY <2>1
  <2> HIDE DEF C, Closed
  <2> QED
    BY <2>1, <2>2
<1> HIDE DEF Good
<1>3. ASSUME NEW d \in Inside(o)
      PROVE  f[d] = (CheckDatamap(d) /\ \A e \in Refs(d) : e.type = "nil" \/ f[e])
  <2>1. CASE ~CheckDatamap(d)
    <3>1. d \notin Good
      BY <1>1, <2>1
    <3> QED
      BY <2>1, <3>1
  <2>2. CASE CheckDatamap(d)
    <3>1. \A e \in Refs(d) : e.type # "nil" => e \in Inside(o)
      BY <2>2, FieldsOf
    <3>2. \A e \in Refs(d) : e.type # "nil" => f[e] = (e \in Good)
      BY <3>1
    <3>3. d \in Good <=> \A e \in Refs(d) : e.type = "nil" \/ e \in Good
      <4> HIDE DEF Closed
      <4>1. d \in Good => \A e \in Refs(d) : e.type = "nil" \/ e \in Good
        BY <1>1 DEF Closed
      <4> QED
        BY <1>2, <2>2, <4>1
    <3>4. f[d] = (d \in Good)
      OBVIOUS
    <3> DEFINE Q == CheckDatamap(d) /\ \A e \in Refs(d) : e.type = "nil" \/ f[e]
    <3>5. d \in Good <=> Q
      <4> HIDE DEF f
      <4> QED
        BY <2>2, <3>2, <3>3
    <3>6. Q \in BOOLEAN /\ (d \in Good) \in BOOLEAN
      OBVIOUS
    <3>7. f[d] = Q
      <4> HIDE DEF f, Q
      <4> QED
        BY <3>4, <3>5, <3>6, Zenon
    <3> QED
      BY <3>7, Zenon
  <2> QED
    BY <2>1, <2>2
<1>4. IsCheck(o, f)
  <2>1. f = [d \in Inside(o) |-> f[d]]
    OBVIOUS
  <2> HIDE DEF f
  <2> QED
    BY <1>3, <2>1 DEF IsCheck
<1> DEFINE check == CHOOSE g : IsCheck(o, g)
<1>5. CheckDm(o) = check[o]
  BY DEF CheckDm, IsCheck, Refs
<1>6. IsCheck(o, check)
  <2> HIDE DEF f
  <2> QED
    BY <1>4, Zenon
<1> HIDE DEF check
<1> QED
  BY <1>5, <1>6

\* A container that the check comes across: a datamap, the array of the fields of
\* one, or a field.  f is what the check says of each datamap.
FieldSeen(x, f) == CheckKvSchema(x, TdKeys, TdSchema) /\ (At(x, 10).type = "nil" \/ f[At(x, 10)])
ArraySeen(x, f) == x.type = "array" /\ \A i \in DOMAIN x.v : FieldSeen(x.v[i], f)
Seen(x, f) == (x.type = "map" /\ f[x]) \/ ArraySeen(x, f) \/ FieldSeen(x, f)

\* A map of a datamap has pairs at the places where there should be some.
LEMMA MapPairs ==
    ASSUME NEW o \in Objects[StackSize], NEW x \in Inside(o), x.type = "map"
    PROVE  /\ DOMAIN x.v = 1..Len(x.v)
           /\ \A i \in DOMAIN x.v : x.v[i][1] \in Objects[StackSize] /\ At(x, i) \in Objects[StackSize]
           /\ \A e \in Items(x) : \E i \in DOMAIN x.v : e = x.v[i][1] \/ e = At(x, i)
<1>1. x \in Objects[StackSize]
  BY InsideIsWhole DEF Containers
<1>2. StackSize - 1 \in Nat /\ StackSize - 1 <= StackSize /\ StackSize \in Nat
  BY StackAssumption
<1>3. x \in Container(Objects[StackSize - 1])
  BY <1>1, <1>2, ContainersOf
<1>4. x.v \in Seq(Objects[StackSize - 1] \X Objects[StackSize - 1])
  BY <1>3, ItemsOf
<1>5. DOMAIN x.v = 1..Len(x.v)
  BY <1>4, LenProperties
<1>6. Items(x) \subseteq Objects[StackSize]
  <2>1. Items(x) \subseteq Objects[StackSize - 1]
    BY <1>3, ItemsOf
  <2>2. Objects[StackSize - 1] \subseteq Objects[StackSize]
    BY <1>2, ObjectsGrow
  <2> QED
    BY <2>1, <2>2
<1>7. \A i \in DOMAIN x.v : x.v[i][1] \in Objects[StackSize] /\ At(x, i) \in Objects[StackSize]
  BY <1>6, PairsOf
<1>8. ASSUME NEW e \in Items(x) PROVE \E i \in DOMAIN x.v : e = x.v[i][1] \/ e = At(x, i)
  <2>1. PICK i \in DOMAIN x.v, k \in 1..2 : e = x.v[i][k]
    BY <1>8 DEF Items
  <2>2. k = 1 \/ k = 2
    OBVIOUS
  <2> QED
    BY <2>1, <2>2 DEF At
<1> QED
  BY <1>5, <1>7, <1>8

\* What is in a container that the check comes across, it comes across too.
LEMMA SeenInside ==
    ASSUME NEW o \in Objects[StackSize], NEW f, IsCheck(o, f), NEW x \in Inside(o), Seen(x, f),
           NEW e \in Items(x), e.type \in {"array", "map"}
    PROVE  Seen(e, f)
<1>1. CASE x.type = "map" /\ f[x]
  <2>1. CheckDatamap(x) /\ \A r \in Refs(x) : r.type = "nil" \/ f[r]
    BY <1>1 DEF IsCheck
  <2>2. /\ DOMAIN x.v = 1..5 /\ At(x, 5).type = "array"
        /\ \A i \in DOMAIN At(x, 5).v : CheckKvSchema(At(x, 5).v[i], TdKeys, TdSchema)
    BY <2>1, FieldsOf
  <2>3. /\ \A i \in 1..5 : x.v[i][1].type = "str"
        /\ At(x, 1).type = "str" /\ At(x, 2).type = "str" /\ At(x, 3).type = "positive"
    BY <2>1, DmTypes DEF CheckDatamap
  <2>4. PICK i \in 1..5 : e = x.v[i][1] \/ e = At(x, i)
    BY <1>1, <2>2, MapPairs
  <2>5. e = At(x, 4) \/ e = At(x, 5)
    <3>1. i = 1 \/ i = 2 \/ i = 3 \/ i = 4 \/ i = 5
      OBVIOUS
    <3> QED
      BY <2>3, <2>4, <3>1
  <2>6. CASE e = At(x, 4)
    <3>1. e \in Refs(x)
      BY <2>6 DEF Refs
    <3>2. f[e] /\ e.type # "nil"
      BY <2>1, <3>1
    <3>3. e.type = "map"
      BY <2>1, <3>1, <3>2, FieldsOf
    <3> QED
      BY <3>2, <3>3 DEF Seen
  <2>7. CASE e = At(x, 5)
    <3>1. ASSUME NEW j \in DOMAIN e.v PROVE FieldSeen(e.v[j], f)
      <4>1. At(e.v[j], 10) \in Refs(x)
        BY <2>7 DEF Refs, Embedded
      <4> QED
        BY <2>1, <2>2, <2>7, <4>1 DEF FieldSeen
    <3> QED
      BY <2>2, <2>7, <3>1 DEF Seen, ArraySeen
  <2> QED
    BY <2>5, <2>6, <2>7
<1>2. CASE ArraySeen(x, f)
  <2>1. PICK i \in DOMAIN x.v : e = x.v[i]
    BY <1>2 DEF ArraySeen, Items
  <2> QED
    BY <1>2, <2>1 DEF ArraySeen, Seen
<1>3. CASE FieldSeen(x, f)
  <2>1. CheckKvSchema(x, TdKeys, TdSchema) /\ (At(x, 10).type = "nil" \/ f[At(x, 10)])
    BY <1>3 DEF FieldSeen
  <2>2. /\ x.type = "map" /\ Len(x.v) = 12 /\ \A i \in 1..12 : x.v[i][1].type = "str"
        /\ At(x, 1).type = "str" /\ At(x, 4).type \in {"str", "nil"}
        /\ \A i \in {2, 3, 5, 6, 7, 11} : At(x, i).type = "positive"
        /\ \A i \in {8, 9} : At(x, i).type \in {"positive", "nil"}
        /\ At(x, 10).type \in {"map", "nil"} /\ At(x, 12).type = "float"
    BY <2>1, TdTypes
  <2>3. PICK i \in 1..12 : e = x.v[i][1] \/ e = At(x, i)
    BY <2>2, MapPairs
  <2>4. e = At(x, i)
    BY <2>2, <2>3
  <2>5. i = 10
    <3>1. i \in {1, 4, 12} \/ i \in {2, 3, 5, 6, 7, 11} \/ i \in {8, 9} \/ i = 10
      OBVIOUS
    <3>2. At(x, i).type \in {"array", "map"}
      BY <2>4
    <3>3. i \notin {2, 3, 5, 6, 7, 11} /\ i \notin {8, 9}
      BY <2>2, <3>2
    <3>4. i \notin {1, 4, 12}
      BY <2>2, <3>2
    <3> QED
      BY <3>1, <3>3, <3>4
  <2> QED
    BY <2>1, <2>2, <2>4, <2>5 DEF Seen
<1> QED
  BY <1>1, <1>2, <1>3 DEF Seen

\* All containers in what the check accepts are such.
LEMMA AllSeen ==
    ASSUME NEW o \in Objects[StackSize], o.type = "map", NEW f, IsCheck(o, f), f[o]
    PROVE  \A x \in Inside(o) : Seen(x, f)
<1> USE StackAssumption
<1> DEFINE S == {n \in Nat : n <= StackSize => \A x \in Level(o)[n] : Seen(x, f)}
<1>1. 0 \in S
  BY LevelIs DEF Seen, Containers
<1>2. ASSUME NEW n \in Nat, n \in S PROVE n + 1 \in S
  <2> SUFFICES ASSUME n + 1 <= StackSize, NEW e \in Level(o)[n + 1] PROVE Seen(e, f)
    OBVIOUS
  <2>1. n \in 0..StackSize
    OBVIOUS
  <2>2. PICK x \in Level(o)[n] : e \in Items(x) /\ e.type \in {"array", "map"}
    <3>1. Level(o)[n + 1] = Containers(UNION {Items(x) : x \in Level(o)[n]})
      BY LevelIs
    <3> QED
      BY <3>1 DEF Containers
  <2>3. x \in Inside(o) /\ Seen(x, f)
    BY <1>2, <2>1, <2>2 DEF Inside
  <2> QED
    BY <2>2, <2>3, SeenInside
<1>3. \A n \in Nat : n \in S
  <2> HIDE DEF S
  <2> QED
    BY <1>1, <1>2, Inductively
<1>4. ASSUME NEW x \in Inside(o) PROVE Seen(x, f)
  <2>1. PICK n \in 0..StackSize : x \in Level(o)[n]
    BY <1>4 DEF Inside
  <2>2. n \in Nat /\ n <= StackSize
    OBVIOUS
  <2> QED
    BY <1>3, <2>1, <2>2
<1> QED
  BY <1>4

\* A map that is one of them can be read.
LEMMA SeenIsReadable ==
    ASSUME NEW o \in Objects[StackSize], NEW f, IsCheck(o, f), NEW x \in Inside(o), Seen(x, f),
           x.type = "map"
    PROVE  ReadableAsDatamap(x) \/ ReadableAsField(x)
<1>1. DOMAIN x.v = 1..Len(x.v) /\ \A i \in DOMAIN x.v : At(x, i) \in Objects[StackSize]
  BY MapPairs
<1>2. \A e \in Objects[StackSize] : e.type = "positive" => IsNum(e)
  BY PositiveIs, StackAssumption
<1>3. CASE f[x]
  <2>1. CheckDatamap(x)
    BY <1>3 DEF IsCheck
  <2>2. /\ Len(x.v) = 5
        /\ At(x, 1).type = "str" /\ At(x, 2).type = "str" /\ At(x, 3).type = "positive"
        /\ At(x, 4).type \in {"map", "nil"} /\ At(x, 5).type = "array"
    BY <2>1, DmTypes DEF CheckDatamap
  <2>3. IsNum(At(x, 3))
    <3>1. 3 \in DOMAIN x.v
      BY <2>1, FieldsOf
    <3> QED
      BY <1>1, <1>2, <2>2, <3>1
  <2> QED
    BY <2>2, <2>3 DEF ReadableAsDatamap, IsStr, IsNil
<1>4. CASE FieldSeen(x, f)
  <2>1. /\ Len(x.v) = 12
        /\ At(x, 1).type = "str" /\ At(x, 4).type \in {"str", "nil"}
        /\ \A i \in {2, 3, 5, 6, 7, 11} : At(x, i).type = "positive"
        /\ \A i \in {8, 9} : At(x, i).type \in {"positive", "nil"}
        /\ At(x, 10).type \in {"map", "nil"} /\ At(x, 12).type = "float"
    BY <1>4, TdTypes DEF FieldSeen
  <2>2. \A i \in 1..12 : At(x, i).type = "positive" => IsNum(At(x, i))
    BY <1>1, <1>2, <2>1
  <2>3. \A i \in {2, 3, 5, 6, 7, 11} : IsNum(At(x, i))
    <3>1. \A i \in {2, 3, 5, 6, 7, 11} : i \in 1..12
      OBVIOUS
    <3> QED
      BY <2>1, <2>2, <3>1
  <2>4. \A i \in {8, 9} : IsNum(At(x, i)) \/ IsNil(At(x, i))
    <3>1. \A i \in {8, 9} : i \in 1..12
      OBVIOUS
    <3> QED
      BY <2>1, <2>2, <3>1 DEF IsNil
  <2>5. IsStr(At(x, 1)) /\ (IsStr(At(x, 4)) \/ IsNil(At(x, 4)))
        /\ (At(x, 10).type = "map" \/ IsNil(At(x, 10)))
    BY <2>1 DEF IsStr, IsNil
  <2> HIDE DEF At
  <2> QED
    BY <2>1, <2>3, <2>4, <2>5 DEF ReadableAsField
<1> QED
  BY <1>3, <1>4 DEF Seen, ArraySeen

LEMMA CheckedIsReadable ==
    ASSUME NEW o \in Objects[StackSize], o.type = "map", CheckDm(o)
    PROVE  \A x \in Inside(o) : x.type = "map" => ReadableAsDatamap(x) \/ ReadableAsField(x)
<1>1. PICK f : IsCheck(o, f) /\ CheckDm(o) = f[o]
  BY CheckIs
<1>2. f[o]
  BY <1>1
<1> QED
  BY <1>1, <1>2, AllSeen, SeenIsReadable

\* What is made of a message.
Msgs == [type : {"HELLO", "DATAMAP", "LINKED_NAME", "LOG_INFO", "LOG_ERROR", "GOODBYE"},
         data : Objects[StackSize - 1]]

DatamapChecked(m) == m.type = "DATAMAP" => m.data.type = "map" /\ CheckDm(m.data)

WireInv ==
    /\ UnpackOK
    /\ session \in Seq(Message) /\ n_sent \in 0..Len(session)
    /\ received \in Seq(Msgs) /\ \A i \in DOMAIN received : DatamapChecked(received[i])

LEMMA MsgOfFits ==
    ASSUME NEW o \in Objects[StackSize], CheckMsg(o)
    PROVE  MsgOf(o) \in Msgs /\ DatamapChecked(MsgOf(o))
<1>1. CheckKvSchema(o, IpcKeys, MsgSchema) /\ At(o, 1).v < Len(MsgTypes)
  BY DEF CheckMsg
<1>2. /\ o.type = "map" /\ Len(o.v) = 2
      /\ \A i \in 1..2 : MsgSchema[i] = {} \/ At(o, i).type \in MsgSchema[i]
  <2>1. DOMAIN MsgSchema = 1..2 /\ Len(MsgSchema) = 2
    BY DEF MsgSchema
  <2> QED
    BY <1>1, <2>1 DEF CheckKvSchema, At
<1>3. StackSize - 1 \in Nat /\ StackSize - 1 <= StackSize /\ StackSize \in Nat
  BY StackAssumption
<1>4. o \in Container(Objects[StackSize - 1])
  BY <1>2, <1>3, ContainersOf
<1>5. /\ o.v \in Seq(Objects[StackSize - 1] \X Objects[StackSize - 1])
      /\ Items(o) \subseteq Objects[StackSize - 1]
  <2>1. o \in [type : {"map"}, v : Seq(Objects[StackSize - 1] \X Objects[StackSize - 1])]
    BY <1>2, <1>4, ItemsOf
  <2>2. Items(o) \subseteq Objects[StackSize - 1]
    BY <1>4, ItemsOf
  <2> QED
    BY <2>1, <2>2
<1>6. DOMAIN o.v = 1..2
  BY <1>2, <1>5, LenProperties
<1>7. At(o, 1) \in Objects[StackSize - 1] /\ At(o, 2) \in Objects[StackSize - 1]
  <2>1. 1 \in 1..2 /\ 2 \in 1..2
    OBVIOUS
  <2> QED
    BY <1>2, <1>5, <1>6, <2>1, PairsOf
<1>8. At(o, 1).v \in Nat
  <2>1. At(o, 1).type = "positive"
    BY <1>2 DEF MsgSchema
  <2> QED
    BY <1>3, <1>7, <2>1, PositiveIs DEF IsNum
<1> DEFINE i == At(o, 1).v + 1
<1>9. i \in 1..6
  BY <1>1, <1>8 DEF MsgTypes
<1>10. MsgTypes[i] \in {"HELLO", "DATAMAP", "LINKED_NAME", "LOG_INFO", "LOG_ERROR", "GOODBYE"}
  <2> HIDE DEF i
  <2> QED
    BY <1>9 DEF MsgTypes
<1>11. MsgTypes[i] = "DATAMAP" => At(o, 2).type = "map" /\ CheckDm(At(o, 2))
  BY DEF CheckMsg
<1>12. MsgOf(o).type = MsgTypes[i] /\ MsgOf(o).data = At(o, 2)
  BY DEF MsgOf
<1>13. MsgOf(o) \in Msgs
  BY <1>7, <1>10 DEF MsgOf, Msgs
<1> HIDE DEF i
<1> QED
  BY <1>11, <1>12, <1>13 DEF DatamapChecked

LEMMA WireInitInv == WireInit => WireInv
<1> SUFFICES ASSUME WireInit PROVE WireInv
  OBVIOUS
<1>1. UnpackOK
  BY UnpackInitOK DEF WireInit
<1>2. session \in Seq(Message) /\ n_sent = 0 /\ received = <<>>
  BY SessionsAssumption DEF WireInit
<1> HIDE DEF Message
<1>3. n_sent \in 0..Len(session) /\ received \in Seq(Msgs) /\ DOMAIN received = {}
  BY <1>2
<1> QED
  BY <1>1, <1>2, <1>3 DEF WireInv

LEMMA WireStepInv == WireInv /\ [WireNext]_all_vars => WireInv'
<1> SUFFICES ASSUME WireInv, [WireNext]_all_vars PROVE WireInv'
  OBVIOUS
<1>1. /\ UnpackOK /\ session \in Seq(Message) /\ n_sent \in 0..Len(session) /\ Len(session) \in Nat
      /\ received \in Seq(Msgs) /\ \A i \in DOMAIN received : DatamapChecked(received[i])
  <2> HIDE DEF Message
  <2> QED
    BY DEF WireInv
<1>2. CASE SendMsg
  <2> DEFINE m == session[n_sent + 1]
             left == SubSeq(buf, p, Len(buf))
  <2>1. /\ wire = "sending" /\ n_sent < Len(session) /\ n_sent' = n_sent + 1
        /\ Begin(left \o PackMsg(m)) /\ session' = session /\ received' = received
    BY <1>2 DEF SendMsg
  <2>2. n_sent + 1 \in 1..Len(session)
    BY <1>1, <2>1
  <2>3. m \in Message
    BY <1>1, <2>2, ElementOfSeq
  <2>4. PackMsg(m) \in Seq(Byte)
    BY <2>3, PackMsgBytes
  <2>5. left \in Seq(Byte)
    <3>1. buf \in Seq(Byte) /\ Len(buf) \in Nat /\ p \in Nat /\ p > 0
      BY <1>1, LenProperties DEF UnpackOK
    <3>2. \A i \in p..Len(buf) : buf[i] \in Byte
      BY <3>1
    <3> HIDE DEF Byte
    <3> QED
      BY <3>1, <3>2, SubSeqProperties
  <2> HIDE DEF left, m
  <2>6. left \o PackMsg(m) \in Seq(Byte)
    <3> HIDE DEF Byte
    <3> QED
      BY <2>4, <2>5, ConcatProperties
  <2>7. UnpackOK'
    BY <2>1, <2>6, BeginKeeps
  <2>8. n_sent' \in 0..Len(session')
    BY <1>1, <2>1
  <2> HIDE DEF Message
  <2> QED
    BY <1>1, <2>1, <2>7, <2>8 DEF WireInv
<1>3. CASE EndSession
  <2>1. UNCHANGED <<unpack_vars, session, n_sent, received>>
    BY <1>3 DEF EndSession
  <2>2. UnpackOK'
    BY <1>1, <2>1, UnpackStays
  <2> QED
    BY <1>1, <2>1, <2>2 DEF WireInv
<1>4. CASE UnpackStep
  <2>1. UnpackOK' /\ UNCHANGED <<session, n_sent, received>>
    BY <1>1, <1>4, ExecuteKeeps DEF UnpackStep, wire_vars
  <2> QED
    BY <1>1, <2>1 DEF WireInv
<1>5. CASE Process
  <2>1. UNCHANGED <<unpack_vars, session, n_sent>>
    BY <1>5 DEF Process
  <2>2. UnpackOK'
    BY <1>1, <2>1, UnpackStays
  <2>3. received' = received \/ (CheckMsg(obj) /\ received' = Append(received, MsgOf(obj)))
    BY <1>5 DEF Process
  <2>4. CASE received' = received
    BY <1>1, <2>1, <2>2, <2>4 DEF WireInv
  <2>5. CASE CheckMsg(obj) /\ received' = Append(received, MsgOf(obj))
    <3>1. obj \in Objects[StackSize]
      BY <1>1 DEF UnpackOK
    <3>2. MsgOf(obj) \in Msgs /\ DatamapChecked(MsgOf(obj))
      BY <2>5, <3>1, MsgOfFits
    <3> DEFINE m == MsgOf(obj)
    <3> HIDE DEF m, Msgs
    <3>3. /\ received' \in Seq(Msgs) /\ Len(received') = Len(received) + 1
          /\ \A i \in 1..Len(received) : received'[i] = received[i]
          /\ received'[Len(received) + 1] = m
      BY <1>1, <2>5, <3>2, AppendProperties DEF m
    <3>4. Len(received) \in Nat /\ DOMAIN received = 1..Len(received) /\ DOMAIN received' = 1..Len(received')
      BY <1>1, <3>3, LenProperties
    <3>5. ASSUME NEW i \in DOMAIN received' PROVE DatamapChecked(received'[i])
      <4>1. i \in DOMAIN received \/ i = Len(received) + 1
        BY <3>3, <3>4
      <4>2. i \in DOMAIN received => DatamapChecked(received'[i])
        BY <1>1, <3>3, <3>4
      <4>3. i = Len(received) + 1 => DatamapChecked(received'[i])
        <5>1. DatamapChecked(m)
          BY <3>2 DEF m
        <5>2. i = Len(received) + 1 => received'[i] = m
          BY <3>3, Zenon
        <5> QED
          BY <5>1, <5>2, Zenon
      <4> QED
        BY <4>1, <4>2, <4>3
    <3> QED
      BY <1>1, <2>1, <2>2, <3>3, <3>5 DEF WireInv
  <2> QED
    BY <2>3, <2>4, <2>5
<1>6. CASE UNCHANGED all_vars
  <2>1. UNCHANGED unpack_vars /\ UNCHANGED <<session, n_sent, received>>
    BY <1>6 DEF all_vars, wire_vars
  <2>2. UnpackOK'
    BY <1>1, <2>1, UnpackStays
  <2> QED
    BY <1>1, <2>1, <2>2 DEF WireInv
<1> QED
  BY <1>2, <1>3, <1>4, <1>5, <1>6 DEF WireNext

\* (unpack_template.h, ch_recv.c.)  The unpacker is always in one of its states, the
\* messages are what can be made of bytes, and the datamaps among them were checked.
THEOREM WireTypes == WireSpec => []WireInv
<1> QED
  BY WireInitInv, WireStepInv, PTL DEF WireSpec

\* (unpack_template.h, template_execute.)  Whatever bytes come, the unpacker stays in
\* its buffer and its stack, and what it makes has no more containers in each other
\* than that one has room for.
THEOREM UnpackerStaysInside ==
    WireSpec => [](p \in 1..(Len(buf) + 1) /\ Len(stack) <= StackSize /\ obj \in Objects[StackSize])
<1>1. WireInv => p \in 1..(Len(buf) + 1) /\ Len(stack) <= StackSize /\ obj \in Objects[StackSize]
  BY DEF WireInv, UnpackOK, StackOK
<1> QED
  BY <1>1, WireTypes, PTL

\* (ch_recv.c, ch_check_dm_schema_cb, ch_recurse_visit_datamaps.)  Whatever a client
\* sends, every map in a datamap that the exe has accepted, however deep, has been
\* looked at and can be read as a datamap or a field.
THEOREM NothingUncheckedHolds == WireSpec => []NothingUnchecked
<1>1. WireInv => NothingUnchecked
  <2> SUFFICES ASSUME WireInv, NEW i \in DOMAIN received, received[i].type = "DATAMAP"
               PROVE  \A o \in Inside(received[i].data) :
                         o.type = "map" => ReadableAsDatamap(o) \/ ReadableAsField(o)
    BY DEF NothingUnchecked
  <2> DEFINE o == received[i].data
  <2>1. received[i] \in Msgs /\ DatamapChecked(received[i])
    BY ElementOfSeq, LenProperties DEF WireInv
  <2>2. o \in Objects[StackSize - 1] /\ o.type = "map" /\ CheckDm(o)
    BY <2>1 DEF Msgs, DatamapChecked
  <2>3. Objects[StackSize - 1] \subseteq Objects[StackSize]
    BY ObjectsGrow, StackAssumption
  <2> HIDE DEF o
  <2>4. \A x \in Inside(o) : x.type = "map" => ReadableAsDatamap(x) \/ ReadableAsField(x)
    BY <2>2, <2>3, CheckedIsReadable
  <2> QED
    BY <2>4 DEF o
<1> QED
  BY <1>1, WireTypes, PTL
-----------------------------------------------------------------------------
(* How values are packed *)

AllObjects == UNION {Objects[n] : n \in Nat}

\* How deep a value is.
Depth ==
    [o \in AllObjects |->
        CHOOSE n \in Nat : o \in Objects[n] /\ \A m \in Nat : o \in Objects[m] => n <= m]

LEMMA DepthIs ==
    ASSUME NEW o \in AllObjects
    PROVE  /\ Depth[o] \in Nat /\ o \in Objects[Depth[o]]
           /\ \A m \in Nat : o \in Objects[m] => Depth[o] <= m
<1> DEFINE S == {n \in Nat : o \in Objects[n]}
           Least(n) == o \in Objects[n] /\ \A m \in Nat : o \in Objects[m] => n <= m
<1>1. S # {} /\ S \in SUBSET Nat
  BY DEF AllObjects
<1>2. PICK n \in S : \A m \in S : n <= m
  <2> HIDE DEF S
  <2> QED
    BY <1>1, LeastOf
<1>3. n \in Nat /\ Least(n)
  BY <1>2
<1>4. Depth[o] = CHOOSE k \in Nat : Least(k)
  BY DEF Depth
<1> HIDE DEF Least
<1>5. Depth[o] \in Nat /\ Least(Depth[o])
  BY <1>3, <1>4, Zenon
<1> QED
  BY <1>5 DEF Least

\* What is in a container is less deep.
LEMMA ItemsLessDeep ==
    ASSUME NEW o \in AllObjects, o.type \in {"array", "map"}
    PROVE  /\ Items(o) \subseteq AllObjects
           /\ \A x \in Items(o) : Depth[x] < Depth[o]
           /\ o.type = "array" => o \in [type : {"array"}, v : Seq(AllObjects)]
           /\ o.type = "map" => o \in [type : {"map"}, v : Seq(AllObjects \X AllObjects)]
<1> DEFINE n == Depth[o]
<1>1. n \in Nat /\ o \in Objects[n]
  BY DepthIs
<1> HIDE DEF n
<1>2. n # 0 /\ n - 1 \in Nat /\ o \in Container(Objects[n - 1])
  BY <1>1, ContainersOf
<1>3. Items(o) \subseteq Objects[n - 1]
  BY <1>2, ItemsOf
<1>4. Objects[n - 1] \subseteq AllObjects
  BY <1>2 DEF AllObjects
<1>5. ASSUME NEW x \in Items(o) PROVE Depth[x] < n
  <2>1. x \in AllObjects /\ x \in Objects[n - 1]
    BY <1>3, <1>4
  <2>2. Depth[x] \in Nat /\ Depth[x] <= n - 1
    BY <1>2, <2>1, DepthIs
  <2> QED
    BY <1>1, <2>2
<1>6. Objects[n - 1] \X Objects[n - 1] \subseteq AllObjects \X AllObjects
  BY <1>4
<1>7. Seq(Objects[n - 1]) \subseteq Seq(AllObjects)
  BY <1>4, SeqMonotonic
<1>8. Seq(Objects[n - 1] \X Objects[n - 1]) \subseteq Seq(AllObjects \X AllObjects)
  BY <1>6, SeqMonotonic
<1>9. o.type = "array" => o \in [type : {"array"}, v : Seq(AllObjects)]
  <2>1. o.type = "array" => o \in [type : {"array"}, v : Seq(Objects[n - 1])]
    BY <1>2, ItemsOf
  <2> QED
    BY <1>7, <2>1
<1>10. o.type = "map" => o \in [type : {"map"}, v : Seq(AllObjects \X AllObjects)]
  <2>1. o.type = "map" => o \in [type : {"map"}, v : Seq(Objects[n - 1] \X Objects[n - 1])]
    <3>1. o.type = "map" => o.type # "array"
      OBVIOUS
    <3> QED
      BY <1>2, <3>1, ItemsOf
  <2> QED
    BY <1>8, <2>1
<1> QED
  BY <1>3, <1>4, <1>5, <1>9, <1>10 DEF n

\* A value is packed, what is in it being so already.
Packed(o, f) ==
    CASE o.type = "nil" -> PackNil
      [] o.type \in {"positive", "negative"} -> PackInt(o.v)
      [] o.type = "float" -> PackFloat(o.v)
      [] o.type = "str" -> PackStr(o.v)
      [] o.type = "array" -> PackArray(Len(o.v)) \o FlattenSeq([i \in DOMAIN o.v |-> f[o.v[i]]])
      [] o.type = "map" ->
           PackMap(Len(o.v)) \o FlattenSeq([i \in DOMAIN o.v |-> f[o.v[i][1]] \o f[o.v[i][2]]])

\* How values are packed.
Bytes == CHOOSE f \in [AllObjects -> Seq(Byte)] : \A o \in AllObjects : f[o] = Packed(o, f)

LEMMA TypesOf ==
    ASSUME NEW o \in AllObjects
    PROVE  \/ o = Nil
           \/ o.type = "positive" /\ o.v \in Nat
           \/ o.type = "negative" /\ o.v \in Int
           \/ o.type \in {"str", "float"} /\ o.v \in Seq(Byte)
           \/ o.type \in {"array", "map"}
<1>1. PICK n \in Nat : o \in Objects[n]
  BY DEF AllObjects
<1>2. o \in Leaf \/ \E k \in Nat : o \in Container(Objects[k])
  <2>1. CASE n = 0
    BY <1>1, <2>1, ObjectsIs
  <2>2. CASE n # 0
    <3>1. n - 1 \in Nat /\ (n - 1) + 1 = n
      BY <2>2
    <3> QED
      BY <1>1, <3>1, ObjectsIs
  <2> QED
    BY <2>1, <2>2
<1>3. o \in Leaf => \/ o = Nil
                    \/ o.type = "positive" /\ o.v \in Nat
                    \/ o.type = "negative" /\ o.v \in Int
                    \/ o.type \in {"str", "float"} /\ o.v \in Seq(Byte)
  <2> HIDE DEF Byte
  <2>1. o \in Leaf => \/ o \in {Nil} \/ o \in [type : {"positive"}, v : Nat]
                      \/ o \in [type : {"negative"}, v : Int]
                      \/ o \in [type : {"str", "float"}, v : Seq(Byte)]
    BY Zenon DEF Leaf
  <2>2. o \in [type : {"positive"}, v : Nat] => o.type = "positive" /\ o.v \in Nat
    BY Zenon
  <2>3. o \in [type : {"negative"}, v : Int] => o.type = "negative" /\ o.v \in Int
    BY Zenon
  <2>4. o \in [type : {"str", "float"}, v : Seq(Byte)] => o.type \in {"str", "float"} /\ o.v \in Seq(Byte)
    BY Zenon
  <2> QED
    BY <2>1, <2>2, <2>3, <2>4, Zenon
<1>4. \A k \in Nat : o \in Container(Objects[k]) => o.type \in {"array", "map"}
  BY DEF Container
<1> QED
  BY <1>2, <1>3, <1>4

LEMMA PackedIsBytes ==
    ASSUME NEW o \in AllObjects, NEW f \in [AllObjects -> Seq(Byte)]
    PROVE  Packed(o, f) \in Seq(Byte)
<1> HIDE DEF Byte
<1>1. CASE o = Nil
  <2>1. PackNil \in Seq(Byte)
    <3>1. 192 \in Byte
      BY SMT DEF Byte
    <3> QED
      BY <3>1, FirstAnd, SMT DEF PackNil
  <2>2. o.type = "nil"
    BY <1>1 DEF Nil
  <2> QED
    BY <2>1, <2>2 DEF Packed
<1>2. CASE o.type \in {"positive", "negative"} /\ o.v \in Int
  <2>1. PackInt(o.v) \in Seq(Byte)
    BY <1>2, PackIntBytes
  <2> QED
    BY <1>2, <2>1 DEF Packed
<1>3. CASE o.type \in {"str", "float"} /\ o.v \in Seq(Byte)
  <2>1. PackStr(o.v) \in Seq(Byte)
    BY <1>3, PackStrBytes
  <2>2. PackFloat(o.v) \in Seq(Byte)
    <3>1. 202 \in Byte
      BY SMT DEF Byte
    <3> QED
      BY <1>3, <3>1, FirstAnd, SMT DEF PackFloat
  <2> QED
    BY <1>3, <2>1, <2>2 DEF Packed
<1>4. CASE o.type = "array"
  <2> DEFINE ss == [i \in DOMAIN o.v |-> f[o.v[i]]]
  <2>1. o.v \in Seq(AllObjects)
    BY <1>4, ItemsLessDeep
  <2>2. Len(o.v) \in Nat /\ DOMAIN o.v = 1..Len(o.v) /\ \A i \in DOMAIN o.v : o.v[i] \in AllObjects
    BY <2>1, LenProperties, ElementOfSeq
  <2>3. ss \in Seq(Seq(Byte))
    BY <2>2
  <2> HIDE DEF ss
  <2>4. FlattenSeq(ss) \in Seq(Byte)
    BY <2>3, FlattenBytes, Zenon
  <2>5. PackArray(Len(o.v)) \in Seq(Byte)
    BY <2>2, PackHeads, Zenon
  <2>6. Packed(o, f) = PackArray(Len(o.v)) \o FlattenSeq(ss)
    BY <1>4 DEF Packed, ss
  <2> QED
    BY <2>4, <2>5, <2>6, ConcatProperties
<1>5. CASE o.type = "map"
  <2> DEFINE ss == [i \in DOMAIN o.v |-> f[o.v[i][1]] \o f[o.v[i][2]]]
  <2>1. o.v \in Seq(AllObjects \X AllObjects)
    BY <1>5, ItemsLessDeep
  <2>2. Len(o.v) \in Nat /\ DOMAIN o.v = 1..Len(o.v)
        /\ \A i \in DOMAIN o.v : o.v[i] \in AllObjects \X AllObjects
    BY <2>1, LenProperties, ElementOfSeq
  <2>3. \A i \in DOMAIN o.v : f[o.v[i][1]] \in Seq(Byte) /\ f[o.v[i][2]] \in Seq(Byte)
    BY <2>2
  <2>4. \A i \in DOMAIN o.v : f[o.v[i][1]] \o f[o.v[i][2]] \in Seq(Byte)
    BY <2>3, ConcatProperties
  <2>5. ss \in Seq(Seq(Byte))
    BY <2>2, <2>4
  <2> HIDE DEF ss
  <2>6. FlattenSeq(ss) \in Seq(Byte)
    BY <2>5, FlattenBytes, Zenon
  <2>7. PackMap(Len(o.v)) \in Seq(Byte)
    BY <2>2, PackHeads, Zenon
  <2>8. Packed(o, f) = PackMap(Len(o.v)) \o FlattenSeq(ss)
    BY <1>5 DEF Packed, ss
  <2> QED
    BY <2>6, <2>7, <2>8, ConcatProperties
<1> QED
  <2>1. o.type = "positive" /\ o.v \in Nat => o.v \in Int
    OBVIOUS
  <2> QED
    BY <1>1, <1>2, <1>3, <1>4, <1>5, <2>1, TypesOf

LEMMA PackedByDepth ==
    ASSUME NEW o \in AllObjects, NEW f, NEW g,
           \A x \in AllObjects : Depth[x] < Depth[o] => f[x] = g[x]
    PROVE  Packed(o, f) = Packed(o, g)
<1>1. CASE o.type = "array"
  <2> DEFINE ss(h) == [i \in DOMAIN o.v |-> h[o.v[i]]]
  <2>1. \A i \in DOMAIN o.v : o.v[i] \in Items(o)
    BY <1>1 DEF Items
  <2>2. \A i \in DOMAIN o.v : f[o.v[i]] = g[o.v[i]]
    BY <1>1, <2>1, ItemsLessDeep
  <2>3. ss(f) = ss(g)
    BY <2>2
  <2>4. \A h : Packed(o, h) = PackArray(Len(o.v)) \o FlattenSeq(ss(h))
    BY <1>1 DEF Packed
  <2> HIDE DEF ss
  <2> QED
    BY <2>3, <2>4
<1>2. CASE o.type = "map"
  <2> DEFINE ss(h) == [i \in DOMAIN o.v |-> h[o.v[i][1]] \o h[o.v[i][2]]]
  <2>1. \A i \in DOMAIN o.v : o.v[i][1] \in Items(o) /\ o.v[i][2] \in Items(o)
    BY <1>2, PairsOf DEF At
  <2>2. \A i \in DOMAIN o.v : f[o.v[i][1]] = g[o.v[i][1]] /\ f[o.v[i][2]] = g[o.v[i][2]]
    BY <1>2, <2>1, ItemsLessDeep
  <2>3. ss(f) = ss(g)
    BY <2>2
  <2>4. \A h : Packed(o, h) = PackMap(Len(o.v)) \o FlattenSeq(ss(h))
    BY <1>2 DEF Packed
  <2> HIDE DEF ss
  <2> QED
    BY <2>3, <2>4
<1>3. CASE o.type \notin {"array", "map"}
  BY <1>3, TypesOf DEF Packed, Nil
<1> QED
  BY <1>1, <1>2, <1>3

LEMMA BytesIs ==
    /\ Bytes \in [AllObjects -> Seq(Byte)]
    /\ \A o \in AllObjects : Bytes[o] = Packed(o, Bytes)
<1> HIDE DEF Byte
<1> DEFINE V == Seq(Byte)
           G == [e \in AllObjects \X [AllObjects -> V] |-> Packed(e[1], e[2])]
<1>1. \A o \in AllObjects : \A f \in [AllObjects -> V] : G[<<o, f>>] = Packed(o, f)
  OBVIOUS
<1>2. ByRank(AllObjects, Depth, V, G)
  <2>1. Depth \in [AllObjects -> Nat]
    <3>1. \A o \in AllObjects : Depth[o] \in Nat
      BY DepthIs
    <3>2. Depth = [o \in AllObjects |-> Depth[o]]
      BY DEF Depth
    <3> QED
      BY <3>1, <3>2
  <2>2. V # {}
    BY EmptySeq
  <2>3. G \in [AllObjects \X [AllObjects -> V] -> V]
    <3>1. \A e \in AllObjects \X [AllObjects -> V] : Packed(e[1], e[2]) \in V
      BY PackedIsBytes
    <3> HIDE DEF V
    <3> QED
      BY <3>1
  <2>4. ASSUME NEW o \in AllObjects, NEW f \in [AllObjects -> V], NEW g \in [AllObjects -> V],
               \A x \in AllObjects : Depth[x] < Depth[o] => f[x] = g[x]
        PROVE  G[<<o, f>>] = G[<<o, g>>]
    <3>1. Packed(o, f) = Packed(o, g)
      BY <2>4, PackedByDepth
    <3> QED
      BY <1>1, <3>1
  <2> HIDE DEF V, G
  <2> QED
    BY <2>1, <2>2, <2>3, <2>4 DEF ByRank
<1>3. \E f \in [AllObjects -> V] : \A o \in AllObjects : f[o] = Packed(o, f)
  <2> HIDE DEF V, G
  <2>1. Solved(AllObjects, V, G)
    BY <1>2, RankRecursion, Zenon
  <2> QED
    BY <1>1, <2>1 DEF Solved
<1> QED
  BY <1>3, Zenon DEF Bytes

\* The values that the payload sends: their numbers and lengths fit, and so do those
\* in them.
Sendable(x) ==
    \/ x = Nil
    \/ x.type = "positive" /\ x.v \in Number
    \/ x.type = "str" /\ x.v \in Str
    \/ x.type = "float" /\ x.v \in {t \in Seq(Byte) : Len(t) = 4}
    \/ x.type \in {"array", "map"} /\ Len(x.v) \in Number

SendableAll(C) ==
    \A x \in C : Sendable(x) /\ (x.type \in {"array", "map"} => Items(x) \subseteq C)

Proper == UNION {C \in SUBSET AllObjects : SendableAll(C)}

ProperAt(n) == Objects[n] \cap Proper

LEMMA ProperIs ==
    /\ Proper \subseteq AllObjects /\ SendableAll(Proper)
    /\ \A x \in AllObjects :
          Sendable(x) /\ (x.type \in {"array", "map"} => Items(x) \subseteq Proper) => x \in Proper
<1>1. Proper \subseteq AllObjects /\ SendableAll(Proper)
  <2> HIDE DEF AllObjects, Sendable
  <2>1. Proper \subseteq AllObjects
    BY DEF Proper
  <2>2. ASSUME NEW x \in Proper
        PROVE  Sendable(x) /\ (x.type \in {"array", "map"} => Items(x) \subseteq Proper)
    <3>1. PICK C \in SUBSET AllObjects : SendableAll(C) /\ x \in C
      BY DEF Proper
    <3>2. C \subseteq Proper
      BY <3>1 DEF Proper
    <3> QED
      BY <3>1, <3>2 DEF SendableAll
  <2> QED
    BY <2>1, <2>2 DEF SendableAll
<1>2. ASSUME NEW x \in AllObjects, Sendable(x), x.type \in {"array", "map"} => Items(x) \subseteq Proper
      PROVE  x \in Proper
  <2> DEFINE C == Proper \cup {x}
  <2>1. C \in SUBSET AllObjects
    BY <1>1
  <2>2. SendableAll(C)
    BY <1>1, <1>2 DEF SendableAll
  <2>3. x \in C
    OBVIOUS
  <2> HIDE DEF C
  <2> QED
    BY <2>1, <2>2, <2>3 DEF Proper
<1> QED
  BY <1>1, <1>2

LEMMA ProperAtIs ==
    ASSUME NEW n \in Nat
    PROVE  /\ ProperAt(n) \subseteq Proper /\ ProperAt(n) \subseteq AllObjects
           /\ ProperAt(n) \subseteq Objects[n]
           /\ \A m \in Nat : n <= m => ProperAt(n) \subseteq ProperAt(m)
<1>1. ProperAt(n) \subseteq Proper /\ ProperAt(n) \subseteq AllObjects /\ ProperAt(n) \subseteq Objects[n]
  BY ProperIs DEF ProperAt
<1>2. \A m \in Nat : n <= m => Objects[n] \subseteq Objects[m]
  BY ObjectsGrow
<1>3. \A m \in Nat : n <= m => ProperAt(n) \subseteq ProperAt(m)
  BY <1>2 DEF ProperAt
<1> QED
  BY <1>1, <1>3

LEMMA LeavesProper ==
    ASSUME NEW n \in Nat
    PROVE  /\ Nil \in ProperAt(n)
           /\ \A k \in Number : Num(k) \in ProperAt(n)
           /\ \A s \in Str : StrObj(s) \in ProperAt(n)
           /\ \A t \in {t \in Seq(Byte) : Len(t) = 4} : Obj("float", t) \in ProperAt(n)
<1>1. ASSUME NEW x \in Leaf, Sendable(x), x.type \notin {"array", "map"} PROVE x \in ProperAt(n)
  <2>1. Leaf \subseteq Objects[n]
    BY ObjectsIs, ObjectsGrow
  <2>2. x \in Objects[n] /\ x \in AllObjects
    BY <2>1 DEF AllObjects
  <2>3. x \in Proper
    BY <1>1, <2>2, ProperIs
  <2> QED
    BY <2>2, <2>3 DEF ProperAt
<1>2. Nil \in ProperAt(n)
  <2>1. Nil \in Leaf /\ Nil.type = "nil"
    BY DEF Leaf, Nil
  <2>2. Sendable(Nil)
    BY DEF Sendable
  <2>3. Nil.type \notin {"array", "map"}
    BY <2>1
  <2> QED
    BY <1>1, <2>1, <2>2, <2>3
<1>3. ASSUME NEW k \in Number PROVE Num(k) \in ProperAt(n)
  <2>1. k \in Nat
    BY SmallTypes
  <2>2. Num(k) = [type |-> "positive", v |-> k]
    BY <2>1 DEF Num
  <2>3. Num(k) \in [type : {"positive"}, v : Nat]
    BY <2>1, <2>2
  <2>4. Num(k) \in Leaf
    BY <2>3, Zenon DEF Leaf
  <2>5. Num(k).type = "positive" /\ Num(k).v = k
    BY <2>2
  <2>6. Sendable(Num(k))
    BY <2>5, Zenon DEF Sendable
  <2>7. Num(k).type \notin {"array", "map"}
    BY <2>5
  <2> QED
    BY <1>1, <2>4, <2>6, <2>7, Zenon
<1>4. ASSUME NEW s \in Str PROVE StrObj(s) \in ProperAt(n)
  <2>1. s \in Seq(Byte)
    BY SmallTypes
  <2>2. StrObj(s) = [type |-> "str", v |-> s]
    BY DEF StrObj, Obj
  <2> HIDE DEF Byte
  <2>3. StrObj(s) \in [type : {"str", "float"}, v : Seq(Byte)]
    BY <2>1, <2>2
  <2>4. StrObj(s) \in Leaf
    BY <2>3, Zenon DEF Leaf
  <2>5. StrObj(s).type = "str" /\ StrObj(s).v = s
    BY <2>2
  <2>6. Sendable(StrObj(s))
    BY <2>5, Zenon DEF Sendable
  <2>7. StrObj(s).type \notin {"array", "map"}
    BY <2>5
  <2> QED
    BY <1>1, <2>4, <2>6, <2>7, Zenon
<1>5. ASSUME NEW t \in {t \in Seq(Byte) : Len(t) = 4} PROVE Obj("float", t) \in ProperAt(n)
  <2> HIDE DEF Byte
  <2>1. t \in Seq(Byte)
    OBVIOUS
  <2> DEFINE x == Obj("float", t)
  <2>2. x = [type |-> "float", v |-> t]
    BY DEF Obj
  <2>3. x \in [type : {"str", "float"}, v : Seq(Byte)]
    BY <2>1, <2>2
  <2> HIDE DEF x
  <2>4. x \in Leaf
    BY <2>3, Zenon DEF Leaf
  <2>5. x.type = "float" /\ x.v = t
    BY <2>2
  <2>6. Sendable(x)
    BY <2>5, Zenon DEF Sendable
  <2>7. x.type \notin {"array", "map"}
    BY <2>5
  <2>8. x \in ProperAt(n)
    BY <1>1, <2>4, <2>6, <2>7, Zenon
  <2> QED
    BY <2>8 DEF x
<1> QED
  BY <1>2, <1>3, <1>4, <1>5

LEMMA ContainersProper ==
    ASSUME NEW n \in Nat
    PROVE  /\ \A s \in Seq(ProperAt(n)) : Len(s) \in Number => Obj("array", s) \in ProperAt(n + 1)
           /\ \A s \in Seq(ProperAt(n) \X ProperAt(n)) :
                 Len(s) \in Number => Obj("map", s) \in ProperAt(n + 1)
<1> DEFINE S == ProperAt(n)
<1>1. S \subseteq Objects[n] /\ S \subseteq Proper /\ n + 1 \in Nat
  BY ProperAtIs
<1>2. ASSUME NEW x \in Container(S), Len(x.v) \in Number PROVE x \in ProperAt(n + 1)
  <2> HIDE DEF S
  <2>1. x.type \in {"array", "map"}
    BY DEF Container
  <2>2. S \X S \subseteq Objects[n] \X Objects[n]
    BY <1>1
  <2>3. Seq(S) \subseteq Seq(Objects[n]) /\ Seq(S \X S) \subseteq Seq(Objects[n] \X Objects[n])
    BY <1>1, <2>2, SeqMonotonic
  <2>4. x \in Container(Objects[n])
    BY <2>3 DEF Container
  <2>5. x \in Objects[n + 1]
    BY <2>4, ObjectsIs
  <2>6. x \in AllObjects
    BY <1>1, <2>5 DEF AllObjects
  <2>7. Items(x) \subseteq Proper
    BY <1>1, ItemsOf
  <2>8. Sendable(x)
    BY <1>2, <2>1, Zenon DEF Sendable
  <2>9. x \in Proper
    BY <2>6, <2>7, <2>8, ProperIs
  <2> QED
    BY <2>5, <2>9 DEF ProperAt
<1>3. ASSUME NEW s \in Seq(S), Len(s) \in Number PROVE Obj("array", s) \in ProperAt(n + 1)
  <2> HIDE DEF S
  <2>1. Obj("array", s) \in Container(S) /\ Obj("array", s).v = s
    BY DEF Container, Obj
  <2> QED
    BY <1>2, <1>3, <2>1
<1>4. ASSUME NEW s \in Seq(S \X S), Len(s) \in Number PROVE Obj("map", s) \in ProperAt(n + 1)
  <2> HIDE DEF S
  <2>1. Obj("map", s) \in Container(S) /\ Obj("map", s).v = s
    BY DEF Container, Obj
  <2> QED
    BY <1>2, <1>4, <2>1
<1> QED
  BY <1>3, <1>4

\* Characters are strings that fit.
LEMMA CharIsStr ==
    ASSUME NEW k \in Byte
    PROVE  <<k>> \in Str
<1>1. <<k>> \in Seq(Byte) /\ Len(<<k>>) = 1
  <2> HIDE DEF Byte
  <2> QED
    OBVIOUS
<1>2. 1 \in Number
  BY SMT DEF Number
<1> QED
  BY <1>1, <1>2, SMT DEF Str

LEMMA MapObjProper ==
    ASSUME NEW n \in Nat, NEW keys \in Seq(Byte), NEW vals \in Seq(ProperAt(n)), Len(vals) = Len(keys),
           Len(keys) \in Number
    PROVE  MapObj(keys, vals) \in ProperAt(n + 1)
<1> HIDE DEF Byte
<1> DEFINE S == ProperAt(n)
           pair(i) == <<StrObj(<<keys[i]>>), vals[i]>>
           s == [i \in DOMAIN keys |-> pair(i)]
<1>1. Len(keys) \in Nat /\ DOMAIN keys = 1..Len(keys) /\ DOMAIN vals = 1..Len(keys)
      /\ \A i \in DOMAIN keys : keys[i] \in Byte /\ vals[i] \in S
  BY LenProperties, ElementOfSeq
<1>2. ASSUME NEW i \in DOMAIN keys PROVE pair(i) \in S \X S
  <2>1. <<keys[i]>> \in Str
    BY <1>1, CharIsStr
  <2>2. StrObj(<<keys[i]>>) \in S
    BY <2>1, LeavesProper
  <2> HIDE DEF S
  <2> QED
    BY <1>1, <2>2
<1>3. s \in Seq(S \X S) /\ Len(s) = Len(keys)
  <2> HIDE DEF S, pair
  <2> QED
    BY <1>1, <1>2
<1>4. MapObj(keys, vals) = Obj("map", s)
  BY DEF MapObj
<1> HIDE DEF s
<1> QED
  BY <1>3, <1>4, ContainersProper

LEMMA BytesOfLeaves ==
    /\ Bytes[Nil] = PackNil
    /\ \A k \in Number : Bytes[Num(k)] = PackInt(k)
    /\ \A s \in Str : Bytes[StrObj(s)] = PackStr(s)
    /\ \A t \in {t \in Seq(Byte) : Len(t) = 4} : Bytes[Obj("float", t)] = PackFloat(t)
<1>1. \A x \in ProperAt(0) : Bytes[x] = Packed(x, Bytes)
  BY BytesIs, ProperAtIs
<1>2. Bytes[Nil] = PackNil
  <2>1. Bytes[Nil] = Packed(Nil, Bytes) /\ Nil.type = "nil"
    BY <1>1, LeavesProper DEF Nil
  <2> QED
    BY <2>1 DEF Packed
<1>3. ASSUME NEW k \in Number PROVE Bytes[Num(k)] = PackInt(k)
  <2>1. k \in Nat
    BY SmallTypes
  <2>2. Num(k).type = "positive" /\ Num(k).v = k
    BY <2>1 DEF Num
  <2>3. Bytes[Num(k)] = Packed(Num(k), Bytes)
    BY <1>1, LeavesProper
  <2> QED
    BY <2>2, <2>3 DEF Packed
<1>4. ASSUME NEW s \in Str PROVE Bytes[StrObj(s)] = PackStr(s)
  <2>1. StrObj(s).type = "str" /\ StrObj(s).v = s
    BY DEF StrObj, Obj
  <2>2. Bytes[StrObj(s)] = Packed(StrObj(s), Bytes)
    BY <1>1, LeavesProper
  <2> QED
    BY <2>1, <2>2 DEF Packed
<1>5. ASSUME NEW t \in {t \in Seq(Byte) : Len(t) = 4} PROVE Bytes[Obj("float", t)] = PackFloat(t)
  <2>1. Obj("float", t).type = "float" /\ Obj("float", t).v = t
    BY DEF Obj
  <2>2. Bytes[Obj("float", t)] = Packed(Obj("float", t), Bytes)
    BY <1>1, LeavesProper
  <2> QED
    BY <2>1, <2>2 DEF Packed
<1> QED
  BY <1>2, <1>3, <1>4, <1>5

\* A map is packed as its pairs are.
LEMMA BytesOfPairs ==
    ASSUME NEW n \in Nat, NEW keys \in Seq(Byte), NEW vals \in Seq(ProperAt(n)), Len(vals) = Len(keys),
           Len(keys) \in Number, NEW packed, \A i \in DOMAIN keys : packed[i] = Bytes[vals[i]]
    PROVE  Bytes[MapObj(keys, vals)] = PackPairs(keys, packed)
<1> HIDE DEF Byte
<1> DEFINE o == MapObj(keys, vals)
<1>1. Bytes[o] = Packed(o, Bytes)
  <2>1. o \in ProperAt(n + 1) /\ n + 1 \in Nat
    BY MapObjProper
  <2>2. o \in AllObjects
    BY <2>1, ProperAtIs
  <2> QED
    BY <2>2, BytesIs
<1>2. o.type = "map" /\ o.v = [i \in DOMAIN keys |-> <<StrObj(<<keys[i]>>), vals[i]>>]
  BY DEF MapObj, Obj
<1>3. Len(keys) \in Nat /\ DOMAIN keys = 1..Len(keys) /\ \A i \in DOMAIN keys : keys[i] \in Byte
  BY LenProperties, ElementOfSeq
<1>4. DOMAIN o.v = DOMAIN keys /\ Len(o.v) = Len(keys)
  BY <1>2, <1>3
<1>5. Bytes[o] = PackMap(Len(keys))
                 \o FlattenSeq([i \in DOMAIN keys |-> Bytes[o.v[i][1]] \o Bytes[o.v[i][2]]])
  BY <1>1, <1>2, <1>4 DEF Packed
<1>6. ASSUME NEW i \in DOMAIN keys
      PROVE  Bytes[o.v[i][1]] \o Bytes[o.v[i][2]] = PackStr(<<keys[i]>>) \o packed[i]
  <2>1. o.v[i][1] = StrObj(<<keys[i]>>) /\ o.v[i][2] = vals[i]
    BY <1>2
  <2>2. <<keys[i]>> \in Str
    BY <1>3, CharIsStr
  <2>3. Bytes[StrObj(<<keys[i]>>)] = PackStr(<<keys[i]>>)
    BY <2>2, BytesOfLeaves
  <2> QED
    BY <2>1, <2>3
<1>7. [i \in DOMAIN keys |-> Bytes[o.v[i][1]] \o Bytes[o.v[i][2]]]
      = [i \in DOMAIN keys |-> PackStr(<<keys[i]>>) \o packed[i]]
  <2> HIDE DEF o
  <2> QED
    BY <1>6
<1> QED
  BY <1>5, <1>7 DEF PackPairs

\* What a null pointer is taken for.
OrNilObj(v, o) == IF v = Null THEN Nil ELSE o

LEMMA OffsetBytes ==
    ASSUME NEW n \in Nat, NEW v \in OrNull(Number)
    PROVE  OffsetObj(v) \in ProperAt(n) /\ Bytes[OffsetObj(v)] = PackModuleOffset(v)
<1>1. CASE v = Null
  <2>1. OffsetObj(v) = Nil /\ PackModuleOffset(v) = PackNil
    BY <1>1 DEF OffsetObj, PackModuleOffset, OrNil
  <2>2. Nil \in ProperAt(n) /\ Bytes[Nil] = PackNil
    BY LeavesProper, BytesOfLeaves
  <2> QED
    BY <2>1, <2>2
<1>2. CASE v # Null
  <2>1. v \in Number
    BY <1>2 DEF OrNull
  <2>2. OffsetObj(v) = Num(v) /\ PackModuleOffset(v) = PackInt(v)
    BY <1>2 DEF OffsetObj, PackModuleOffset, OrNil
  <2>3. Num(v) \in ProperAt(n) /\ Bytes[Num(v)] = PackInt(v)
    BY <2>1, LeavesProper, BytesOfLeaves
  <2> QED
    BY <2>2, <2>3
<1> QED
  BY <1>1, <1>2

LEMMA NamesBytes ==
    ASSUME NEW n \in Nat, NEW s \in OrNull(Str)
    PROVE  LET o == IF s = Null THEN Nil ELSE StrObj(s)
           IN  o \in ProperAt(n) /\ Bytes[o] = OrNil(s, PackStr(s))
<1>1. CASE s = Null
  <2>1. Nil \in ProperAt(n) /\ Bytes[Nil] = PackNil
    BY LeavesProper, BytesOfLeaves
  <2> QED
    BY <1>1, <2>1 DEF OrNil
<1>2. CASE s # Null
  <2>1. s \in Str
    BY <1>2 DEF OrNull
  <2>2. StrObj(s) \in ProperAt(n) /\ Bytes[StrObj(s)] = PackStr(s)
    BY <2>1, LeavesProper, BytesOfLeaves
  <2> QED
    BY <1>2, <2>2 DEF OrNil
<1> QED
  BY <1>1, <1>2

LEMMA KeysFit == 2 \in Number /\ 5 \in Number /\ 12 \in Number
BY SMT DEF Number

\* A field is packed as the object it is to be read as.
LEMMA FieldBytes ==
    ASSUME NEW n \in Nat, NEW f \in Field, NEW td \in ProperAt(n)
    PROVE  /\ FieldObj(f, td) \in ProperAt(n + 1)
           /\ Bytes[FieldObj(f, td)] = PackField(f, Bytes[td])
<1> DEFINE S == ProperAt(n)
           o1 == StrObj(f.name)
           o2 == Num(f.type)
           o3 == Num(f.flags)
           o4 == IF f.external = Null THEN Nil ELSE StrObj(f.external)
           o5 == Num(f.off)
           o6 == Num(f.n_elems)
           o7 == Num(f.size)
           o8 == OffsetObj(f.ops)
           o9 == OffsetObj(f.func)
           oa == Num(f.override)
           ob == Obj("float", f.tol)
           vals == <<o1, o2, o3, o4, o5, o6, o7, o8, o9, td, oa, ob>>
           p1 == PackStr(f.name)
           p2 == PackInt(f.type)
           p3 == PackInt(f.flags)
           p4 == OrNil(f.external, PackStr(f.external))
           p5 == PackInt(f.off)
           p6 == PackInt(f.n_elems)
           p7 == PackInt(f.size)
           p8 == PackModuleOffset(f.ops)
           p9 == PackModuleOffset(f.func)
           pa == PackInt(f.override)
           pb == PackFloat(f.tol)
           packed == <<p1, p2, p3, p4, p5, p6, p7, p8, p9, Bytes[td], pa, pb>>
<1>1. /\ f.name \in Str /\ f.external \in OrNull(Str) /\ f.ops \in OrNull(Number)
      /\ f.func \in OrNull(Number) /\ f.tol \in {t \in Seq(Byte) : Len(t) = 4}
  BY Zenon DEF Field
<1>2. /\ f.type \in Number /\ f.flags \in Number /\ f.off \in Number /\ f.n_elems \in Number
      /\ f.size \in Number /\ f.override \in Number
  BY Zenon DEF Field
<1>3. \A k \in Number : Num(k) \in S /\ Bytes[Num(k)] = PackInt(k)
  BY LeavesProper, BytesOfLeaves
<1>4. o1 \in S /\ Bytes[o1] = p1
  BY <1>1, LeavesProper, BytesOfLeaves
<1>5. /\ o2 \in S /\ o3 \in S /\ o5 \in S /\ o6 \in S /\ o7 \in S /\ oa \in S
      /\ Bytes[o2] = p2 /\ Bytes[o3] = p3 /\ Bytes[o5] = p5 /\ Bytes[o6] = p6 /\ Bytes[o7] = p7
      /\ Bytes[oa] = pa
  BY <1>2, <1>3, Zenon
<1>6. o4 \in S /\ Bytes[o4] = p4
  BY <1>1, NamesBytes, Zenon
<1>7. o8 \in S /\ o9 \in S /\ Bytes[o8] = p8 /\ Bytes[o9] = p9
  BY <1>1, OffsetBytes, Zenon
<1>8. ob \in S /\ Bytes[ob] = pb
  BY <1>1, LeavesProper, BytesOfLeaves, Zenon
<1>9. FieldObj(f, td) = MapObj(TdKeys, vals) /\ PackField(f, Bytes[td]) = PackPairs(TdKeys, packed)
  BY DEF FieldObj, PackField
<1> HIDE DEF o1, o2, o3, o4, o5, o6, o7, o8, o9, oa, ob, p1, p2, p3, p4, p5, p6, p7, p8, p9, pa, pb
<1>10. vals \in Seq(S) /\ Len(vals) = 12
  <2> HIDE DEF S
  <2>1. td \in S
    BY DEF S
  <2> QED
    BY <2>1, <1>4, <1>5, <1>6, <1>7, <1>8
<1>11. \A i \in 1..12 : packed[i] = Bytes[vals[i]]
  <2> SUFFICES ASSUME NEW i \in 1..12 PROVE packed[i] = Bytes[vals[i]]
    OBVIOUS
  <2>1. i \in {1, 2, 3, 4} \/ i \in {5, 6, 7, 8} \/ i \in {9, 10, 11, 12}
    OBVIOUS
  <2>2. CASE i \in {1, 2, 3, 4}
    BY <1>4, <1>5, <1>6, <2>2
  <2>3. CASE i \in {5, 6, 7, 8}
    BY <1>5, <1>7, <2>3
  <2>4. CASE i \in {9, 10, 11, 12}
    BY <1>5, <1>7, <1>8, <2>4
  <2> QED
    BY <2>1, <2>2, <2>3, <2>4
<1>12. Len(TdKeys) = 12 /\ TdKeys \in Seq(Byte) /\ DOMAIN TdKeys = 1..12
  BY KeysAre, LenProperties
<1> HIDE DEF vals, packed, S
<1>13. TdKeys \in Seq(Byte) /\ Len(TdKeys) \in Number /\ Len(vals) = Len(TdKeys)
  <2>1. TdKeys \in Seq(Byte)
    BY <1>12
  <2>2. Len(TdKeys) = 12
    BY <1>12
  <2> QED
    BY <1>10, <2>1, <2>2, KeysFit, Zenon
<1>14. vals \in Seq(ProperAt(n))
  BY <1>10, Zenon DEF S
<1>15. \A i \in DOMAIN TdKeys : packed[i] = Bytes[vals[i]]
  BY <1>11, <1>12, Zenon
<1>16. MapObj(TdKeys, vals) \in ProperAt(n + 1)
  BY <1>13, <1>14, MapObjProper, Zenon
<1>17. Bytes[MapObj(TdKeys, vals)] = PackPairs(TdKeys, packed)
  BY <1>13, <1>14, <1>15, BytesOfPairs, Zenon
<1> QED
  BY <1>9, <1>16, <1>17, Zenon
-----------------------------------------------------------------------------
\* A datamap as it is to be read, what it refers to being so already.
FieldObjs(dm, f) ==
    IF dm.fields = <<EmptyDesc>> THEN <<>>
    ELSE [i \in DOMAIN dm.fields |-> FieldObj(dm.fields[i], OrNilObj(dm.fields[i].td, f[dm.fields[i].td]))]

DmBody(dm, f) ==
    MapObj(DmKeys, <<StrObj(dm.name), StrObj(dm.module), Num(dm.off), OrNilObj(dm.base, f[dm.base]),
                     Obj("array", FieldObjs(dm, f))>>)

\* What a datamap refers to has a lower rank.
LEMMA RefsAre ==
    ASSUME NEW dm \in Datamap
    PROVE  /\ Rank[dm] \in Nat
           /\ dm.base # Null => dm.base \in Datamap /\ Rank[dm.base] \in Nat /\ Rank[dm.base] < Rank[dm]
           /\ dm.fields # <<EmptyDesc>> =>
                 \A i \in DOMAIN dm.fields : dm.fields[i].td # Null =>
                    /\ dm.fields[i].td \in Datamap
                    /\ Rank[dm.fields[i].td] \in Nat /\ Rank[dm.fields[i].td] < Rank[dm]
<1>1. Rank \in [Datamap -> Nat]
  BY DatamapAssumption, Zenon
<1>2. /\ dm.base # Null => Rank[dm.base] < Rank[dm]
      /\ \A i \in DOMAIN dm.fields : dm.fields[i].td # Null => Rank[dm.fields[i].td] < Rank[dm]
  BY DatamapAssumption, Zenon
<1>3. dm.base # Null => dm.base \in Datamap
  BY FieldsAre DEF OrNull
<1>4. ASSUME dm.fields # <<EmptyDesc>>, NEW i \in DOMAIN dm.fields, dm.fields[i].td # Null
      PROVE  dm.fields[i].td \in Datamap
  <2>1. dm.fields \in Seq(Field)
    BY <1>4, FieldsAre
  <2>2. dm.fields[i] \in Field
    BY <2>1, LenProperties, ElementOfSeq
  <2>3. dm.fields[i].td \in OrNull(Datamap)
    BY <2>2, Zenon DEF Field
  <2> QED
    BY <1>4, <2>3 DEF OrNull
<1> QED
  BY <1>1, <1>2, <1>3, <1>4

LEMMA DmBodyByRank ==
    ASSUME NEW dm \in Datamap, NEW f, NEW g, \A e \in Datamap : Rank[e] < Rank[dm] => f[e] = g[e]
    PROVE  DmBody(dm, f) = DmBody(dm, g)
<1> DEFINE base(h) == OrNilObj(dm.base, h[dm.base])
           item(i, h) == FieldObj(dm.fields[i], OrNilObj(dm.fields[i].td, h[dm.fields[i].td]))
<1>1. base(f) = base(g)
  <2>1. dm.base # Null => f[dm.base] = g[dm.base]
    BY RefsAre
  <2> QED
    BY <2>1 DEF OrNilObj
<1>2. FieldObjs(dm, f) = FieldObjs(dm, g)
  <2>1. CASE dm.fields = <<EmptyDesc>>
    BY <2>1, Zenon DEF FieldObjs
  <2>2. CASE dm.fields # <<EmptyDesc>>
    <3>1. ASSUME NEW i \in DOMAIN dm.fields PROVE item(i, f) = item(i, g)
      <4>1. dm.fields[i].td # Null => f[dm.fields[i].td] = g[dm.fields[i].td]
        BY <2>2, RefsAre
      <4>2. OrNilObj(dm.fields[i].td, f[dm.fields[i].td]) = OrNilObj(dm.fields[i].td, g[dm.fields[i].td])
        BY <4>1 DEF OrNilObj
      <4> QED
        BY <4>2, Zenon
    <3>2. \A h : FieldObjs(dm, h) = [i \in DOMAIN dm.fields |-> item(i, h)]
      BY <2>2 DEF FieldObjs
    <3> HIDE DEF item
    <3> QED
      BY <3>1, <3>2
  <2> QED
    BY <2>1, <2>2
<1>3. \A h : DmBody(dm, h) = MapObj(DmKeys, <<StrObj(dm.name), StrObj(dm.module), Num(dm.off), base(h),
                                             Obj("array", FieldObjs(dm, h))>>)
  BY DEF DmBody
<1> HIDE DEF base
<1> QED
  BY <1>1, <1>2, <1>3

\* What a datamap is sent as: a value that fits, with the bytes that it is packed into.
DmDepth(dm) == 3 * Rank[dm] + 3

SentAs(dm, o) == o \in ProperAt(DmDepth(dm)) /\ Bytes[o] = PackDm[dm]

LEMMA DepthsAre ==
    ASSUME NEW dm \in Datamap
    PROVE  /\ DmDepth(dm) \in Nat /\ 3 * Rank[dm] \in Nat /\ DmDepth(dm) = 3 * Rank[dm] + 3
           /\ \A e \in Datamap : Rank[e] < Rank[dm] => DmDepth(e) <= 3 * Rank[dm]
<1>1. Rank \in [Datamap -> Nat]
  BY DatamapAssumption, Zenon
<1>2. Rank[dm] \in Nat /\ \A e \in Datamap : Rank[e] \in Nat
  BY <1>1
<1> QED
  BY <1>2 DEF DmDepth

LEMMA RefSent ==
    ASSUME NEW dm \in Datamap, NEW f, \A e \in Datamap : Rank[e] < Rank[dm] => SentAs(e, f[e]),
           NEW v, v # Null => v \in Datamap /\ Rank[v] < Rank[dm]
    PROVE  /\ OrNilObj(v, f[v]) \in ProperAt(3 * Rank[dm])
           /\ Bytes[OrNilObj(v, f[v])] = OrNil(v, PackDm[v])
<1>1. CASE v = Null
  <2>1. 3 * Rank[dm] \in Nat
    BY DepthsAre
  <2>2. Nil \in ProperAt(3 * Rank[dm]) /\ Bytes[Nil] = PackNil
    BY <2>1, LeavesProper, BytesOfLeaves
  <2> QED
    BY <1>1, <2>2 DEF OrNil, OrNilObj
<1>2. CASE v # Null
  <2>1. SentAs(v, f[v]) /\ DmDepth(v) \in Nat /\ 3 * Rank[dm] \in Nat /\ DmDepth(v) <= 3 * Rank[dm]
    BY <1>2, DepthsAre
  <2>2. ProperAt(DmDepth(v)) \subseteq ProperAt(3 * Rank[dm])
    BY <2>1, ProperAtIs
  <2> QED
    BY <1>2, <2>1, <2>2 DEF OrNil, OrNilObj, SentAs
<1> QED
  BY <1>1, <1>2

LEMMA ArrayBytes ==
    ASSUME NEW n \in Nat, NEW s \in Seq(ProperAt(n)), Len(s) \in Number
    PROVE  /\ Obj("array", s) \in ProperAt(n + 1)
           /\ Bytes[Obj("array", s)] = PackArray(Len(s)) \o FlattenSeq([i \in DOMAIN s |-> Bytes[s[i]]])
           /\ s = <<>> => Bytes[Obj("array", s)] = PackArray(0)
<1> DEFINE o == Obj("array", s)
<1>1. o \in ProperAt(n + 1)
  BY ContainersProper
<1>2. o \in AllObjects
  BY <1>1, ProperAtIs
<1>3. o.type = "array" /\ o.v = s
  BY DEF Obj
<1>4. Bytes[o] = PackArray(Len(s)) \o FlattenSeq([i \in DOMAIN s |-> Bytes[s[i]]])
  BY <1>2, <1>3, BytesIs DEF Packed
<1> HIDE DEF o
<1>5. s = <<>> => Bytes[o] = PackArray(0)
  <2> SUFFICES ASSUME s = <<>> PROVE Bytes[o] = PackArray(0)
    OBVIOUS
  <2>1. [i \in DOMAIN s |-> Bytes[s[i]]] = <<>> /\ Len(s) = 0
    OBVIOUS
  <2>2. FlattenSeq(<<>>) = <<>>
    BY DEF FlattenSeq
  <2>3. PackArray(0) \in Seq(Byte)
    BY PackHeads
  <2>4. PackArray(0) \o <<>> = PackArray(0)
    <3> HIDE DEF Byte
    <3> QED
      BY <2>3, ConcatEmptySeq
  <2> QED
    BY <1>4, <2>1, <2>2, <2>4, Zenon
<1> QED
  BY <1>1, <1>4, <1>5 DEF o

\* The fields of a datamap.
LEMMA FieldsSent ==
    ASSUME NEW dm \in Datamap, NEW f, \A e \in Datamap : Rank[e] < Rank[dm] => SentAs(e, f[e])
    PROVE  LET o == Obj("array", FieldObjs(dm, f))
           IN  /\ o \in ProperAt(3 * Rank[dm] + 2)
               /\ Bytes[o] =
                     IF dm.fields = <<EmptyDesc>> THEN PackArray(0)
                     ELSE PackArray(Len(dm.fields)) \o
                          FlattenSeq([i \in DOMAIN dm.fields |->
                              PackField(dm.fields[i], OrNil(dm.fields[i].td, PackDm[dm.fields[i].td]))])
<1> DEFINE r == 3 * Rank[dm]
           fo == FieldObjs(dm, f)
           o == Obj("array", fo)
<1>1. r \in Nat /\ r + 1 \in Nat /\ (r + 1) + 1 = r + 2
  <2>1. 3 * Rank[dm] \in Nat
    BY DepthsAre
  <2> QED
    BY <2>1
<1>2. CASE dm.fields = <<EmptyDesc>>
  <2>1. fo = <<>>
    BY <1>2, Zenon DEF FieldObjs
  <2>2. <<>> \in Seq(ProperAt(r + 1)) /\ Len(<<>>) \in Number
    <3>1. Len(<<>>) = 0 /\ 0 \in Number
      BY SMT DEF Number
    <3> QED
      BY <3>1
  <2>3. o \in ProperAt(r + 2) /\ Bytes[o] = PackArray(0)
    <3> HIDE DEF r, fo
    <3> QED
      BY <1>1, <2>1, <2>2, ArrayBytes
  <2> QED
    BY <1>2, <2>3
<1>3. CASE dm.fields # <<EmptyDesc>>
  <2> DEFINE item(i) == FieldObj(dm.fields[i], OrNilObj(dm.fields[i].td, f[dm.fields[i].td]))
             bytes(i) == PackField(dm.fields[i], OrNil(dm.fields[i].td, PackDm[dm.fields[i].td]))
  <2>1. fo = [i \in DOMAIN dm.fields |-> item(i)]
    BY <1>3 DEF FieldObjs
  <2>2. dm.fields \in Seq(Field)
    BY <1>3, FieldsAre
  <2>3. Len(dm.fields) \in Nat /\ DOMAIN dm.fields = 1..Len(dm.fields)
        /\ \A i \in DOMAIN dm.fields : dm.fields[i] \in Field
    BY <2>2, LenProperties, ElementOfSeq
  <2>4. ASSUME NEW i \in DOMAIN dm.fields PROVE item(i) \in ProperAt(r + 1) /\ Bytes[item(i)] = bytes(i)
    <3> DEFINE td == OrNilObj(dm.fields[i].td, f[dm.fields[i].td])
    <3>1. dm.fields[i].td # Null => dm.fields[i].td \in Datamap /\ Rank[dm.fields[i].td] < Rank[dm]
      BY <1>3, RefsAre
    <3>2. td \in ProperAt(r) /\ Bytes[td] = OrNil(dm.fields[i].td, PackDm[dm.fields[i].td])
      BY <3>1, RefSent
    <3>3. dm.fields[i] \in Field
      BY <2>3
    <3> HIDE DEF td, r
    <3>4. FieldObj(dm.fields[i], td) \in ProperAt(r + 1)
          /\ Bytes[FieldObj(dm.fields[i], td)] = PackField(dm.fields[i], Bytes[td])
      BY <1>1, <3>2, <3>3, FieldBytes
    <3> QED
      BY <3>2, <3>4 DEF td
  <2> HIDE DEF item, bytes, r, fo
  <2>5. fo \in Seq(ProperAt(r + 1)) /\ Len(fo) = Len(dm.fields) /\ DOMAIN fo = DOMAIN dm.fields
    BY <2>1, <2>3, <2>4
  <2>6. Len(fo) \in Number
    <3>1. Len(dm.fields) \in Number
      BY DatamapAssumption, Zenon
    <3> QED
      BY <2>5, <3>1, Zenon
  <2>7. o \in ProperAt((r + 1) + 1)
        /\ Bytes[o] = PackArray(Len(fo)) \o FlattenSeq([i \in DOMAIN fo |-> Bytes[fo[i]]])
    BY <1>1, <2>5, <2>6, ArrayBytes
  <2>8. [i \in DOMAIN fo |-> Bytes[fo[i]]] = [i \in DOMAIN dm.fields |-> bytes(i)]
    <3>1. \A i \in DOMAIN fo : Bytes[fo[i]] = bytes(i)
      BY <2>1, <2>4, <2>5
    <3> QED
      BY <2>5, <3>1
  <2>9. o \in ProperAt(r + 2)
        /\ Bytes[o] = PackArray(Len(dm.fields)) \o FlattenSeq([i \in DOMAIN dm.fields |-> bytes(i)])
    <3> HIDE DEF o
    <3> QED
      BY <1>1, <2>5, <2>7, <2>8
  <2> QED
    BY <1>3, <2>9 DEF r, fo, bytes
<1> QED
  BY <1>2, <1>3

LEMMA DmBodySent ==
    ASSUME NEW dm \in Datamap, NEW f, \A e \in Datamap : Rank[e] < Rank[dm] => SentAs(e, f[e])
    PROVE  SentAs(dm, DmBody(dm, f))
<1> DEFINE r == 3 * Rank[dm]
           S == ProperAt(r + 2)
           o1 == StrObj(dm.name)
           o2 == StrObj(dm.module)
           o3 == Num(dm.off)
           o4 == OrNilObj(dm.base, f[dm.base])
           o5 == Obj("array", FieldObjs(dm, f))
           vals == <<o1, o2, o3, o4, o5>>
           p1 == PackStr(dm.name)
           p2 == PackStr(dm.module)
           p3 == PackModuleOffset(dm.off)
           p4 == OrNil(dm.base, PackDm[dm.base])
           p5 == IF dm.fields = <<EmptyDesc>> THEN PackArray(0)
                 ELSE PackArray(Len(dm.fields)) \o
                      FlattenSeq([i \in DOMAIN dm.fields |->
                          PackField(dm.fields[i], OrNil(dm.fields[i].td, PackDm[dm.fields[i].td]))])
           packed == <<p1, p2, p3, p4, p5>>
<1>1. r \in Nat /\ r + 2 \in Nat /\ (r + 2) + 1 = DmDepth(dm) /\ r <= r + 2
  <2>1. 3 * Rank[dm] \in Nat /\ DmDepth(dm) = 3 * Rank[dm] + 3
    BY DepthsAre
  <2> QED
    BY <2>1
<1>2. dm.name \in Str /\ dm.module \in Str /\ dm.off \in Number
  BY FieldsAre
<1>3. o1 \in S /\ o2 \in S /\ Bytes[o1] = p1 /\ Bytes[o2] = p2
  BY <1>1, <1>2, LeavesProper, BytesOfLeaves
<1>4. o3 \in S /\ Bytes[o3] = p3
  <2>1. dm.off # Null
    BY <1>2, DatamapAssumption, Zenon
  <2>2. p3 = PackInt(dm.off)
    BY <2>1 DEF PackModuleOffset, OrNil
  <2> QED
    BY <1>1, <1>2, <2>2, LeavesProper, BytesOfLeaves
<1>5. o4 \in S /\ Bytes[o4] = p4
  <2>1. dm.base # Null => dm.base \in Datamap /\ Rank[dm.base] < Rank[dm]
    BY RefsAre
  <2>2. o4 \in ProperAt(r) /\ Bytes[o4] = p4
    BY <2>1, RefSent
  <2>3. ProperAt(r) \subseteq S
    BY <1>1, ProperAtIs
  <2> QED
    BY <2>2, <2>3
<1>6. o5 \in S /\ Bytes[o5] = p5
  BY FieldsSent
<1>7. DmBody(dm, f) = MapObj(DmKeys, vals) /\ PackDm[dm] = PackPairs(DmKeys, packed)
  <2>1. PackDm[dm] = DmBytes(dm, PackDm)
    BY PackDmIs
  <2> QED
    BY <2>1 DEF DmBody, DmBytes
<1> HIDE DEF o1, o2, o3, o4, o5, p1, p2, p3, p4, p5, S
<1>8. vals \in Seq(S) /\ Len(vals) = 5
  BY <1>3, <1>4, <1>5, <1>6
<1>9. \A i \in 1..5 : packed[i] = Bytes[vals[i]]
  BY <1>3, <1>4, <1>5, <1>6
<1> HIDE DEF vals, packed, r
<1>10. DmKeys \in Seq(Byte) /\ Len(DmKeys) = 5 /\ DOMAIN DmKeys = 1..5
  BY KeysAre, LenProperties
<1>11. Len(DmKeys) \in Number /\ Len(vals) = Len(DmKeys) /\ DmKeys \in Seq(Byte)
  BY <1>8, <1>10, KeysFit
<1>12. \A i \in DOMAIN DmKeys : packed[i] = Bytes[vals[i]]
  BY <1>9, <1>10, Zenon
<1>13. vals \in Seq(ProperAt(r + 2)) /\ r + 2 \in Nat
  BY <1>1, <1>8, Zenon DEF S
<1>14. MapObj(DmKeys, vals) \in ProperAt((r + 2) + 1)
  BY <1>11, <1>13, MapObjProper, Zenon
<1>15. Bytes[MapObj(DmKeys, vals)] = PackPairs(DmKeys, packed)
  BY <1>11, <1>12, <1>13, BytesOfPairs, Zenon
<1> QED
  BY <1>1, <1>7, <1>14, <1>15, Zenon DEF SentAs

\* The datamaps, as they are to be read, are what is packed.
LEMMA DmObjIs ==
    \A dm \in Datamap : DmObj[dm] = DmBody(dm, DmObj) /\ SentAs(dm, DmObj[dm])
<1> DEFINE V == AllObjects
           body(dm, f) == IF DmBody(dm, f) \in V THEN DmBody(dm, f) ELSE Nil
           G == [e \in Datamap \X [Datamap -> V] |-> body(e[1], e[2])]
<1>1. \A dm \in Datamap : \A f \in [Datamap -> V] : G[<<dm, f>>] = body(dm, f)
  OBVIOUS
<1>2. Rank \in [Datamap -> Nat]
  BY DatamapAssumption, Zenon
<1>3. ByRank(Datamap, Rank, V, G)
  <2>1. V # {} /\ Nil \in V
    BY LeavesProper, ProperAtIs
  <2>2. G \in [Datamap \X [Datamap -> V] -> V]
    <3>1. \A e \in Datamap \X [Datamap -> V] : body(e[1], e[2]) \in V
      <4> HIDE DEF V
      <4> QED
        BY <2>1
    <3> HIDE DEF V, body
    <3> QED
      BY <3>1
  <2>3. ASSUME NEW dm \in Datamap, NEW f \in [Datamap -> V], NEW g \in [Datamap -> V],
               \A e \in Datamap : Rank[e] < Rank[dm] => f[e] = g[e]
        PROVE  G[<<dm, f>>] = G[<<dm, g>>]
    <3>1. DmBody(dm, f) = DmBody(dm, g)
      BY <2>3, DmBodyByRank
    <3>2. body(dm, f) = body(dm, g)
      BY <3>1, Zenon
    <3> HIDE DEF body, G, V
    <3> QED
      BY <1>1, <3>2
  <2> HIDE DEF V, G
  <2> QED
    BY <1>2, <2>1, <2>2, <2>3 DEF ByRank
<1>4. PICK f \in [Datamap -> V] : \A dm \in Datamap : f[dm] = body(dm, f)
  <2> HIDE DEF V, G, body
  <2>1. Solved(Datamap, V, G)
    BY <1>3, RankRecursion, Zenon
  <2> QED
    BY <1>1, <2>1 DEF Solved
<1> DEFINE Sent(h) == {dm \in Datamap : SentAs(dm, h[dm])}
<1>5. ASSUME NEW dm \in Datamap, NEW h, \A e \in Datamap : Rank[e] < Rank[dm] => e \in Sent(h)
      PROVE  SentAs(dm, DmBody(dm, h)) /\ DmBody(dm, h) \in V
  <2>1. \A e \in Datamap : Rank[e] < Rank[dm] => SentAs(e, h[e])
    BY <1>5
  <2>2. SentAs(dm, DmBody(dm, h))
    BY <2>1, DmBodySent
  <2>3. DmDepth(dm) \in Nat
    BY DepthsAre
  <2>4. DmBody(dm, h) \in V
    BY <2>2, <2>3, ProperAtIs DEF SentAs
  <2> QED
    BY <2>2, <2>4
<1>6. \A dm \in Datamap : dm \in Sent(f)
  <2>1. ASSUME NEW dm \in Datamap, \A e \in Datamap : Rank[e] < Rank[dm] => e \in Sent(f)
        PROVE  dm \in Sent(f)
    <3>1. SentAs(dm, DmBody(dm, f)) /\ DmBody(dm, f) \in V
      BY <1>5, <2>1
    <3>2. f[dm] = DmBody(dm, f)
      BY <1>4, <3>1
    <3> QED
      BY <3>1, <3>2
  <2> HIDE DEF Sent
  <2> QED
    BY <1>2, <2>1, RankInduction
<1>7. \A dm \in Datamap : f[dm] = DmBody(dm, f)
  <2> SUFFICES ASSUME NEW dm \in Datamap PROVE f[dm] = DmBody(dm, f)
    OBVIOUS
  <2>1. DmBody(dm, f) \in V
    BY <1>5, <1>6
  <2> QED
    BY <1>4, <2>1
<1> DEFINE Is(g) == g = [dm \in Datamap |-> DmBody(dm, g)]
<1>8. DmObj = CHOOSE g : Is(g)
  BY DEF DmObj, DmBody, OrNilObj, FieldObjs
<1>9. Is(f)
  BY <1>4, <1>7
<1>10. Is(DmObj)
  <2> HIDE DEF Is
  <2> QED
    BY <1>8, <1>9, Zenon
<1>11. \A dm \in Datamap : DmObj[dm] = DmBody(dm, DmObj)
  <2> DEFINE g == DmObj
  <2>1. g = [dm \in Datamap |-> DmBody(dm, g)]
    BY <1>10
  <2> HIDE DEF g
  <2>2. \A dm \in Datamap : g[dm] = DmBody(dm, g)
    BY <2>1
  <2> QED
    BY <2>2 DEF g
<1>12. \A dm \in Datamap : dm \in Sent(DmObj)
  <2>1. ASSUME NEW dm \in Datamap, \A e \in Datamap : Rank[e] < Rank[dm] => e \in Sent(DmObj)
        PROVE  dm \in Sent(DmObj)
    <3>1. SentAs(dm, DmBody(dm, DmObj))
      BY <1>5, <2>1
    <3>2. SentAs(dm, DmObj[dm])
      BY <1>11, <3>1, Zenon
    <3> QED
      BY <3>2, Zenon
  <2> HIDE DEF Sent
  <2> QED
    BY <1>2, <2>1, RankInduction
<1> QED
  BY <1>11, <1>12, Zenon

LEMMA MapBytes ==
    ASSUME NEW n \in Nat, NEW s \in Seq(ProperAt(n) \X ProperAt(n)), Len(s) \in Number
    PROVE  /\ Obj("map", s) \in ProperAt(n + 1)
           /\ Bytes[Obj("map", s)] =
                 PackMap(Len(s)) \o FlattenSeq([i \in DOMAIN s |-> Bytes[s[i][1]] \o Bytes[s[i][2]]])
<1> DEFINE o == Obj("map", s)
<1>1. o \in ProperAt(n + 1)
  BY ContainersProper
<1>2. o \in AllObjects
  BY <1>1, ProperAtIs
<1>3. o.type = "map" /\ o.v = s
  BY DEF Obj
<1>4. Bytes[o] = PackMap(Len(s)) \o FlattenSeq([i \in DOMAIN s |-> Bytes[s[i][1]] \o Bytes[s[i][2]]])
  BY <1>2, <1>3, BytesIs DEF Packed
<1> QED
  BY <1>1, <1>4

\* The linked names of a class.
LEMMA LinkedSent ==
    ASSUME NEW l \in Seq(Str \X Str), Len(l) \in Number
    PROVE  LET o == Obj("map", [i \in DOMAIN l |-> <<StrObj(l[i][1]), StrObj(l[i][2])>>])
           IN  /\ o \in ProperAt(1) /\ o.type = "map" /\ DOMAIN o.v = DOMAIN l /\ Len(o.v) = Len(l)
               /\ \A i \in DOMAIN l : o.v[i][1].type = "str" /\ o.v[i][2].type = "str"
               /\ Bytes[o] = PackMap(Len(l)) \o
                             FlattenSeq([i \in DOMAIN l |-> PackStr(l[i][1]) \o PackStr(l[i][2])])
<1> DEFINE pair(i) == <<StrObj(l[i][1]), StrObj(l[i][2])>>
           s == [i \in DOMAIN l |-> pair(i)]
           o == Obj("map", s)
           S == ProperAt(0)
<1>1. Len(l) \in Nat /\ DOMAIN l = 1..Len(l) /\ \A i \in DOMAIN l : l[i] \in Str \X Str
  <2> HIDE DEF Str
  <2> QED
    BY LenProperties, ElementOfSeq
<1>2. \A i \in DOMAIN l : l[i][1] \in Str /\ l[i][2] \in Str
  <2> HIDE DEF Str
  <2> QED
    BY <1>1
<1>3. ASSUME NEW i \in DOMAIN l
      PROVE  /\ pair(i) \in S \X S /\ pair(i)[1].type = "str" /\ pair(i)[2].type = "str"
             /\ Bytes[pair(i)[1]] \o Bytes[pair(i)[2]] = PackStr(l[i][1]) \o PackStr(l[i][2])
  <2> DEFINE a == StrObj(l[i][1])
             b == StrObj(l[i][2])
  <2>1. a \in S /\ b \in S /\ Bytes[a] = PackStr(l[i][1]) /\ Bytes[b] = PackStr(l[i][2])
    BY <1>2, LeavesProper, BytesOfLeaves
  <2>2. a.type = "str" /\ b.type = "str"
    BY DEF StrObj, Obj
  <2> HIDE DEF a, b, S
  <2>3. pair(i) = <<a, b>>
    BY DEF a, b
  <2> HIDE DEF pair
  <2>4. pair(i)[1] = a /\ pair(i)[2] = b
    BY <2>3
  <2>5. pair(i) \in S \X S
    BY <2>1, <2>3
  <2>6. pair(i)[1].type = "str" /\ pair(i)[2].type = "str"
    BY <2>2, <2>4, Zenon
  <2>7. Bytes[pair(i)[1]] \o Bytes[pair(i)[2]] = PackStr(l[i][1]) \o PackStr(l[i][2])
    BY <2>1, <2>4, Zenon
  <2> QED
    BY <2>5, <2>6, <2>7
<1>4. s \in Seq(S \X S) /\ Len(s) = Len(l) /\ DOMAIN s = DOMAIN l
  <2>1. \A i \in DOMAIN l : pair(i) \in S \X S
    BY <1>3
  <2> HIDE DEF pair, S
  <2> QED
    BY <1>1, <2>1
<1>5. o \in ProperAt(0 + 1) /\ Bytes[o] = PackMap(Len(s)) \o
                                FlattenSeq([i \in DOMAIN s |-> Bytes[s[i][1]] \o Bytes[s[i][2]]])
  <2>1. Len(s) \in Number
    BY <1>4, Zenon
  <2> HIDE DEF s
  <2> QED
    BY <1>4, <2>1, MapBytes
<1>6. [i \in DOMAIN s |-> Bytes[s[i][1]] \o Bytes[s[i][2]]]
      = [i \in DOMAIN l |-> PackStr(l[i][1]) \o PackStr(l[i][2])]
  <2>1. \A i \in DOMAIN l : s[i] = pair(i)
    OBVIOUS
  <2>2. \A i \in DOMAIN l : Bytes[s[i][1]] \o Bytes[s[i][2]] = PackStr(l[i][1]) \o PackStr(l[i][2])
    <3> HIDE DEF s, pair
    <3> QED
      BY <1>3, <2>1
  <2> HIDE DEF s, pair
  <2> QED
    BY <1>4, <2>2
<1>7. o.type = "map" /\ o.v = s
  BY DEF Obj
<1>8. \A i \in DOMAIN l : o.v[i][1].type = "str" /\ o.v[i][2].type = "str"
  <2>1. \A i \in DOMAIN l : s[i] = pair(i)
    OBVIOUS
  <2> HIDE DEF s, pair, o
  <2> QED
    BY <1>3, <1>7, <2>1
<1>9. 0 + 1 = 1
  OBVIOUS
<1>10. o \in ProperAt(1) /\ o.type = "map" /\ DOMAIN o.v = DOMAIN l /\ Len(o.v) = Len(l)
  <2> HIDE DEF o, s
  <2> QED
    BY <1>4, <1>5, <1>7, <1>9
<1>11. Bytes[o] = PackMap(Len(l)) \o
                  FlattenSeq([i \in DOMAIN l |-> PackStr(l[i][1]) \o PackStr(l[i][2])])
  <2> HIDE DEF o, s
  <2> QED
    BY <1>4, <1>5, <1>6, Zenon
<1> QED
  BY <1>8, <1>10, <1>11

\* The value that a message is.
MsgObj(m) == MapObj(IpcKeys, <<Num(TypeNum(m.type)), AsSent(m).data>>)

DataBytes(m) ==
    CASE m.type \in {"HELLO", "GOODBYE"} -> PackNil
      [] m.type \in {"LOG_INFO", "LOG_ERROR"} -> PackStr(m.data)
      [] m.type = "DATAMAP" -> PackDm[m.data]
      [] m.type = "LINKED_NAME" ->
           PackMap(Len(m.data)) \o
           FlattenSeq([i \in DOMAIN m.data |-> PackStr(m.data[i][1]) \o PackStr(m.data[i][2])])

LEMMA DataSent ==
    ASSUME NEW m \in Message, m.type # "raw"
    PROVE  \E k \in Nat : AsSent(m).data \in ProperAt(k) /\ Bytes[AsSent(m).data] = DataBytes(m)
<1>1. CASE m.type \in {"HELLO", "GOODBYE"}
  <2>1. AsSent(m).data = Nil /\ DataBytes(m) = PackNil
    BY <1>1 DEF AsSent, DataBytes
  <2>2. Nil \in ProperAt(0) /\ Bytes[Nil] = PackNil
    BY LeavesProper, BytesOfLeaves
  <2> QED
    BY <2>1, <2>2
<1>2. CASE m.type \in {"LOG_INFO", "LOG_ERROR"}
  <2>1. m.data \in Str
    BY <1>2, TypesAre
  <2>2. AsSent(m).data = StrObj(m.data) /\ DataBytes(m) = PackStr(m.data)
    BY <1>2 DEF AsSent, DataBytes
  <2>3. StrObj(m.data) \in ProperAt(0) /\ Bytes[StrObj(m.data)] = PackStr(m.data)
    BY <2>1, LeavesProper, BytesOfLeaves
  <2> QED
    BY <2>2, <2>3
<1>3. CASE m.type = "DATAMAP"
  <2>1. m.data \in Datamap
    BY <1>3, TypesAre
  <2>2. AsSent(m).data = DmObj[m.data] /\ DataBytes(m) = PackDm[m.data]
    BY <1>3 DEF AsSent, DataBytes
  <2>3. DmDepth(m.data) \in Nat /\ SentAs(m.data, DmObj[m.data])
    BY <2>1, DepthsAre, DmObjIs
  <2> QED
    BY <2>2, <2>3 DEF SentAs
<1>4. CASE m.type = "LINKED_NAME"
  <2>1. m.data \in Seq(Str \X Str) /\ Len(m.data) \in Number
    BY <1>4, TypesAre
  <2> DEFINE o == Obj("map", [i \in DOMAIN m.data |-> <<StrObj(m.data[i][1]), StrObj(m.data[i][2])>>])
             b == PackMap(Len(m.data)) \o
                  FlattenSeq([i \in DOMAIN m.data |-> PackStr(m.data[i][1]) \o PackStr(m.data[i][2])])
  <2>2. AsSent(m).data = o /\ DataBytes(m) = b
    BY <1>4 DEF AsSent, DataBytes
  <2>3. o \in ProperAt(1) /\ Bytes[o] = b
    BY <2>1, LinkedSent
  <2>4. 1 \in Nat
    OBVIOUS
  <2> HIDE DEF o, b
  <2> QED
    BY <2>2, <2>3, <2>4
<1> QED
  BY <1>1, <1>2, <1>3, <1>4, TypesAre

LEMMA MsgObjSent ==
    ASSUME NEW m \in Message, m.type # "raw"
    PROVE  MsgObj(m) \in Proper /\ Bytes[MsgObj(m)] = PackMsg(m)
<1>1. PICK k \in Nat : AsSent(m).data \in ProperAt(k) /\ Bytes[AsSent(m).data] = DataBytes(m)
  BY DataSent
<1> DEFINE S == ProperAt(k)
           t == Num(TypeNum(m.type))
           d == AsSent(m).data
           vals == <<t, d>>
           packed == <<PackInt(TypeNum(m.type)), DataBytes(m)>>
<1>2. t \in S /\ Bytes[t] = PackInt(TypeNum(m.type))
  <2>1. m.type \in {"HELLO", "DATAMAP", "LINKED_NAME", "LOG_INFO", "LOG_ERROR", "GOODBYE"}
    BY TypesAre, Zenon
  <2>2. TypeNum(m.type) \in 0..5
    BY <2>1, TypeNums
  <2>3. TypeNum(m.type) \in Number
    BY <2>2, SMT DEF Number
  <2> QED
    BY <2>3, LeavesProper, BytesOfLeaves
<1>3. PackMsg(m) = PackPairs(IpcKeys, packed)
  <2>1. \/ m.type \in {"HELLO", "GOODBYE"} \/ m.type \in {"LOG_INFO", "LOG_ERROR"}
        \/ m.type = "DATAMAP" \/ m.type = "LINKED_NAME"
    BY TypesAre
  <2> QED
    BY <2>1 DEF PackMsg, DataBytes
<1>4. MsgObj(m) = MapObj(IpcKeys, vals)
  BY DEF MsgObj
<1> HIDE DEF t, d, S
<1>5. vals \in Seq(S) /\ Len(vals) = 2
  BY <1>1, <1>2 DEF S, d
<1>6. \A i \in 1..2 : packed[i] = Bytes[vals[i]]
  BY <1>1, <1>2 DEF d
<1> HIDE DEF vals, packed
<1>7. IpcKeys \in Seq(Byte) /\ Len(IpcKeys) = 2 /\ DOMAIN IpcKeys = 1..2
  BY KeysAre, LenProperties
<1>8. Len(IpcKeys) \in Number /\ Len(vals) = Len(IpcKeys) /\ IpcKeys \in Seq(Byte)
  BY <1>5, <1>7, KeysFit
<1>9. \A i \in DOMAIN IpcKeys : packed[i] = Bytes[vals[i]]
  BY <1>6, <1>7, Zenon
<1>10. vals \in Seq(ProperAt(k))
  BY <1>5, Zenon DEF S
<1>11. MapObj(IpcKeys, vals) \in ProperAt(k + 1)
  BY <1>8, <1>10, MapObjProper, Zenon
<1>12. Bytes[MapObj(IpcKeys, vals)] = PackPairs(IpcKeys, packed)
  BY <1>8, <1>9, <1>10, BytesOfPairs, Zenon
<1>13. MapObj(IpcKeys, vals) \in Proper
  BY <1>11, ProperAtIs
<1> QED
  BY <1>3, <1>4, <1>12, <1>13, Zenon
-----------------------------------------------------------------------------
(* What is where in the buffer *)

\* s is in b, from i.
IsAt(s, i, b) ==
    /\ i \in Nat /\ i > 0 /\ i + Len(s) <= Len(b) + 1
    /\ \A j \in 1..Len(s) : b[(i - 1) + j] = s[j]

LEMMA ConcatIsAt ==
    ASSUME NEW S, NEW s \in Seq(S), NEW t \in Seq(S), NEW b \in Seq(S), NEW i, IsAt(s \o t, i, b)
    PROVE  IsAt(s, i, b) /\ IsAt(t, i + Len(s), b) /\ Len(s \o t) = Len(s) + Len(t)
<1>1. Len(s) \in Nat /\ Len(t) \in Nat /\ Len(b) \in Nat
  BY LenProperties
<1>2. /\ Len(s \o t) = Len(s) + Len(t)
      /\ \A j \in 1..(Len(s) + Len(t)) : (s \o t)[j] = IF j <= Len(s) THEN s[j] ELSE t[j - Len(s)]
  BY ConcatProperties
<1> DEFINE k == Len(s)
           l == Len(t)
<1>3. /\ i \in Nat /\ i > 0 /\ i + (k + l) <= Len(b) + 1
      /\ \A j \in 1..(k + l) : b[(i - 1) + j] = (s \o t)[j]
  BY <1>2 DEF IsAt
<1> HIDE DEF k, l
<1>4. k \in Nat /\ l \in Nat /\ Len(b) \in Nat
  BY <1>1 DEF k, l
<1>5. \A j \in 1..k : b[(i - 1) + j] = s[j]
  <2> SUFFICES ASSUME NEW j \in 1..k PROVE b[(i - 1) + j] = s[j]
    OBVIOUS
  <2>1. j \in 1..(k + l) /\ j <= k
    BY <1>4
  <2> QED
    BY <1>2, <1>3, <2>1 DEF k, l
<1>6. \A j \in 1..l : b[((i + k) - 1) + j] = t[j]
  <2> SUFFICES ASSUME NEW j \in 1..l PROVE b[((i + k) - 1) + j] = t[j]
    OBVIOUS
  <2>1. j + k \in 1..(k + l) /\ ~(j + k <= k) /\ (j + k) - k = j /\ (i - 1) + (j + k) = ((i + k) - 1) + j
    BY <1>3, <1>4
  <2>2. (s \o t)[j + k] = t[(j + k) - k]
    BY <1>2, <2>1 DEF k, l
  <2>3. b[(i - 1) + (j + k)] = (s \o t)[j + k]
    BY <1>3, <2>1
  <2> QED
    BY <2>1, <2>2, <2>3
<1>7. i + k <= Len(b) + 1 /\ (i + k) + l <= Len(b) + 1 /\ i + k \in Nat /\ i + k > 0
  BY <1>3, <1>4
<1> QED
  BY <1>2, <1>3, <1>5, <1>6, <1>7 DEF IsAt, k, l

\* Sequences one after another: where each of them begins.
Places(ss, i, b, pos) ==
    /\ pos[1] = i /\ pos[Len(ss) + 1] = i + Len(FlattenSeq(ss))
    /\ \A k \in 1..Len(ss) : IsAt(ss[k], pos[k], b) /\ pos[k + 1] = pos[k] + Len(ss[k])

LEMMA FlattenIsAt ==
    ASSUME NEW S, NEW ss \in Seq(Seq(S)), NEW b \in Seq(S), NEW i, IsAt(FlattenSeq(ss), i, b)
    PROVE  \E pos : Places(ss, i, b, pos)
<1> DEFINE n == Len(ss)
<1>1. n \in Nat /\ \A k \in 1..n : ss[k] \in Seq(S)
  BY LenProperties, ElementOfSeq
<1>2. PICK f \in [0..n -> Seq(S)] :
         /\ f[0] = <<>> /\ FlattenSeq(ss) = f[n]
         /\ \A k \in 1..n : f[k] = f[k - 1] \o ss[k]
  BY FlattenIs
<1> HIDE DEF n
<1> DEFINE T == {j \in Nat : j <= n => IsAt(f[n - j], i, b)}
<1>3. 0 \in T
  <2>1. n - 0 = n
    BY <1>1
  <2> QED
    BY <1>2, <2>1
<1>4. ASSUME NEW j \in Nat, j \in T PROVE j + 1 \in T
  <2> SUFFICES ASSUME j + 1 <= n PROVE IsAt(f[n - (j + 1)], i, b)
    OBVIOUS
  <2>1. n - j \in 1..n /\ (n - j) - 1 = n - (j + 1) /\ n - (j + 1) \in 0..n /\ j <= n
    BY <1>1
  <2>2. f[n - j] = f[n - (j + 1)] \o ss[n - j]
    BY <1>2, <2>1
  <2>3. IsAt(f[n - j], i, b)
    BY <1>4, <2>1
  <2>4. f[n - (j + 1)] \in Seq(S) /\ ss[n - j] \in Seq(S)
    BY <1>1, <1>2, <2>1
  <2> QED
    BY <2>2, <2>3, <2>4, ConcatIsAt
<1>5. \A j \in Nat : j \in T
  <2> HIDE DEF T
  <2> QED
    BY <1>3, <1>4, Inductively
<1>6. ASSUME NEW k \in 0..n PROVE IsAt(f[k], i, b)
  <2>1. n - k \in Nat /\ n - k <= n /\ n - (n - k) = k
    BY <1>1
  <2>2. n - k \in T
    BY <1>5, <2>1
  <2> QED
    BY <2>1, <2>2
<1> DEFINE pos == [k \in 1..(n + 1) |-> i + Len(f[k - 1])]
<1>7. i \in Nat
  BY <1>1, <1>6 DEF IsAt
<1>8. ASSUME NEW k \in 1..(n + 1)
      PROVE  k - 1 \in 0..n /\ pos[k] = i + Len(f[k - 1]) /\ Len(f[k - 1]) \in Nat /\ pos[k] \in Nat
  <2>1. k - 1 \in 0..n
    BY <1>1
  <2>2. Len(f[k - 1]) \in Nat
    BY <1>2, <2>1, LenProperties
  <2> QED
    BY <1>7, <2>1, <2>2
<1>9. pos[1] = i
  <2>1. 1 \in 1..(n + 1) /\ 1 - 1 = 0 /\ Len(<<>>) = 0
    BY <1>1
  <2>2. pos[1] = i + Len(f[0])
    BY <1>8, <2>1
  <2> QED
    BY <1>2, <1>7, <2>1, <2>2
<1>10. pos[n + 1] = i + Len(FlattenSeq(ss))
  <2>1. n + 1 \in 1..(n + 1) /\ (n + 1) - 1 = n
    BY <1>1
  <2> QED
    BY <1>2, <1>8, <2>1
<1>11. ASSUME NEW k \in 1..n PROVE IsAt(ss[k], pos[k], b) /\ pos[k + 1] = pos[k] + Len(ss[k])
  <2>1. k \in 1..(n + 1) /\ k + 1 \in 1..(n + 1) /\ (k + 1) - 1 = k /\ k \in 0..n /\ k - 1 \in 0..n
    BY <1>1
  <2>2. f[k] = f[k - 1] \o ss[k] /\ f[k - 1] \in Seq(S) /\ ss[k] \in Seq(S)
    BY <1>1, <1>2, <2>1
  <2>3. IsAt(ss[k], i + Len(f[k - 1]), b) /\ Len(f[k]) = Len(f[k - 1]) + Len(ss[k])
    <3>1. IsAt(f[k - 1] \o ss[k], i, b)
      BY <1>6, <2>1, <2>2
    <3>2. /\ IsAt(ss[k], i + Len(f[k - 1]), b)
          /\ Len(f[k - 1] \o ss[k]) = Len(f[k - 1]) + Len(ss[k])
      BY <2>2, <3>1, ConcatIsAt
    <3> QED
      BY <2>2, <3>2
  <2>4. pos[k] = i + Len(f[k - 1]) /\ pos[k + 1] = i + Len(f[k])
    BY <1>8, <2>1
  <2>5. Len(f[k - 1]) \in Nat /\ Len(ss[k]) \in Nat
    BY <2>2, LenProperties
  <2> DEFINE a == Len(f[k - 1])
             c == Len(ss[k])
  <2>6. pos[k + 1] = pos[k] + Len(ss[k])
    <3>1. i + (a + c) = (i + a) + c
      <4>1. a \in Nat /\ c \in Nat
        BY <2>5
      <4> HIDE DEF a, c
      <4> QED
        BY <1>7, <4>1
    <3>2. pos[k + 1] = i + (a + c) /\ pos[k] = i + a
      BY <2>3, <2>4, Zenon
    <3> QED
      BY <3>1, <3>2, Zenon
  <2>7. IsAt(ss[k], pos[k], b)
    BY <2>3, <2>4, Zenon
  <2> QED
    BY <2>6, <2>7, Zenon
<1> HIDE DEF pos
<1>12. Places(ss, i, b, pos)
  BY <1>9, <1>10, <1>11 DEF n, Places
<1> QED
  BY <1>12

LEMMA SubSeqAt ==
    ASSUME NEW S, NEW s \in Seq(S), NEW b \in Seq(S), NEW i, IsAt(s, i, b)
    PROVE  SubSeq(b, i, i + Len(s) - 1) = s
<1> DEFINE k == Len(s)
           e == i + k - 1
<1>1. k \in Nat /\ Len(b) \in Nat /\ i \in Nat /\ i > 0 /\ i + k <= Len(b) + 1
      /\ \A j \in 1..k : b[(i - 1) + j] = s[j]
  BY LenProperties DEF IsAt
<1> HIDE DEF k
<1>2. e \in Int /\ e <= Len(b) /\ e - i + 1 = k /\ (i <= e <=> k > 0)
  BY <1>1
<1>3. \A j \in i..e : b[j] \in S
  <2>1. \A j \in i..e : j \in 1..Len(b)
    BY <1>1, <1>2
  <2> QED
    BY <2>1, ElementOfSeq
<1> HIDE DEF e
<1>4. /\ SubSeq(b, i, e) \in Seq(S) /\ Len(SubSeq(b, i, e)) = IF i <= e THEN e - i + 1 ELSE 0
      /\ \A j \in 1..(e - i + 1) : SubSeq(b, i, e)[j] = b[i + j - 1]
  BY <1>1, <1>2, <1>3, SubSeqProperties
<1>5. Len(SubSeq(b, i, e)) = k
  BY <1>1, <1>2, <1>4
<1>6. \A j \in 1..k : SubSeq(b, i, e)[j] = s[j]
  <2>1. \A j \in 1..k : i + j - 1 = (i - 1) + j
    BY <1>1
  <2> QED
    BY <1>1, <1>2, <1>4, <2>1
<1>7. SubSeq(b, i, e) = s
  BY <1>4, <1>5, <1>6, SeqEqual DEF k
<1> QED
  BY <1>7 DEF e, k

\* What is stored is what will be loaded.
LEMMA LoadStore ==
    ASSUME NEW v \in Nat
    PROVE  /\ Len(Store1(v)) = 1 /\ (v < 256 => Load(Store1(v)) = v)
           /\ Len(Store2(v)) = 2 /\ (v < 65536 => Load(Store2(v)) = v)
           /\ Len(Store4(v)) = 4 /\ (v <= 2147483647 => Load(Store4(v)) = v)
<1>1. Len(Store1(v)) = 1 /\ Store1(v)[1] = v % 256
  BY SMT DEF Store1
<1>2. Len(Store2(v)) = 2 /\ Store2(v)[1] = (v \div 256) % 256 /\ Store2(v)[2] = v % 256
  BY SMT DEF Store2
<1>3. /\ Len(Store4(v)) = 4 /\ Store4(v)[1] = (v \div 16777216) % 256
      /\ Store4(v)[2] = (v \div 65536) % 256 /\ Store4(v)[3] = (v \div 256) % 256
      /\ Store4(v)[4] = v % 256
  BY SMT DEF Store4
<1>4. v < 256 => Load(Store1(v)) = v
  <2>1. v < 256 => v % 256 = v
    BY SMT
  <2> QED
    BY <1>1, <2>1, SMT DEF Load
<1>5. v < 65536 => Load(Store2(v)) = v
  <2>1. Load(Store2(v)) = 256 * ((v \div 256) % 256) + (v % 256)
    BY <1>2, SMT DEF Load
  <2>2. v < 65536 => 256 * ((v \div 256) % 256) + (v % 256) = v
    BY SMT
  <2> QED
    BY <2>1, <2>2, SMT
<1>6. v <= 2147483647 => Load(Store4(v)) = v
  <2>1. Load(Store4(v)) = 16777216 * ((v \div 16777216) % 256) + 65536 * ((v \div 65536) % 256)
                          + 256 * ((v \div 256) % 256) + (v % 256)
    BY <1>3, SMT DEF Load
  <2>2. v <= 2147483647 => 16777216 * ((v \div 16777216) % 256) + 65536 * ((v \div 65536) % 256)
                           + 256 * ((v \div 256) % 256) + (v % 256) = v
    BY SMT
  <2> QED
    BY <2>1, <2>2, SMT
<1> QED
  BY <1>1, <1>2, <1>3, <1>4, <1>5, <1>6, SMT

LEMMA TrailsAre ==
    /\ 202 \in DOMAIN Trails /\ Trails[202] = [cs |-> "float", n |-> 4]
    /\ 204 \in DOMAIN Trails /\ Trails[204] = [cs |-> "uint", n |-> 1]
    /\ 205 \in DOMAIN Trails /\ Trails[205] = [cs |-> "uint", n |-> 2]
    /\ 206 \in DOMAIN Trails /\ Trails[206] = [cs |-> "uint", n |-> 4]
    /\ 217 \in DOMAIN Trails /\ Trails[217] = [cs |-> "str_n", n |-> 1]
    /\ 218 \in DOMAIN Trails /\ Trails[218] = [cs |-> "str_n", n |-> 2]
    /\ 219 \in DOMAIN Trails /\ Trails[219] = [cs |-> "str_n", n |-> 4]
    /\ 220 \in DOMAIN Trails /\ Trails[220] = [cs |-> "array", n |-> 2]
    /\ 221 \in DOMAIN Trails /\ Trails[221] = [cs |-> "array", n |-> 4]
    /\ 222 \in DOMAIN Trails /\ Trails[222] = [cs |-> "map", n |-> 2]
    /\ 223 \in DOMAIN Trails /\ Trails[223] = [cs |-> "map", n |-> 4]
BY SMT DEF Trails

\* A number of n bytes is next.
Holds(q, n, v) ==
    n \in {1, 2, 4} /\ q \in Nat /\ q > 0 /\ q + n <= Len(buf) + 1 /\ Load(SubSeq(buf, q, q + n - 1)) = v

\* What is in a container, one after another.
Chunk(o, i) == IF o.type = "array" THEN Bytes[o.v[i]] ELSE Bytes[o.v[i][1]] \o Bytes[o.v[i][2]]
Chunks(o) == [i \in DOMAIN o.v |-> Chunk(o, i)]

\* A value that is to be read, and where it begins; and where it ends.
GoalOK(g) == g.o \in Proper /\ IsAt(Bytes[g.o], g.i, buf)
End(g) == g.i + Len(Bytes[g.o])

\* What is still to be read of one of which the first bytes have been.
BodyIsAt(s, q, e) == IsAt(s, q, buf) /\ e = q + Len(s)

Awaits(c, n, q, g) ==
    \/ c = "float" /\ g.o.type = "float" /\ n = 4 /\ BodyIsAt(g.o.v, q, End(g))
    \/ c = "uint" /\ g.o.type = "positive" /\ Holds(q, n, g.o.v) /\ End(g) = q + n
    \/ c = "str_n" /\ g.o.type = "str" /\ Holds(q, n, Len(g.o.v)) /\ BodyIsAt(g.o.v, q + n, End(g))
    \/ c = "str" /\ g.o.type = "str" /\ n = Len(g.o.v) /\ BodyIsAt(g.o.v, q, End(g))
    \/ /\ c \in {"array", "map"} /\ g.o.type = c /\ Holds(q, n, Len(g.o.v))
       /\ BodyIsAt(FlattenSeq(Chunks(g.o)), q + n, End(g))

LEMMA HeadIsAt ==
    ASSUME buf \in Seq(Byte), NEW b \in Byte, NEW s \in Seq(Byte), NEW i, IsAt(<<b>> \o s, i, buf)
    PROVE  /\ i \in Nat /\ i > 0 /\ i <= Len(buf) /\ buf[i] = b /\ IsAt(s, i + 1, buf)
           /\ Len(<<b>> \o s) = 1 + Len(s)
<1> HIDE DEF Byte
<1>1. <<b>> \in Seq(Byte) /\ Len(<<b>>) = 1 /\ <<b>>[1] = b
  OBVIOUS
<1>2. IsAt(<<b>>, i, buf) /\ IsAt(s, i + 1, buf) /\ Len(<<b>> \o s) = 1 + Len(s)
  <2> DEFINE h == <<b>>
  <2>1. h \in Seq(Byte) /\ Len(h) = 1 /\ IsAt(h \o s, i, buf)
    BY <1>1
  <2> HIDE DEF h
  <2>2. IsAt(h, i, buf) /\ IsAt(s, i + Len(h), buf)
    BY <2>1, ConcatIsAt
  <2>3. Len(h \o s) = Len(h) + Len(s)
    BY <2>1, ConcatProperties
  <2>4. IsAt(h, i, buf) /\ IsAt(s, i + 1, buf) /\ Len(h \o s) = 1 + Len(s)
    BY <2>1, <2>2, <2>3, Zenon
  <2> QED
    BY <2>4 DEF h
<1>3. i \in Nat /\ i > 0 /\ i + 1 <= Len(buf) + 1 /\ \A j \in 1..1 : buf[(i - 1) + j] = <<b>>[j]
  BY <1>1, <1>2 DEF IsAt
<1>4. (i - 1) + 1 = i /\ 1 \in 1..1 /\ i <= Len(buf)
  <2>1. Len(buf) \in Nat
    BY LenProperties
  <2> QED
    BY <1>3, <2>1
<1>5. buf[i] = b
  BY <1>1, <1>3, <1>4
<1> QED
  BY <1>2, <1>3, <1>4, <1>5

LEMMA OneIsAt ==
    ASSUME buf \in Seq(Byte), NEW b \in Byte, NEW i, IsAt(<<b>>, i, buf)
    PROVE  i \in Nat /\ i > 0 /\ i <= Len(buf) /\ buf[i] = b /\ Len(<<b>>) = 1
<1> HIDE DEF Byte
<1>1. <<>> \in Seq(Byte) /\ <<b>> \o <<>> = <<b>> /\ Len(<<b>>) = 1
  OBVIOUS
<1>2. IsAt(<<b>> \o <<>>, i, buf)
  BY <1>1
<1>3. i \in Nat /\ i > 0 /\ i <= Len(buf) /\ buf[i] = b
  BY <1>1, <1>2, HeadIsAt
<1> QED
  BY <1>1, <1>3

LEMMA HoldsAt ==
    ASSUME buf \in Seq(Byte), NEW s \in Seq(Byte), NEW q, IsAt(s, q, buf), NEW n \in {1, 2, 4},
           Len(s) = n, NEW v, Load(s) = v
    PROVE  Holds(q, n, v)
<1> HIDE DEF Byte
<1>1. SubSeq(buf, q, q + Len(s) - 1) = s
  BY SubSeqAt
<1>2. q \in Nat /\ q > 0 /\ q + Len(s) <= Len(buf) + 1
  BY DEF IsAt
<1> QED
  BY <1>1, <1>2 DEF Holds

\* The first byte, and a number after it.
Numbered(b, s, n) == b \in Byte /\ s \in Seq(Byte) /\ n \in {1, 2, 4} /\ Len(s) = n

NumberedAt(b, s, n, t, i) ==
    /\ i \in Nat /\ i > 0 /\ i <= Len(buf) /\ buf[i] = b /\ Holds(i + 1, n, Load(s))
    /\ BodyIsAt(t, (i + 1) + n, i + Len((<<b>> \o s) \o t))

LEMMA NumberedIsAt ==
    ASSUME buf \in Seq(Byte), NEW b, NEW s, NEW n, Numbered(b, s, n),
           NEW t \in Seq(Byte), NEW i, IsAt((<<b>> \o s) \o t, i, buf)
    PROVE  NumberedAt(b, s, n, t, i)
<1>1. b \in Byte /\ s \in Seq(Byte) /\ n \in {1, 2, 4} /\ Len(s) = n
  BY DEF Numbered
<1> USE <1>1
<1>2. <<b>> \o s \in Seq(Byte)
  BY FirstAnd
<1> HIDE DEF Byte
<1>3. /\ IsAt(<<b>> \o s, i, buf) /\ IsAt(t, i + Len(<<b>> \o s), buf)
      /\ Len((<<b>> \o s) \o t) = Len(<<b>> \o s) + Len(t)
  <2> DEFINE h == <<b>> \o s
  <2>1. h \in Seq(Byte) /\ IsAt(h \o t, i, buf)
    BY <1>2
  <2> HIDE DEF h
  <2>2. IsAt(h, i, buf) /\ IsAt(t, i + Len(h), buf)
    BY <2>1, ConcatIsAt
  <2>3. Len(h \o t) = Len(h) + Len(t)
    BY <2>1, ConcatProperties
  <2> QED
    BY <2>2, <2>3 DEF h
<1>4. /\ i \in Nat /\ i > 0 /\ i <= Len(buf) /\ buf[i] = b /\ IsAt(s, i + 1, buf)
      /\ Len(<<b>> \o s) = 1 + n
  BY <1>3, HeadIsAt
<1>5. Holds(i + 1, n, Load(s))
  BY <1>4, HoldsAt
<1> DEFINE l == Len(t)
<1>6. l \in Nat
  BY LenProperties
<1> HIDE DEF l
<1>7. i + (1 + n) = (i + 1) + n /\ i + ((1 + n) + l) = ((i + 1) + n) + l
  <2>1. i \in Nat /\ n \in Nat
    BY <1>4
  <2> QED
    BY <1>6, <2>1
<1>8. IsAt(t, (i + 1) + n, buf)
  BY <1>3, <1>4, <1>7
<1>9. i + Len((<<b>> \o s) \o t) = ((i + 1) + n) + Len(t)
  BY <1>3, <1>4, <1>7 DEF l
<1> QED
  BY <1>4, <1>5, <1>8, <1>9 DEF BodyIsAt, NumberedAt

\* What the first byte of a value says of it.
FirstByte(g, b) ==
    \/ b \in 0..127 /\ g.o = Num(b) /\ End(g) = g.i + 1
    \/ b \in 128..143 /\ g.o.type = "map" /\ Len(g.o.v) = b - 128
       /\ BodyIsAt(FlattenSeq(Chunks(g.o)), g.i + 1, End(g))
    \/ b \in 144..159 /\ g.o.type = "array" /\ Len(g.o.v) = b - 144
       /\ BodyIsAt(FlattenSeq(Chunks(g.o)), g.i + 1, End(g))
    \/ b \in 160..191 /\ Awaits("str", b - 160, g.i + 1, g)
    \/ b = 192 /\ g.o = Nil /\ End(g) = g.i + 1
    \/ b \in DOMAIN Trails /\ Awaits(Trails[b].cs, Trails[b].n, g.i + 1, g)

Begins(g) == g.i \in Nat /\ g.i > 0 /\ g.i <= Len(buf) /\ FirstByte(g, buf[g.i])

LEMMA IsByte ==
    /\ \A b \in Nat : b < 256 => b \in Byte
    /\ \A l \in Nat : l < 32 => 160 + l \in Byte
    /\ \A l \in Nat : l < 16 => 144 + l \in Byte /\ 128 + l \in Byte
    /\ 192 \in Byte /\ 202 \in Byte /\ 204 \in Byte /\ 205 \in Byte /\ 206 \in Byte
    /\ 217 \in Byte /\ 218 \in Byte /\ 219 \in Byte /\ 220 \in Byte /\ 221 \in Byte
    /\ 222 \in Byte /\ 223 \in Byte
BY SMT DEF Byte

\* A number in bytes of its own.
LEMMA UintBegins ==
    ASSUME buf \in Seq(Byte), NEW g, GoalOK(g), g.o.type = "positive", NEW b \in Byte,
           NEW n \in {1, 2, 4}, b \in DOMAIN Trails, Trails[b] = [cs |-> "uint", n |-> n],
           NEW s \in Seq(Byte), Len(s) = n, Load(s) = g.o.v, Bytes[g.o] = <<b>> \o s
    PROVE  Begins(g)
<1>1. IsAt(<<b>> \o s, g.i, buf)
  BY DEF GoalOK
<1>2. g.i \in Nat /\ g.i > 0 /\ g.i <= Len(buf) /\ buf[g.i] = b /\ IsAt(s, g.i + 1, buf)
      /\ Len(<<b>> \o s) = 1 + Len(s)
  BY <1>1, HeadIsAt
<1>3. Holds(g.i + 1, n, g.o.v)
  BY <1>2, HoldsAt
<1>4. End(g) = (g.i + 1) + n
  <2>1. Len(Bytes[g.o]) = 1 + n
    BY <1>2
  <2>2. g.i \in Nat /\ n \in Nat /\ g.i + (1 + n) = (g.i + 1) + n
    BY <1>2
  <2> QED
    BY <2>1, <2>2, Zenon DEF End
<1>5. Trails[b].cs = "uint" /\ Trails[b].n = n
  OBVIOUS
<1>6. Awaits("uint", n, g.i + 1, g)
  BY <1>3, <1>4, Zenon DEF Awaits
<1>7. FirstByte(g, b)
  BY <1>5, <1>6, Zenon DEF FirstByte
<1> QED
  BY <1>2, <1>7, Zenon DEF Begins

LEMMA NumBegins ==
    ASSUME buf \in Seq(Byte), NEW g, GoalOK(g), g.o.type = "positive", g.o.v \in Number,
           g.o = Num(g.o.v), Bytes[g.o] = PackInt(g.o.v)
    PROVE  Begins(g)
<1> DEFINE v == g.o.v
<1>1. v \in Nat /\ v <= 2147483647
  BY SMT DEF Number
<1>2. IsAt(Bytes[g.o], g.i, buf) /\ Bytes[g.o] = PackInt(v) /\ g.o.v = v /\ g.o = Num(v)
  BY DEF GoalOK
<1> HIDE DEF v
<1>3. /\ v < 128 => PackInt(v) = Store1(v)
      /\ ~(v < 128) /\ v < 256 => PackInt(v) = <<204>> \o Store1(v)
      /\ ~(v < 256) /\ v < 65536 => PackInt(v) = <<205>> \o Store2(v)
      /\ ~(v < 65536) => PackInt(v) = <<206>> \o Store4(v)
  BY <1>1, SMT DEF PackInt
<1>4. v \in Int /\ Store1(v) \in Seq(Byte) /\ Store2(v) \in Seq(Byte) /\ Store4(v) \in Seq(Byte)
  BY <1>1, StoreBytes, SMT
<1>5. CASE v < 128
  <2>1. v \in Byte /\ v \in 0..127
    BY <1>1, <1>5, SMT DEF Byte
  <2>2. Store1(v) = <<v>>
    BY <1>1, <1>5, SMT DEF Store1
  <2>3. Bytes[g.o] = <<v>>
    <3>1. PackInt(v) = Store1(v)
      BY <1>3, <1>5, SMT
    <3> QED
      BY <1>2, <2>2, <3>1, Zenon
  <2>4. g.i \in Nat /\ g.i > 0 /\ g.i <= Len(buf) /\ buf[g.i] = v /\ Len(Bytes[g.o]) = 1
    BY <1>2, <2>1, <2>3, OneIsAt
  <2>5. FirstByte(g, v)
    BY <1>2, <2>1, <2>4, Zenon DEF FirstByte, End
  <2> QED
    BY <2>4, <2>5, Zenon DEF Begins
<1>6. CASE ~(v < 128) /\ v < 256
  <2>1. Len(Store1(v)) = 1 /\ Load(Store1(v)) = v
    BY <1>1, <1>6, LoadStore, SMT
  <2>2. Bytes[g.o] = <<204>> \o Store1(v)
    <3>1. PackInt(v) = <<204>> \o Store1(v)
      BY <1>3, <1>6, SMT
    <3> QED
      BY <1>2, <3>1, Zenon
  <2>3. 1 \in {1, 2, 4} /\ Load(Store1(v)) = g.o.v
    BY <1>2, <2>1, Zenon
  <2>4. 204 \in Byte /\ 204 \in DOMAIN Trails /\ Trails[204] = [cs |-> "uint", n |-> 1]
    BY TrailsAre, IsByte, Zenon
  <2> QED
    BY <1>4, <2>1, <2>2, <2>3, <2>4, UintBegins, Zenon
<1>7. CASE ~(v < 256) /\ v < 65536
  <2>1. Len(Store2(v)) = 2 /\ Load(Store2(v)) = v
    BY <1>1, <1>7, LoadStore, SMT
  <2>2. Bytes[g.o] = <<205>> \o Store2(v)
    <3>1. PackInt(v) = <<205>> \o Store2(v)
      BY <1>3, <1>7, SMT
    <3> QED
      BY <1>2, <3>1, Zenon
  <2>3. 2 \in {1, 2, 4} /\ Load(Store2(v)) = g.o.v
    BY <1>2, <2>1, Zenon
  <2>4. 205 \in Byte /\ 205 \in DOMAIN Trails /\ Trails[205] = [cs |-> "uint", n |-> 2]
    BY TrailsAre, IsByte, Zenon
  <2> QED
    BY <1>4, <2>1, <2>2, <2>3, <2>4, UintBegins, Zenon
<1>8. CASE ~(v < 65536)
  <2>1. Len(Store4(v)) = 4 /\ Load(Store4(v)) = v
    BY <1>1, <1>8, LoadStore, SMT
  <2>2. Bytes[g.o] = <<206>> \o Store4(v)
    <3>1. PackInt(v) = <<206>> \o Store4(v)
      BY <1>3, <1>8, SMT
    <3> QED
      BY <1>2, <3>1, Zenon
  <2>3. 4 \in {1, 2, 4} /\ Load(Store4(v)) = g.o.v
    BY <1>2, <2>1, Zenon
  <2>4. 206 \in Byte /\ 206 \in DOMAIN Trails /\ Trails[206] = [cs |-> "uint", n |-> 4]
    BY TrailsAre, IsByte, Zenon
  <2> QED
    BY <1>4, <2>1, <2>2, <2>3, <2>4, UintBegins, Zenon
<1> QED
  BY <1>5, <1>6, <1>7, <1>8, SMT

\* A string, with its length in the first byte or after it.
LEMMA StrNBegins ==
    ASSUME buf \in Seq(Byte), NEW g, GoalOK(g), g.o.type = "str", g.o.v \in Seq(Byte), NEW b \in Byte,
           NEW n \in {1, 2, 4}, b \in DOMAIN Trails, Trails[b] = [cs |-> "str_n", n |-> n],
           NEW s \in Seq(Byte), Len(s) = n, Load(s) = Len(g.o.v), Bytes[g.o] = (<<b>> \o s) \o g.o.v
    PROVE  Begins(g)
<1>1. IsAt((<<b>> \o s) \o g.o.v, g.i, buf)
  BY DEF GoalOK
<1>2. /\ g.i \in Nat /\ g.i > 0 /\ g.i <= Len(buf) /\ buf[g.i] = b
      /\ Holds(g.i + 1, n, Len(g.o.v))
      /\ BodyIsAt(g.o.v, (g.i + 1) + n, g.i + Len((<<b>> \o s) \o g.o.v))
  <2> DEFINE t == g.o.v
             i == g.i
  <2>1. t \in Seq(Byte) /\ IsAt((<<b>> \o s) \o t, i, buf)
    BY <1>1, Zenon
  <2> HIDE DEF t, i
  <2>2. Numbered(b, s, n)
    BY DEF Numbered
  <2>3. NumberedAt(b, s, n, t, i)
    BY <2>1, <2>2, NumberedIsAt, Zenon
  <2> QED
    BY <2>3, Zenon DEF t, i, NumberedAt
<1>3. End(g) = g.i + Len((<<b>> \o s) \o g.o.v)
  BY Zenon DEF End
<1>4. BodyIsAt(g.o.v, (g.i + 1) + n, End(g))
  BY <1>2, <1>3, Zenon
<1>5. Trails[b].cs = "str_n" /\ Trails[b].n = n
  OBVIOUS
<1>6. Awaits("str_n", n, g.i + 1, g)
  BY <1>2, <1>4, Zenon DEF Awaits
<1>7. FirstByte(g, b)
  BY <1>5, <1>6, Zenon DEF FirstByte
<1> QED
  BY <1>2, <1>7, Zenon DEF Begins

LEMMA StrBegins ==
    ASSUME buf \in Seq(Byte), NEW g, GoalOK(g), g.o.type = "str", g.o.v \in Str,
           Bytes[g.o] = PackStr(g.o.v)
    PROVE  Begins(g)
<1> DEFINE v == g.o.v
           l == Len(v)
<1>1. v \in Seq(Byte) /\ l \in Number /\ l \in Nat
  <2>1. v \in Seq(Byte) /\ l \in Number
    BY Zenon DEF Str
  <2> QED
    BY <2>1, SmallTypes, Zenon
<1>2. IsAt(Bytes[g.o], g.i, buf) /\ Bytes[g.o] = PackStrHead(l) \o v /\ g.o.v = v /\ Len(g.o.v) = l
  BY DEF GoalOK, PackStr
<1> HIDE DEF l
<1>3. /\ l < 32 => PackStrHead(l) = <<160 + l>>
      /\ ~(l < 32) /\ l < 256 => PackStrHead(l) = <<217>> \o Store1(l)
      /\ ~(l < 256) /\ l < 65536 => PackStrHead(l) = <<218>> \o Store2(l)
      /\ ~(l < 65536) => PackStrHead(l) = <<219>> \o Store4(l)
  BY <1>1, SMT DEF PackStrHead
<1>4. l \in Int /\ Store1(l) \in Seq(Byte) /\ Store2(l) \in Seq(Byte) /\ Store4(l) \in Seq(Byte)
  BY <1>1, StoreBytes, SMT
<1>5. CASE l < 32
  <2> DEFINE b == 160 + l
  <2>1. b \in Byte /\ b \in 160..191 /\ b - 160 = l
    BY <1>1, <1>5, SMT DEF Byte
  <2>2. PackStrHead(l) = <<b>>
    BY <1>3, <1>5, SMT
  <2> HIDE DEF b
  <2>3. Bytes[g.o] = <<b>> \o v
    BY <1>2, <2>2, Zenon
  <2>4. IsAt(<<b>> \o v, g.i, buf)
    BY <1>2, <2>3, Zenon
  <2>5. g.i \in Nat /\ g.i > 0 /\ g.i <= Len(buf) /\ buf[g.i] = b /\ IsAt(v, g.i + 1, buf)
        /\ Len(<<b>> \o v) = 1 + Len(v)
    BY <1>1, <2>1, <2>4, HeadIsAt
  <2>6. Len(Bytes[g.o]) = 1 + l
    BY <2>3, <2>5, Zenon DEF l
  <2>7. g.i + (1 + l) = (g.i + 1) + l
    BY <1>1, <2>5
  <2>8. End(g) = (g.i + 1) + l
    BY <2>6, <2>7, Zenon DEF End
  <2>9. Awaits("str", b - 160, g.i + 1, g)
    BY <1>2, <2>1, <2>5, <2>8, Zenon DEF Awaits, BodyIsAt
  <2>10. FirstByte(g, b)
    BY <2>1, <2>9, Zenon DEF FirstByte
  <2> QED
    BY <2>5, <2>10, Zenon DEF Begins
<1>6. CASE ~(l < 32) /\ l < 256
  <2>1. Len(Store1(l)) = 1 /\ Load(Store1(l)) = l
    BY <1>1, <1>6, LoadStore, SMT
  <2>2. Bytes[g.o] = (<<217>> \o Store1(l)) \o g.o.v
    <3>1. PackStrHead(l) = <<217>> \o Store1(l)
      BY <1>3, <1>6, SMT
    <3> QED
      BY <1>2, <3>1, Zenon
  <2>3. 1 \in {1, 2, 4} /\ Load(Store1(l)) = Len(g.o.v) /\ g.o.v \in Seq(Byte)
    BY <1>1, <1>2, <2>1, Zenon
  <2>4. 217 \in Byte /\ 217 \in DOMAIN Trails /\ Trails[217] = [cs |-> "str_n", n |-> 1]
    BY TrailsAre, IsByte, Zenon
  <2> QED
    BY <1>4, <2>1, <2>2, <2>3, <2>4, StrNBegins, Zenon
<1>7. CASE ~(l < 256) /\ l < 65536
  <2>1. Len(Store2(l)) = 2 /\ Load(Store2(l)) = l
    BY <1>1, <1>7, LoadStore, SMT
  <2>2. Bytes[g.o] = (<<218>> \o Store2(l)) \o g.o.v
    <3>1. PackStrHead(l) = <<218>> \o Store2(l)
      BY <1>3, <1>7, SMT
    <3> QED
      BY <1>2, <3>1, Zenon
  <2>3. 2 \in {1, 2, 4} /\ Load(Store2(l)) = Len(g.o.v) /\ g.o.v \in Seq(Byte)
    BY <1>1, <1>2, <2>1, Zenon
  <2>4. 218 \in Byte /\ 218 \in DOMAIN Trails /\ Trails[218] = [cs |-> "str_n", n |-> 2]
    BY TrailsAre, IsByte, Zenon
  <2> QED
    BY <1>4, <2>1, <2>2, <2>3, <2>4, StrNBegins, Zenon
<1>8. CASE ~(l < 65536)
  <2>1. Len(Store4(l)) = 4 /\ Load(Store4(l)) = l
    BY <1>1, <1>8, LoadStore, SMT DEF Number
  <2>2. Bytes[g.o] = (<<219>> \o Store4(l)) \o g.o.v
    <3>1. PackStrHead(l) = <<219>> \o Store4(l)
      BY <1>3, <1>8, SMT
    <3> QED
      BY <1>2, <3>1, Zenon
  <2>3. 4 \in {1, 2, 4} /\ Load(Store4(l)) = Len(g.o.v) /\ g.o.v \in Seq(Byte)
    BY <1>1, <1>2, <2>1, Zenon
  <2>4. 219 \in Byte /\ 219 \in DOMAIN Trails /\ Trails[219] = [cs |-> "str_n", n |-> 4]
    BY TrailsAre, IsByte, Zenon
  <2> QED
    BY <1>4, <2>1, <2>2, <2>3, <2>4, StrNBegins, Zenon
<1> QED
  BY <1>5, <1>6, <1>7, <1>8, SMT

\* Nothing, and a number with a point.
LEMMA NilBegins ==
    ASSUME buf \in Seq(Byte), NEW g, GoalOK(g), g.o = Nil, Bytes[g.o] = PackNil
    PROVE  Begins(g)
<1>1. 192 \in Byte
  BY IsByte, Zenon
<1>2. IsAt(<<192>>, g.i, buf) /\ Bytes[g.o] = <<192>>
  BY Zenon DEF GoalOK, PackNil
<1>3. g.i \in Nat /\ g.i > 0 /\ g.i <= Len(buf) /\ buf[g.i] = 192 /\ Len(<<192>>) = 1
  BY <1>1, <1>2, OneIsAt, Zenon
<1>4. End(g) = g.i + 1
  BY <1>2, <1>3, Zenon DEF End
<1>5. FirstByte(g, 192)
  BY <1>4, Zenon DEF FirstByte
<1> QED
  BY <1>3, <1>5, Zenon DEF Begins

LEMMA FloatBegins ==
    ASSUME buf \in Seq(Byte), NEW g, GoalOK(g), g.o.type = "float", g.o.v \in Seq(Byte), Len(g.o.v) = 4,
           Bytes[g.o] = PackFloat(g.o.v)
    PROVE  Begins(g)
<1> DEFINE t == g.o.v
           i == g.i
<1>1. 202 \in Byte /\ 202 \in DOMAIN Trails /\ Trails[202] = [cs |-> "float", n |-> 4]
  BY IsByte, TrailsAre, Zenon
<1>2. IsAt(<<202>> \o t, i, buf) /\ t \in Seq(Byte) /\ Len(t) = 4 /\ Bytes[g.o] = <<202>> \o t
  BY Zenon DEF GoalOK, PackFloat
<1>3. End(g) = i + Len(<<202>> \o t)
  BY <1>2, Zenon DEF End
<1> HIDE DEF t, i
<1>4. i \in Nat /\ i > 0 /\ i <= Len(buf) /\ buf[i] = 202 /\ IsAt(t, i + 1, buf)
      /\ Len(<<202>> \o t) = 1 + Len(t)
  BY <1>1, <1>2, HeadIsAt, Zenon
<1>5. i + (1 + Len(t)) = (i + 1) + Len(t)
  <2>1. Len(t) \in Nat
    BY <1>2
  <2> DEFINE l == Len(t)
  <2> HIDE DEF l
  <2>2. i + (1 + l) = (i + 1) + l
    BY <1>4, <2>1 DEF l
  <2> QED
    BY <2>2 DEF l
<1>6. BodyIsAt(t, i + 1, End(g))
  BY <1>3, <1>4, <1>5, Zenon DEF BodyIsAt
<1>7. Awaits("float", 4, g.i + 1, g)
  BY <1>6, Zenon DEF Awaits, t, i
<1>8. Trails[202].cs = "float" /\ Trails[202].n = 4
  BY <1>1
<1>9. FirstByte(g, 202)
  BY <1>1, <1>7, <1>8, Zenon DEF FirstByte
<1> QED
  BY <1>4, <1>9, Zenon DEF Begins, i

\* A container, with its length in the first byte or after it.
LEMMA FixBegins ==
    ASSUME buf \in Seq(Byte), NEW g, GoalOK(g), FlattenSeq(Chunks(g.o)) \in Seq(Byte), NEW b \in Byte,
           \/ g.o.type = "map" /\ b \in 128..143 /\ Len(g.o.v) = b - 128
           \/ g.o.type = "array" /\ b \in 144..159 /\ Len(g.o.v) = b - 144,
           Bytes[g.o] = <<b>> \o FlattenSeq(Chunks(g.o))
    PROVE  Begins(g)
<1> DEFINE t == FlattenSeq(Chunks(g.o))
           i == g.i
           l == Len(t)
<1>1. IsAt(<<b>> \o t, i, buf) /\ t \in Seq(Byte) /\ Bytes[g.o] = <<b>> \o t
  BY Zenon DEF GoalOK
<1>2. End(g) = i + Len(<<b>> \o t)
  BY <1>1, Zenon DEF End
<1> HIDE DEF t, i
<1>3. i \in Nat /\ i > 0 /\ i <= Len(buf) /\ buf[i] = b /\ IsAt(t, i + 1, buf)
      /\ Len(<<b>> \o t) = 1 + l
  BY <1>1, HeadIsAt, Zenon
<1>4. l \in Nat
  BY <1>1, LenProperties
<1> HIDE DEF l
<1>5. i + (1 + l) = (i + 1) + l
  BY <1>3, <1>4
<1>6. BodyIsAt(t, i + 1, End(g))
  BY <1>2, <1>3, <1>5, Zenon DEF BodyIsAt, l
<1>7. FirstByte(g, b)
  BY <1>6, Zenon DEF FirstByte, t, i
<1> QED
  BY <1>3, <1>7, Zenon DEF Begins, i

LEMMA ContainerNBegins ==
    ASSUME buf \in Seq(Byte), NEW g, GoalOK(g), FlattenSeq(Chunks(g.o)) \in Seq(Byte),
           g.o.type \in {"array", "map"}, NEW b, NEW s, NEW k, Numbered(b, s, k),
           b \in DOMAIN Trails, Trails[b] = [cs |-> g.o.type, n |-> k],
           Load(s) = Len(g.o.v), Bytes[g.o] = (<<b>> \o s) \o FlattenSeq(Chunks(g.o))
    PROVE  Begins(g)
<1> DEFINE t == FlattenSeq(Chunks(g.o))
           i == g.i
<1>1. t \in Seq(Byte) /\ IsAt((<<b>> \o s) \o t, i, buf) /\ Bytes[g.o] = (<<b>> \o s) \o t
  BY Zenon DEF GoalOK
<1>2. End(g) = i + Len((<<b>> \o s) \o t)
  BY <1>1, Zenon DEF End
<1> HIDE DEF t, i
<1>3. NumberedAt(b, s, k, t, i)
  BY <1>1, NumberedIsAt, Zenon
<1>4. /\ i \in Nat /\ i > 0 /\ i <= Len(buf) /\ buf[i] = b /\ Holds(i + 1, k, Load(s))
      /\ BodyIsAt(t, (i + 1) + k, End(g))
  BY <1>2, <1>3, Zenon DEF NumberedAt
<1>5. Trails[b].cs = g.o.type /\ Trails[b].n = k
  OBVIOUS
<1>6. Awaits(g.o.type, k, g.i + 1, g)
  BY <1>4, Zenon DEF Awaits, t, i
<1>7. FirstByte(g, b)
  BY <1>5, <1>6, Zenon DEF FirstByte
<1> QED
  BY <1>4, <1>7, Zenon DEF Begins, i

LEMMA HeadsAre ==
    ASSUME NEW l \in Number
    PROVE  /\ l \in Nat
           /\ l < 16 => PackArray(l) = <<144 + l>> /\ PackMap(l) = <<128 + l>>
           /\ ~(l < 16) /\ l < 65536 => /\ PackArray(l) = <<220>> \o Store2(l)
                                        /\ PackMap(l) = <<222>> \o Store2(l)
                                        /\ Store2(l) \in Seq(Byte) /\ Len(Store2(l)) = 2
                                        /\ Load(Store2(l)) = l
           /\ ~(l < 65536) => /\ PackArray(l) = <<221>> \o Store4(l)
                              /\ PackMap(l) = <<223>> \o Store4(l)
                              /\ Store4(l) \in Seq(Byte) /\ Len(Store4(l)) = 4
                              /\ Load(Store4(l)) = l
<1>1. l \in Nat /\ l <= 2147483647
  BY SMT DEF Number
<1>2. l < 16 => PackArray(l) = <<144 + l>> /\ PackMap(l) = <<128 + l>>
  BY <1>1, SMT DEF PackArray, PackMap
<1>3. ~(l < 16) /\ l < 65536 => PackArray(l) = <<220>> \o Store2(l) /\ PackMap(l) = <<222>> \o Store2(l)
  BY <1>1, SMT DEF PackArray, PackMap
<1>4. ~(l < 65536) => PackArray(l) = <<221>> \o Store4(l) /\ PackMap(l) = <<223>> \o Store4(l)
  BY <1>1, SMT DEF PackArray, PackMap
<1>5. l < 65536 => Len(Store2(l)) = 2 /\ Load(Store2(l)) = l
  BY <1>1, LoadStore, SMT
<1>6. Len(Store4(l)) = 4 /\ Load(Store4(l)) = l
  BY <1>1, LoadStore, SMT
<1>7. Store2(l) \in Seq(Byte) /\ Store4(l) \in Seq(Byte)
  BY <1>1, StoreBytes, SMT
<1> QED
  BY <1>1, <1>2, <1>3, <1>4, <1>5, <1>6, <1>7, SMT

LEMMA ContainerBegins ==
    ASSUME buf \in Seq(Byte), NEW g, GoalOK(g), g.o.type \in {"array", "map"}, Len(g.o.v) \in Number,
           FlattenSeq(Chunks(g.o)) \in Seq(Byte),
           Bytes[g.o] = (IF g.o.type = "array" THEN PackArray(Len(g.o.v)) ELSE PackMap(Len(g.o.v)))
                        \o FlattenSeq(Chunks(g.o))
    PROVE  Begins(g)
<1> DEFINE l == Len(g.o.v)
           h == IF g.o.type = "array" THEN PackArray(l) ELSE PackMap(l)
<1>1. l \in Number /\ Bytes[g.o] = h \o FlattenSeq(Chunks(g.o))
  BY Zenon
<1>2. /\ l = Len(g.o.v)
      /\ g.o.type = "array" => h = PackArray(l)
      /\ g.o.type = "map" => h = PackMap(l)
      /\ g.o.type = "array" \/ g.o.type = "map"
  <2>1. g.o.type = "array" => h = PackArray(l)
    BY Zenon
  <2>2. g.o.type = "map" => h = PackMap(l)
    <3>1. g.o.type = "map" => g.o.type # "array"
      BY SMT
    <3> QED
      BY <3>1, Zenon
  <2> QED
    BY <2>1, <2>2, Zenon
<1> HIDE DEF l, h
<1>3. CASE l < 16
  <2>1. PackArray(l) = <<144 + l>> /\ PackMap(l) = <<128 + l>> /\ l \in Nat
    BY <1>1, <1>3, HeadsAre, SMT
  <2>2. CASE g.o.type = "array"
    <3> DEFINE b == 144 + l
    <3>1. b \in Byte /\ b \in 144..159 /\ b - 144 = l
      BY <1>3, <2>1, SMT DEF Byte
    <3>2. h = <<b>>
      BY <1>2, <2>1, <2>2
    <3> HIDE DEF b
    <3>3. Bytes[g.o] = <<b>> \o FlattenSeq(Chunks(g.o))
      BY <1>1, <3>2, Zenon
    <3> QED
      BY <1>2, <2>2, <3>1, <3>3, FixBegins, Zenon
  <2>3. CASE g.o.type = "map"
    <3> DEFINE b == 128 + l
    <3>1. b \in Byte /\ b \in 128..143 /\ b - 128 = l
      BY <1>3, <2>1, SMT DEF Byte
    <3>2. h = <<b>>
      BY <1>2, <2>1, <2>3
    <3> HIDE DEF b
    <3>3. Bytes[g.o] = <<b>> \o FlattenSeq(Chunks(g.o))
      BY <1>1, <3>2, Zenon
    <3> QED
      BY <1>2, <2>3, <3>1, <3>3, FixBegins, Zenon
  <2> QED
    BY <1>2, <2>2, <2>3
<1>4. CASE ~(l < 16) /\ l < 65536
  <2>1. /\ PackArray(l) = <<220>> \o Store2(l) /\ PackMap(l) = <<222>> \o Store2(l)
        /\ Store2(l) \in Seq(Byte) /\ Len(Store2(l)) = 2 /\ Load(Store2(l)) = l
    BY <1>1, <1>4, HeadsAre, SMT
  <2> DEFINE s == Store2(l)
             b == IF g.o.type = "array" THEN 220 ELSE 222
  <2>2. h = <<b>> \o s
    BY <1>2, <2>1
  <2>3. b \in Byte /\ b \in DOMAIN Trails /\ Trails[b] = [cs |-> g.o.type, n |-> 2]
    BY <1>2, TrailsAre, IsByte
  <2>4. s \in Seq(Byte) /\ Len(s) = 2 /\ Load(s) = l
    BY <2>1
  <2> HIDE DEF s, b
  <2>5. Numbered(b, s, 2)
    BY <2>3, <2>4, Zenon DEF Numbered
  <2>6. Bytes[g.o] = (<<b>> \o s) \o FlattenSeq(Chunks(g.o)) /\ Load(s) = Len(g.o.v)
    BY <1>1, <1>2, <2>2, <2>4, Zenon
  <2> QED
    BY <2>3, <2>5, <2>6, ContainerNBegins, Zenon
<1>5. CASE ~(l < 65536)
  <2>1. /\ PackArray(l) = <<221>> \o Store4(l) /\ PackMap(l) = <<223>> \o Store4(l)
        /\ Store4(l) \in Seq(Byte) /\ Len(Store4(l)) = 4 /\ Load(Store4(l)) = l
    BY <1>1, <1>5, HeadsAre, SMT
  <2> DEFINE s == Store4(l)
             b == IF g.o.type = "array" THEN 221 ELSE 223
  <2>2. h = <<b>> \o s
    BY <1>2, <2>1
  <2>3. b \in Byte /\ b \in DOMAIN Trails /\ Trails[b] = [cs |-> g.o.type, n |-> 4]
    BY <1>2, TrailsAre, IsByte
  <2>4. s \in Seq(Byte) /\ Len(s) = 4 /\ Load(s) = l
    BY <2>1
  <2> HIDE DEF s, b
  <2>5. Numbered(b, s, 4)
    BY <2>3, <2>4, Zenon DEF Numbered
  <2>6. Bytes[g.o] = (<<b>> \o s) \o FlattenSeq(Chunks(g.o)) /\ Load(s) = Len(g.o.v)
    BY <1>1, <1>2, <2>2, <2>4, Zenon
  <2> QED
    BY <2>3, <2>5, <2>6, ContainerNBegins, Zenon
<1> QED
  BY <1>3, <1>4, <1>5, SMT

\* What is in a container that is sent, and how it is packed.
LEMMA ContentsAre ==
    ASSUME NEW o \in Proper, o.type \in {"array", "map"}
    PROVE  /\ Len(o.v) \in Number /\ Len(o.v) \in Nat /\ DOMAIN o.v = 1..Len(o.v)
           /\ o = Obj(o.type, o.v)
           /\ o.type = "array" => o.v \in Seq(Proper)
           /\ o.type = "map" => o.v \in Seq(Proper \X Proper)
<1>1. o \in AllObjects /\ Sendable(o) /\ Items(o) \subseteq Proper
  BY ProperIs DEF SendableAll
<1>2. Len(o.v) \in Number
  BY <1>1 DEF Sendable, Nil
<1>3. Len(o.v) \in Nat
  BY <1>2, SmallTypes
<1>4. CASE o.type = "array"
  <2>1. o \in [type : {"array"}, v : Seq(AllObjects)]
    BY <1>1, <1>4, ItemsLessDeep
  <2>2. o.v \in Seq(AllObjects) /\ o = Obj(o.type, o.v)
    BY <2>1 DEF Obj
  <2>3. DOMAIN o.v = 1..Len(o.v)
    BY <2>2, LenProperties
  <2>4. \A i \in 1..Len(o.v) : o.v[i] \in Items(o)
    BY <1>4, <2>3 DEF Items
  <2>5. \A i \in 1..Len(o.v) : o.v[i] \in Proper
    BY <1>1, <2>4
  <2>6. o.v \in Seq(Proper)
    BY <2>2, <2>5, InSeq
  <2> QED
    BY <1>2, <1>3, <1>4, <2>2, <2>3, <2>6
<1>5. CASE o.type = "map"
  <2>1. o \in [type : {"map"}, v : Seq(AllObjects \X AllObjects)]
    BY <1>1, <1>5, ItemsLessDeep
  <2>2. o.v \in Seq(AllObjects \X AllObjects) /\ o = Obj(o.type, o.v)
    BY <2>1 DEF Obj
  <2>3. DOMAIN o.v = 1..Len(o.v)
    BY <2>2, LenProperties
  <2>4. \A i \in 1..Len(o.v) : o.v[i] \in AllObjects \X AllObjects
    BY <2>2, <2>3, ElementOfSeq
  <2>5. \A i \in 1..Len(o.v) : o.v[i][1] \in Items(o) /\ o.v[i][2] \in Items(o)
    BY <1>5, <2>3, PairsOf DEF At
  <2>6. \A i \in 1..Len(o.v) : o.v[i] \in Proper \X Proper
    BY <1>1, <2>4, <2>5
  <2>7. o.v \in Seq(Proper \X Proper)
    BY <2>2, <2>6, InSeq
  <2> QED
    BY <1>2, <1>3, <1>5, <2>2, <2>3, <2>7
<1> QED
  BY <1>4, <1>5

LEMMA ChunksAre ==
    ASSUME NEW o \in Proper, o.type \in {"array", "map"}
    PROVE  /\ Chunks(o) \in Seq(Seq(Byte)) /\ Len(Chunks(o)) = Len(o.v)
           /\ FlattenSeq(Chunks(o)) \in Seq(Byte)
           /\ \A i \in 1..Len(o.v) : Chunks(o)[i] = Chunk(o, i) /\ Chunk(o, i) \in Seq(Byte)
           /\ Bytes[o] = (IF o.type = "array" THEN PackArray(Len(o.v)) ELSE PackMap(Len(o.v)))
                         \o FlattenSeq(Chunks(o))
<1> HIDE DEF Byte
<1>1. Len(o.v) \in Nat /\ DOMAIN o.v = 1..Len(o.v)
  BY ContentsAre
<1>2. Bytes \in [AllObjects -> Seq(Byte)] /\ Proper \subseteq AllObjects /\ Bytes[o] = Packed(o, Bytes)
  BY BytesIs, ProperIs
<1>3. ASSUME NEW i \in 1..Len(o.v) PROVE Chunk(o, i) \in Seq(Byte)
  <2>1. CASE o.type = "array"
    <3>1. o.v[i] \in Proper
      BY <1>1, <2>1, ContentsAre, ElementOfSeq
    <3> QED
      BY <1>2, <2>1, <3>1 DEF Chunk
  <2>2. CASE o.type = "map"
    <3>1. o.v[i] \in Proper \X Proper
      BY <1>1, <2>2, ContentsAre, ElementOfSeq
    <3>2. Bytes[o.v[i][1]] \in Seq(Byte) /\ Bytes[o.v[i][2]] \in Seq(Byte)
      BY <1>2, <3>1
    <3>3. Chunk(o, i) = Bytes[o.v[i][1]] \o Bytes[o.v[i][2]]
      BY <2>2 DEF Chunk
    <3> QED
      BY <3>2, <3>3, ConcatProperties
  <2> QED
    BY <2>1, <2>2
<1> DEFINE c == Chunks(o)
<1>4. c = [i \in 1..Len(o.v) |-> Chunk(o, i)]
  BY <1>1 DEF Chunks
<1> HIDE DEF c
<1>5. c \in Seq(Seq(Byte)) /\ Len(c) = Len(o.v) /\ \A i \in 1..Len(o.v) : c[i] = Chunk(o, i)
  BY <1>1, <1>3, <1>4
<1>6. FlattenSeq(c) \in Seq(Byte)
  BY <1>5, FlattenBytes, Zenon
<1>7. Bytes[o] = (IF o.type = "array" THEN PackArray(Len(o.v)) ELSE PackMap(Len(o.v))) \o FlattenSeq(c)
  <2>1. CASE o.type = "array"
    <3>1. c = [i \in DOMAIN o.v |-> Bytes[o.v[i]]]
      BY <1>1, <1>4, <2>1 DEF Chunk
    <3>2. Packed(o, Bytes) = PackArray(Len(o.v)) \o FlattenSeq(c)
      BY <2>1, <3>1 DEF Packed
    <3> QED
      BY <1>2, <2>1, <3>2
  <2>2. CASE o.type = "map"
    <3>1. c = [i \in DOMAIN o.v |-> Bytes[o.v[i][1]] \o Bytes[o.v[i][2]]]
      BY <1>1, <1>4, <2>2 DEF Chunk
    <3>2. Packed(o, Bytes) = PackMap(Len(o.v)) \o FlattenSeq(c)
      BY <2>2, <3>1 DEF Packed
    <3> QED
      BY <1>2, <2>2, <3>2
  <2> QED
    BY <2>1, <2>2
<1> QED
  BY <1>3, <1>5, <1>6, <1>7 DEF c

LEMMA NumIs ==
    ASSUME NEW o \in AllObjects, o.type = "positive"
    PROVE  o = Num(o.v)
<1>1. PICK n \in Nat : o \in Objects[n]
  BY DEF AllObjects
<1>2. o \in Leaf
  <2>1. CASE n = 0
    BY <1>1, <2>1, ObjectsIs
  <2>2. CASE n # 0
    <3>1. n - 1 \in Nat /\ (n - 1) + 1 = n
      BY <2>2
    <3>2. Objects[n] = Leaf \cup Container(Objects[n - 1])
      BY <3>1, ObjectsIs
    <3>3. o \notin Container(Objects[n - 1])
      BY DEF Container
    <3> QED
      BY <1>1, <3>2, <3>3
  <2> QED
    BY <2>1, <2>2
<1>3. o \in [type : {"positive"}, v : Nat]
  BY <1>2 DEF Leaf, Nil
<1> QED
  BY <1>3 DEF Num

\* Where a value that is sent begins, the first byte says so.
LEMMA ValueBegins ==
    ASSUME buf \in Seq(Byte), NEW g, GoalOK(g)
    PROVE  Begins(g)
<1> DEFINE o == g.o
<1>1. o \in Proper /\ o \in AllObjects /\ Sendable(o) /\ Bytes[o] = Packed(o, Bytes)
  BY ProperIs, BytesIs DEF SendableAll, GoalOK
<1>2. \/ o = Nil
      \/ o.type = "positive" /\ o.v \in Number
      \/ o.type = "str" /\ o.v \in Str
      \/ o.type = "float" /\ o.v \in Seq(Byte) /\ Len(o.v) = 4
      \/ o.type \in {"array", "map"}
  BY <1>1, Zenon DEF Sendable
<1>3. CASE o = Nil
  <2>1. o.type = "nil"
    BY <1>3 DEF Nil
  <2>2. Bytes[o] = PackNil
    BY <1>1, <2>1 DEF Packed
  <2> QED
    BY <1>3, <2>2, NilBegins, Zenon
<1>4. CASE o.type = "positive" /\ o.v \in Number
  <2>1. Bytes[o] = PackInt(o.v)
    BY <1>1, <1>4 DEF Packed
  <2>2. o = Num(o.v)
    <3> HIDE DEF o
    <3> QED
      BY <1>1, <1>4, NumIs
  <2> QED
    BY <1>4, <2>1, <2>2, NumBegins, Zenon
<1>5. CASE o.type = "str" /\ o.v \in Str
  <2>1. Bytes[o] = PackStr(o.v)
    BY <1>1, <1>5 DEF Packed
  <2> QED
    BY <1>5, <2>1, StrBegins, Zenon
<1>6. CASE o.type = "float" /\ o.v \in Seq(Byte) /\ Len(o.v) = 4
  <2>1. Bytes[o] = PackFloat(o.v)
    BY <1>1, <1>6 DEF Packed
  <2> QED
    BY <1>6, <2>1, FloatBegins, Zenon
<1>7. CASE o.type \in {"array", "map"}
  <2>1. Len(o.v) \in Number
    BY <1>1, <1>7, ContentsAre
  <2> HIDE DEF o, Byte
  <2>2. /\ FlattenSeq(Chunks(o)) \in Seq(Byte)
        /\ Bytes[o] = (IF o.type = "array" THEN PackArray(Len(o.v)) ELSE PackMap(Len(o.v)))
                      \o FlattenSeq(Chunks(o))
    BY <1>1, <1>7, ChunksAre
  <2> QED
    BY <1>7, <2>1, <2>2, ContainerBegins, Zenon DEF o
<1> QED
  BY <1>2, <1>3, <1>4, <1>5, <1>6, <1>7
-----------------------------------------------------------------------------
(* A container that is being read *)

\* Where each item of f.x begins.
LaidOut(f) ==
    \A j \in 1..Len(f.x.v) :
       IsAt(Chunk(f.x, j), f.pos[j], buf) /\ f.pos[j + 1] = f.pos[j] + Len(Chunk(f.x, j))

\* The item of f.x that is being read.
NextItem(frame, f) == Len(f.x.v) - frame.count + 1

\* The frame is that of f.x, whose items are at f.pos.
Reading(frame, f) ==
    /\ frame = [obj |-> frame.obj, count |-> frame.count, ct |-> frame.ct, key |-> frame.key]
    /\ f.x \in Proper /\ f.x.type \in {"array", "map"}
    /\ frame.count \in 1..Len(f.x.v)
    /\ frame.obj = Obj(f.x.type, SubSeq(f.x.v, 1, Len(f.x.v) - frame.count))
    /\ f.x.type = "array" => frame.ct = "array"
    /\ f.x.type = "map" => frame.ct \in {"map", "value"}
    /\ frame.ct = "value" => frame.key = f.x.v[NextItem(frame, f)][1]
    /\ LaidOut(f)

\* What is to be read next.
GoalOf(frame, f) ==
    LET j == NextItem(frame, f)
    IN  IF frame.ct = "array" THEN [o |-> f.x.v[j], i |-> f.pos[j]]
        ELSE IF frame.ct = "map" THEN [o |-> f.x.v[j][1], i |-> f.pos[j]]
        ELSE [o |-> f.x.v[j][2], i |-> f.pos[j] + Len(Bytes[f.x.v[j][1]])]

LEMMA AppendNext ==
    ASSUME NEW S, NEW s \in Seq(S), NEW k \in 0..Len(s), k < Len(s)
    PROVE  Append(SubSeq(s, 1, k), s[k + 1]) = SubSeq(s, 1, k + 1)
<1>1. Len(s) \in Nat /\ k \in Nat /\ k + 1 \in 1..Len(s) /\ \A i \in 1..Len(s) : s[i] \in S
  BY LenProperties, ElementOfSeq
<1> DEFINE a == SubSeq(s, 1, k)
           b == SubSeq(s, 1, k + 1)
<1>2. a \in Seq(S) /\ Len(a) = k /\ \A i \in 1..k : a[i] = s[i]
  <2>1. a = [i \in 1..k |-> s[i]]
    BY <1>1
  <2>2. \A i \in 1..k : s[i] \in S
    BY <1>1
  <2> HIDE DEF a
  <2> QED
    BY <1>1, <2>1, <2>2
<1>3. b \in Seq(S) /\ Len(b) = k + 1 /\ \A i \in 1..(k + 1) : b[i] = s[i]
  <2>1. b = [i \in 1..(k + 1) |-> s[i]]
    BY <1>1
  <2>2. \A i \in 1..(k + 1) : s[i] \in S
    BY <1>1
  <2> HIDE DEF b
  <2> QED
    BY <1>1, <2>1, <2>2
<1> HIDE DEF a, b
<1> DEFINE c == Append(a, s[k + 1])
<1>4. c \in Seq(S) /\ Len(c) = k + 1 /\ c[k + 1] = s[k + 1] /\ \A i \in 1..k : c[i] = s[i]
  BY <1>1, <1>2, AppendProperties
<1> HIDE DEF c
<1>5. \A i \in 1..(k + 1) : c[i] = b[i]
  BY <1>1, <1>3, <1>4
<1>6. c = b
  BY <1>1, <1>3, <1>4, <1>5, SeqEqual
<1> QED
  BY <1>6 DEF a, b, c

LEMMA ItemsAre ==
    ASSUME NEW x \in Proper, x.type \in {"array", "map"}, NEW j \in 1..Len(x.v)
    PROVE  /\ x.type = "array" => x.v[j] \in Proper /\ Chunk(x, j) = Bytes[x.v[j]]
           /\ x.type = "map" => /\ x.v[j][1] \in Proper /\ x.v[j][2] \in Proper
                                /\ x.v[j] = <<x.v[j][1], x.v[j][2]>>
                                /\ Chunk(x, j) = Bytes[x.v[j][1]] \o Bytes[x.v[j][2]]
<1>1. CASE x.type = "array"
  <2>1. x.v[j] \in Proper
    BY <1>1, ContentsAre, ElementOfSeq
  <2> QED
    BY <1>1, <2>1 DEF Chunk
<1>2. CASE x.type = "map"
  <2>1. x.v[j] \in Proper \X Proper
    BY <1>2, ContentsAre, ElementOfSeq
  <2> QED
    BY <1>2, <2>1 DEF Chunk
<1> QED
  BY <1>1, <1>2

\* What is to be read next is there.
LEMMA GoalOfIs ==
    ASSUME buf \in Seq(Byte), NEW frame, NEW f, Reading(frame, f)
    PROVE  LET j == NextItem(frame, f)
           IN  /\ j \in 1..Len(f.x.v)
               /\ GoalOK(GoalOf(frame, f))
               /\ frame.ct # "map" => End(GoalOf(frame, f)) = f.pos[j + 1]
               /\ frame.ct = "map" => End(GoalOf(frame, f)) = f.pos[j] + Len(Bytes[f.x.v[j][1]])
<1> HIDE DEF Byte
<1> DEFINE j == NextItem(frame, f)
           x == f.x
           g == GoalOf(frame, f)
<1>1. x \in Proper /\ x.type \in {"array", "map"} /\ frame.count \in 1..Len(x.v) /\ LaidOut(f)
      /\ (x.type = "array" => frame.ct = "array") /\ (x.type = "map" => frame.ct \in {"map", "value"})
  BY DEF Reading
<1>2. Len(x.v) \in Nat
  BY <1>1, ContentsAre
<1>3. j \in 1..Len(x.v)
  BY <1>1, <1>2 DEF NextItem
<1> HIDE DEF j
<1>4. IsAt(Chunk(x, j), f.pos[j], buf) /\ f.pos[j + 1] = f.pos[j] + Len(Chunk(x, j))
  BY <1>1, <1>3 DEF LaidOut
<1>5. \A y \in Proper : Bytes[y] \in Seq(Byte)
  BY BytesIs, ProperIs
<1>6. CASE x.type = "array"
  <2>1. frame.ct = "array" /\ g = [o |-> x.v[j], i |-> f.pos[j]]
    BY <1>1, <1>6 DEF GoalOf, j
  <2>2. x.v[j] \in Proper /\ Chunk(x, j) = Bytes[x.v[j]]
    BY <1>1, <1>3, <1>6, ItemsAre
  <2>3. g.o = x.v[j] /\ g.i = f.pos[j]
    <3> HIDE DEF g, x
    <3> QED
      BY <2>1
  <2> HIDE DEF g, x
  <2>4. GoalOK(g) /\ End(g) = f.pos[j + 1]
    BY <1>4, <2>2, <2>3, Zenon DEF GoalOK, End
  <2> QED
    BY <1>3, <2>1, <2>4 DEF g, x, j
<1>7. CASE x.type = "map"
  <2> DEFINE k == x.v[j][1]
             v == x.v[j][2]
             a == Bytes[k]
             b == Bytes[v]
  <2>1. k \in Proper /\ v \in Proper /\ Chunk(x, j) = a \o b /\ a \in Seq(Byte) /\ b \in Seq(Byte)
    BY <1>1, <1>3, <1>5, <1>7, ItemsAre
  <2> HIDE DEF a, b
  <2>2. IsAt(a, f.pos[j], buf) /\ IsAt(b, f.pos[j] + Len(a), buf)
    BY <1>4, <2>1, ConcatIsAt
  <2>3. Len(a \o b) = Len(a) + Len(b) /\ Len(a) \in Nat /\ Len(b) \in Nat
    BY <2>1, ConcatProperties, LenProperties
  <2>4. f.pos[j] \in Nat
    BY <2>2 DEF IsAt
  <2>5. f.pos[j + 1] = (f.pos[j] + Len(a)) + Len(b)
    <3> DEFINE l == Len(a)
               m == Len(b)
               q == f.pos[j]
    <3>1. l \in Nat /\ m \in Nat /\ q \in Nat /\ f.pos[j + 1] = q + (l + m)
      BY <1>4, <2>1, <2>3, <2>4
    <3> HIDE DEF l, m, q
    <3>2. f.pos[j + 1] = (q + l) + m
      BY <3>1
    <3> QED
      BY <3>2 DEF l, m, q
  <2>6. CASE frame.ct = "map"
    <3>1. g = [o |-> k, i |-> f.pos[j]]
      BY <2>6 DEF GoalOf, j
    <3>2. g.o = k /\ g.i = f.pos[j]
      BY <3>1
    <3> HIDE DEF g
    <3>3. GoalOK(g) /\ End(g) = f.pos[j] + Len(Bytes[k])
      BY <2>1, <2>2, <3>2, Zenon DEF GoalOK, End, a
    <3> QED
      BY <1>3, <2>6, <3>3 DEF g, j
  <2>7. CASE frame.ct = "value"
    <3>1. g = [o |-> v, i |-> f.pos[j] + Len(a)]
      BY <2>7 DEF GoalOf, j, a
    <3>2. g.o = v /\ g.i = f.pos[j] + Len(a)
      BY <3>1
    <3> HIDE DEF g
    <3>3. GoalOK(g) /\ End(g) = f.pos[j + 1]
      BY <2>1, <2>2, <2>5, <3>2, Zenon DEF GoalOK, End, b
    <3> QED
      BY <1>3, <2>7, <3>3 DEF g, j
  <2> QED
    BY <1>1, <1>7, <2>6, <2>7
<1> QED
  BY <1>1, <1>6, <1>7

IsFrame(frame, o, c, t, k) == frame = [obj |-> o, count |-> c, ct |-> t, key |-> k]

HasFields(frame, o, c, t, k) == frame.obj = o /\ frame.count = c /\ frame.ct = t /\ frame.key = k

LEMMA FrameIs ==
    ASSUME NEW o, NEW c, NEW t, NEW k, NEW frame, IsFrame(frame, o, c, t, k)
    PROVE  HasFields(frame, o, c, t, k)
BY DEF IsFrame, HasFields

LEMMA FrameExcept ==
    ASSUME NEW o, NEW c, NEW t, NEW k, NEW frame, frame = [obj |-> o, count |-> c, ct |-> t, key |-> k]
    PROVE  /\ \A t2, k2 : [frame EXCEPT !.ct = t2, !.key = k2]
                           = [obj |-> o, count |-> c, ct |-> t2, key |-> k2]
           /\ \A o2, c2, t2 : [frame EXCEPT !.obj = o2, !.count = c2, !.ct = t2]
                               = [obj |-> o2, count |-> c2, ct |-> t2, key |-> k]
<1>1. ASSUME NEW t2, NEW k2
      PROVE  [frame EXCEPT !.ct = t2, !.key = k2] = [obj |-> o, count |-> c, ct |-> t2, key |-> k2]
  <2> DEFINE f == [frame EXCEPT !.ct = t2]
  <2>1. f = [obj |-> o, count |-> c, ct |-> t2, key |-> k]
    BY SMT
  <2> HIDE DEF f
  <2>2. [f EXCEPT !.key = k2] = [obj |-> o, count |-> c, ct |-> t2, key |-> k2]
    BY <2>1, SMT
  <2>3. [frame EXCEPT !.ct = t2, !.key = k2] = [f EXCEPT !.key = k2]
    BY SMT DEF f
  <2> QED
    BY <2>2, <2>3, Zenon
<1>2. ASSUME NEW o2, NEW c2, NEW t2
      PROVE  [frame EXCEPT !.obj = o2, !.count = c2, !.ct = t2]
             = [obj |-> o2, count |-> c2, ct |-> t2, key |-> k]
  <2> DEFINE f == [frame EXCEPT !.obj = o2]
             g == [f EXCEPT !.count = c2]
  <2>1. f = [obj |-> o2, count |-> c, ct |-> t, key |-> k]
    BY SMT
  <2> HIDE DEF f
  <2>2. g = [obj |-> o2, count |-> c2, ct |-> t, key |-> k]
    BY <2>1, SMT
  <2> HIDE DEF g
  <2>3. [g EXCEPT !.ct = t2] = [obj |-> o2, count |-> c2, ct |-> t2, key |-> k]
    BY <2>2, SMT
  <2>4. [frame EXCEPT !.obj = o2, !.count = c2, !.ct = t2] = [g EXCEPT !.ct = t2]
    BY SMT DEF f, g
  <2> QED
    BY <2>3, <2>4, Zenon
<1> QED
  BY <1>1, <1>2, Zenon

LEMMA ObjWith ==
    ASSUME NEW type, NEW s, NEW t
    PROVE  [Obj(type, s) EXCEPT !.v = Append(@, t)] = Obj(type, Append(s, t))
<1> DEFINE o == Obj(type, s)
           a == Append(s, t)
<1>1. o = [type |-> type, v |-> s] /\ o.v = s
  BY DEF Obj
<1> HIDE DEF o, a
<1>2. [o EXCEPT !.v = a] = [type |-> type, v |-> a]
  BY <1>1
<1>3. [o EXCEPT !.v = Append(@, t)] = [type |-> type, v |-> a]
  BY <1>1, <1>2 DEF a
<1> QED
  BY <1>3 DEF o, a, Obj

\* After a key, its value is to be read.
LEMMA KeyRead ==
    ASSUME buf \in Seq(Byte), NEW frame, NEW f, Reading(frame, f), frame.ct = "map",
           NEW new, new = [frame EXCEPT !.ct = "value", !.key = GoalOf(frame, f).o]
    PROVE  Reading(new, f) /\ GoalOf(new, f).i = End(GoalOf(frame, f))
<1> DEFINE j == NextItem(frame, f)
           x == f.x
           k == x.v[j][1]
<1>1. /\ frame = [obj |-> frame.obj, count |-> frame.count, ct |-> frame.ct, key |-> frame.key]
      /\ x \in Proper /\ x.type \in {"array", "map"}
      /\ frame.count \in 1..Len(x.v)
      /\ frame.obj = Obj(x.type, SubSeq(x.v, 1, Len(x.v) - frame.count))
      /\ x.type = "array" => frame.ct = "array"
      /\ LaidOut(f)
  BY DEF Reading
<1>2. GoalOf(frame, f).o = k
  BY DEF GoalOf
<1>3. End(GoalOf(frame, f)) = f.pos[j] + Len(Bytes[k])
  BY GoalOfIs
<1>4. new.obj = frame.obj /\ new.count = frame.count /\ new.ct = "value" /\ new.key = k
      /\ new = [obj |-> new.obj, count |-> new.count, ct |-> new.ct, key |-> new.key]
  <2>1. new = [obj |-> frame.obj, count |-> frame.count, ct |-> "value", key |-> k]
    <3> HIDE DEF k
    <3>1. new = [frame EXCEPT !.ct = "value", !.key = k]
      BY <1>2, Zenon
    <3> QED
      BY <1>1, <3>1, FrameExcept, Zenon
  <2> HIDE DEF k
  <2> DEFINE a == frame.obj
             c == frame.count
  <2> HIDE DEF a, c
  <2>2. IsFrame(new, a, c, "value", k)
    BY <2>1, Zenon DEF a, c, IsFrame
  <2>3. HasFields(new, a, c, "value", k)
    BY <2>2, FrameIs, Zenon
  <2> QED
    BY <2>2, <2>3, Zenon DEF a, c, IsFrame, HasFields
<1>5. NextItem(new, f) = j
  BY <1>4 DEF NextItem
<1>6. GoalOf(new, f) = [o |-> x.v[j][2], i |-> f.pos[j] + Len(Bytes[k])]
  <2>1. new.ct # "array" /\ new.ct # "map"
    BY <1>4
  <2> QED
    BY <1>5, <2>1, Zenon DEF GoalOf
<1>7. Reading(new, f)
  <2>1. x.type = "map"
    BY <1>1
  <2> HIDE DEF j, k
  <2>2. new.ct = "value" => new.key = f.x.v[NextItem(new, f)][1]
    BY <1>4, <1>5, Zenon DEF k
  <2>3. x.type = "map" => new.ct \in {"map", "value"}
    BY <1>4
  <2>4. x.type = "array" => new.ct = "array"
    BY <2>1
  <2> QED
    BY <1>1, <1>4, <2>2, <2>3, <2>4, Zenon DEF Reading, x
<1>8. GoalOf(new, f).i = f.pos[j] + Len(Bytes[k])
  <2> HIDE DEF j, k, x
  <2> QED
    BY <1>6
<1> QED
  BY <1>3, <1>7, <1>8, Zenon

\* After an item, the next one; after the last one, the container is complete.
ItemOf(frame, o) ==
    IF frame.ct = "array" THEN [frame.obj EXCEPT !.v = Append(@, o)]
                          ELSE [frame.obj EXCEPT !.v = Append(@, <<frame.key, o>>)]

LEMMA ItemIs ==
    ASSUME buf \in Seq(Byte), NEW frame, NEW f, Reading(frame, f), frame.ct # "map"
    PROVE  ItemOf(frame, GoalOf(frame, f).o) = Obj(f.x.type, SubSeq(f.x.v, 1, NextItem(frame, f)))
<1> DEFINE j == NextItem(frame, f)
           x == f.x
           s == SubSeq(x.v, 1, j - 1)
           o == GoalOf(frame, f).o
<1>1. /\ x \in Proper /\ x.type \in {"array", "map"}
      /\ frame.count \in 1..Len(x.v)
      /\ frame.obj = Obj(x.type, SubSeq(x.v, 1, Len(x.v) - frame.count))
      /\ x.type = "array" => frame.ct = "array"
      /\ x.type = "map" => frame.ct = "value"
      /\ frame.ct = "value" => frame.key = x.v[j][1]
  BY DEF Reading
<1>2. Len(x.v) \in Nat
  BY <1>1, ContentsAre
<1>3. j \in 1..Len(x.v) /\ Len(x.v) - frame.count = j - 1 /\ j - 1 \in 0..Len(x.v) /\ j - 1 < Len(x.v)
      /\ (j - 1) + 1 = j
  BY <1>1, <1>2 DEF NextItem
<1>4. frame.obj = Obj(x.type, s)
  BY <1>1, <1>3
<1>5. \A S : x.v \in Seq(S) => Append(s, x.v[j]) = SubSeq(x.v, 1, j)
  <2> SUFFICES ASSUME NEW S, x.v \in Seq(S) PROVE Append(s, x.v[j]) = SubSeq(x.v, 1, j)
    OBVIOUS
  <2> DEFINE w == x.v
             i == j - 1
  <2>1. w \in Seq(S) /\ i \in 0..Len(w) /\ i < Len(w)
    BY <1>3
  <2> HIDE DEF w, i
  <2>2. Append(SubSeq(w, 1, i), w[i + 1]) = SubSeq(w, 1, i + 1)
    BY <2>1, AppendNext
  <2>3. i + 1 = j
    BY <1>3 DEF i
  <2> QED
    BY <2>2, <2>3, Zenon DEF w, i
<1>6. Append(s, x.v[j]) = SubSeq(x.v, 1, j)
  <2>1. x.v \in Seq(Proper) \/ x.v \in Seq(Proper \X Proper)
    BY <1>1, ContentsAre
  <2> HIDE DEF s, j
  <2> QED
    BY <1>5, <2>1
<1>7. \A t : [Obj(x.type, s) EXCEPT !.v = Append(@, t)] = Obj(x.type, Append(s, t))
  BY ObjWith, Zenon
<1>8. CASE x.type = "array"
  <2>1. frame.ct = "array"
    BY <1>1, <1>8
  <2>2. o = x.v[j]
    BY <2>1 DEF GoalOf
  <2> HIDE DEF o, s, j
  <2>3. ItemOf(frame, o) = Obj(x.type, Append(s, o))
    BY <1>4, <1>7, <2>1, Zenon DEF ItemOf
  <2> QED
    BY <1>6, <2>2, <2>3, Zenon DEF o, j, x
<1>9. CASE x.type = "map"
  <2>1. frame.ct = "value" /\ frame.key = x.v[j][1]
    BY <1>1, <1>9
  <2>2. o = x.v[j][2]
    <3>1. frame.ct # "array" /\ frame.ct # "map"
      BY <2>1
    <3>2. GoalOf(frame, f) = [o |-> x.v[j][2], i |-> f.pos[j] + Len(Bytes[x.v[j][1]])]
      BY <3>1, Zenon DEF GoalOf
    <3> HIDE DEF j, x
    <3> QED
      BY <3>2
  <2>3. <<frame.key, o>> = x.v[j]
    <3> HIDE DEF o, j, x
    <3>1. x.v[j] = <<x.v[j][1], x.v[j][2]>>
      BY <1>1, <1>3, <1>9, ItemsAre
    <3> QED
      BY <2>1, <2>2, <3>1, Zenon
  <2> HIDE DEF o, s, j
  <2>4. frame.ct # "array"
    BY <2>1
  <2>5. ItemOf(frame, o) = Obj(x.type, Append(s, <<frame.key, o>>))
    BY <1>4, <1>7, <2>4, Zenon DEF ItemOf
  <2> QED
    BY <1>6, <2>3, <2>5, Zenon DEF o, j, x
<1> QED
  BY <1>1, <1>8, <1>9

LEMMA LastItemRead ==
    ASSUME buf \in Seq(Byte), NEW frame, NEW f, Reading(frame, f), frame.ct # "map", frame.count = 1
    PROVE  /\ ItemOf(frame, GoalOf(frame, f).o) = f.x
           /\ End(GoalOf(frame, f)) = f.pos[Len(f.x.v) + 1]
<1> DEFINE j == NextItem(frame, f)
           x == f.x
<1>1. x \in Proper /\ x.type \in {"array", "map"}
  BY DEF Reading
<1>2. Len(x.v) \in Nat /\ x = Obj(x.type, x.v)
  BY <1>1, ContentsAre
<1>3. j = Len(x.v)
  BY <1>2 DEF NextItem
<1>4. SubSeq(x.v, 1, Len(x.v)) = x.v
  <2>1. \A S : x.v \in Seq(S) => SubSeq(x.v, 1, Len(x.v)) = x.v
    <3> SUFFICES ASSUME NEW S, x.v \in Seq(S) PROVE SubSeq(x.v, 1, Len(x.v)) = x.v
      OBVIOUS
    <3> DEFINE w == x.v
    <3>1. w \in Seq(S)
      OBVIOUS
    <3> HIDE DEF w
    <3>2. SubSeq(w, 1, Len(w)) = w
      BY <3>1
    <3> QED
      BY <3>2 DEF w
  <2>2. x.v \in Seq(Proper) \/ x.v \in Seq(Proper \X Proper)
    BY <1>1, ContentsAre
  <2> QED
    BY <2>1, <2>2
<1>5. ItemOf(frame, GoalOf(frame, f).o) = Obj(x.type, SubSeq(x.v, 1, j))
  BY ItemIs
<1>6. End(GoalOf(frame, f)) = f.pos[j + 1]
  BY GoalOfIs
<1> HIDE DEF j
<1> QED
  BY <1>2, <1>3, <1>4, <1>5, <1>6, Zenon

LEMMA ItemRead ==
    ASSUME buf \in Seq(Byte), NEW frame, NEW f, Reading(frame, f), frame.ct # "map", frame.count # 1,
           NEW new,
           new = [frame EXCEPT !.obj = ItemOf(frame, GoalOf(frame, f).o), !.count = frame.count - 1,
                               !.ct = frame.obj.type]
    PROVE  Reading(new, f) /\ GoalOf(new, f).i = End(GoalOf(frame, f))
<1> DEFINE j == NextItem(frame, f)
           x == f.x
           c == ItemOf(frame, GoalOf(frame, f).o)
<1>1. /\ frame = [obj |-> frame.obj, count |-> frame.count, ct |-> frame.ct, key |-> frame.key]
      /\ x \in Proper /\ x.type \in {"array", "map"}
      /\ frame.count \in 1..Len(x.v)
      /\ frame.obj = Obj(x.type, SubSeq(x.v, 1, Len(x.v) - frame.count))
      /\ LaidOut(f)
  BY DEF Reading
<1>2. Len(x.v) \in Nat
  BY <1>1, ContentsAre
<1>3. frame.obj.type = x.type
  BY <1>1 DEF Obj
<1>4. c = Obj(x.type, SubSeq(x.v, 1, j)) /\ End(GoalOf(frame, f)) = f.pos[j + 1]
  BY ItemIs, GoalOfIs
<1> HIDE DEF c
<1>5. new.obj = c /\ new.count = frame.count - 1 /\ new.ct = x.type
      /\ new = [obj |-> new.obj, count |-> new.count, ct |-> new.ct, key |-> new.key]
  <2>1. new = [frame EXCEPT !.obj = c, !.count = frame.count - 1, !.ct = x.type]
    BY <1>3 DEF c
  <2> DEFINE n == frame.count - 1
             t == x.type
  <2> HIDE DEF n, t
  <2>2. new = [obj |-> c, count |-> n, ct |-> t, key |-> frame.key]
    <3>1. new = [frame EXCEPT !.obj = c, !.count = n, !.ct = t]
      BY <2>1, Zenon DEF n, t
    <3> QED
      BY <1>1, <3>1, FrameExcept, Zenon
  <2> DEFINE k == frame.key
  <2> HIDE DEF k
  <2>3. IsFrame(new, c, n, t, k)
    BY <2>2, Zenon DEF k, IsFrame
  <2>4. HasFields(new, c, n, t, k)
    BY <2>3, FrameIs, Zenon
  <2> QED
    BY <2>3, <2>4, Zenon DEF n, t, k, IsFrame, HasFields
<1>6. /\ frame.count - 1 \in 1..Len(x.v) /\ Len(x.v) - (frame.count - 1) = j
      /\ NextItem(new, f) = j + 1
  BY <1>1, <1>2, <1>5 DEF NextItem
<1>7. new.ct = "array" \/ new.ct = "map"
  BY <1>1, <1>5
<1>8. GoalOf(new, f).i = f.pos[j + 1]
  <2> DEFINE m == NextItem(new, f)
             a == x.v[m]
             b == x.v[m][1]
  <2> HIDE DEF m, a, b
  <2>1. new.ct = "array" => GoalOf(new, f) = [o |-> a, i |-> f.pos[m]]
    BY Zenon DEF GoalOf, m, a
  <2>2. new.ct = "map" => GoalOf(new, f) = [o |-> b, i |-> f.pos[m]]
    <3>1. new.ct = "map" => new.ct # "array"
      OBVIOUS
    <3> QED
      BY <3>1, Zenon DEF GoalOf, m, b
  <2>3. GoalOf(new, f).i = f.pos[m]
    BY <1>7, <2>1, <2>2
  <2> QED
    BY <1>6, <2>3, Zenon DEF m
<1>9. Reading(new, f)
  <2>1. new.count \in 1..Len(x.v) /\ Len(x.v) - new.count = j
    BY <1>5, <1>6
  <2>2. new.obj = Obj(x.type, SubSeq(x.v, 1, Len(x.v) - new.count))
    BY <1>4, <1>5, <2>1
  <2>3. (x.type = "array" => new.ct = "array") /\ (x.type = "map" => new.ct \in {"map", "value"})
        /\ new.ct # "value"
    BY <1>5, <1>7
  <2> HIDE DEF j
  <2> QED
    BY <1>1, <1>5, <2>1, <2>2, <2>3, Zenon DEF Reading, x
<1> QED
  BY <1>4, <1>8, <1>9, Zenon

\* A container begins, and what is in it comes next.
NewFrame(frame, o) == frame = [obj |-> Obj(o.type, <<>>), count |-> Len(o.v), ct |-> o.type, key |-> Nil]

Starts(frame, g, q) ==
    \E f : /\ Reading(frame, f) /\ f.x = g.o
          /\ f.pos[Len(f.x.v) + 1] = End(g) /\ GoalOf(frame, f).i = q

LEMMA StartReading ==
    ASSUME buf \in Seq(Byte), NEW g, GoalOK(g), g.o.type \in {"array", "map"}, Len(g.o.v) # 0,
           NEW q, BodyIsAt(FlattenSeq(Chunks(g.o)), q, End(g)), NEW frame, NewFrame(frame, g.o)
    PROVE  Starts(frame, g, q)
<1> HIDE DEF Byte
<1> DEFINE x == g.o
           ss == Chunks(x)
           l == Len(x.v)
<1>1. x \in Proper /\ x.type \in {"array", "map"}
  BY DEF GoalOK
<1>2. /\ ss \in Seq(Seq(Byte)) /\ Len(ss) = l
      /\ \A i \in 1..l : ss[i] = Chunk(x, i)
  BY <1>1, ChunksAre
<1>3. IsAt(FlattenSeq(ss), q, buf) /\ End(g) = q + Len(FlattenSeq(ss))
  BY DEF BodyIsAt
<1>4. l \in Nat /\ l # 0
  BY <1>1, ContentsAre
<1> HIDE DEF ss, l
<1>5. PICK pos : Places(ss, q, buf, pos)
  <2>1. ss \in Seq(Seq(Byte)) /\ IsAt(FlattenSeq(ss), q, buf)
    BY <1>2, <1>3
  <2> QED
    BY <2>1, FlattenIsAt
<1>6. /\ pos[1] = q /\ pos[Len(ss) + 1] = q + Len(FlattenSeq(ss))
      /\ \A k \in 1..Len(ss) : IsAt(ss[k], pos[k], buf) /\ pos[k + 1] = pos[k] + Len(ss[k])
  BY <1>5 DEF Places
<1> DEFINE f == [x |-> x, pos |-> pos]
<1>7. f.x = x /\ f.pos = pos
  <2> HIDE DEF x
  <2> QED
    OBVIOUS
<1> HIDE DEF f
<1>8. LaidOut(f)
  <2>1. \A k \in 1..l : IsAt(Chunk(x, k), pos[k], buf) /\ pos[k + 1] = pos[k] + Len(Chunk(x, k))
    BY <1>2, <1>6
  <2> QED
    BY <1>7, <2>1, Zenon DEF LaidOut, l
<1>9. frame.obj = Obj(x.type, <<>>) /\ frame.count = l /\ frame.ct = x.type /\ frame.key = Nil
      /\ frame = [obj |-> frame.obj, count |-> frame.count, ct |-> frame.ct, key |-> frame.key]
  <2> DEFINE e == Obj(x.type, <<>>)
             t == x.type
  <2> HIDE DEF e, t
  <2>1. frame = [obj |-> e, count |-> l, ct |-> t, key |-> Nil]
    BY DEF e, t, l, NewFrame
  <2>2. frame.obj = e /\ frame.count = l /\ frame.ct = t /\ frame.key = Nil
    BY <2>1
  <2> QED
    BY <2>1, <2>2, Zenon DEF e, t
<1>10. l - frame.count = 0 /\ frame.count \in 1..l /\ NextItem(frame, f) = 1
  <2>1. l - frame.count = 0 /\ frame.count \in 1..l
    BY <1>4, <1>9
  <2>2. NextItem(frame, f) = (l - frame.count) + 1
    BY <1>7, Zenon DEF NextItem, l
  <2> QED
    BY <2>1, <2>2
<1>11. SubSeq(x.v, 1, 0) = <<>>
  BY SMT
<1>12. Reading(frame, f)
  <2>1. frame.obj = Obj(x.type, SubSeq(x.v, 1, l - frame.count))
    BY <1>9, <1>10, <1>11, Zenon
  <2>2. (x.type = "array" => frame.ct = "array") /\ (x.type = "map" => frame.ct \in {"map", "value"})
        /\ frame.ct # "value"
    BY <1>1, <1>9
  <2> HIDE DEF x
  <2> QED
    BY <1>1, <1>7, <1>8, <1>9, <1>10, <2>1, <2>2, Zenon DEF Reading, l
<1>13. GoalOf(frame, f).i = q
  <2> DEFINE a == x.v[1]
             b == x.v[1][1]
  <2> HIDE DEF a, b
  <2>1. frame.ct = "array" => GoalOf(frame, f) = [o |-> a, i |-> f.pos[1]]
    BY <1>7, <1>10, Zenon DEF GoalOf, a
  <2>2. frame.ct = "map" => GoalOf(frame, f) = [o |-> b, i |-> f.pos[1]]
    <3>1. frame.ct = "map" => frame.ct # "array"
      OBVIOUS
    <3> QED
      BY <1>7, <1>10, <3>1, Zenon DEF GoalOf, b
  <2>3. GoalOf(frame, f).i = f.pos[1]
    BY <1>1, <1>9, <2>1, <2>2
  <2> QED
    BY <1>6, <1>7, <2>3, Zenon
<1>14. f.pos[Len(f.x.v) + 1] = End(g)
  BY <1>2, <1>3, <1>6, <1>7, Zenon DEF l
<1> QED
  BY <1>7, <1>12, <1>13, <1>14, Zenon DEF x, Starts
-----------------------------------------------------------------------------
(* A message that is being read *)

\* What is to be read next when the first k of the frames are looked at.
Goal(s, fr, O, k) == IF k = 0 THEN [o |-> O, i |-> 1] ELSE GoalOf(s[k], fr[k])

\* f.x is this, and takes up as much of the buffer.
Follows(f, g) == f.x = g.o /\ f.pos[Len(f.x.v) + 1] = End(g)

\* Frame k is that of what is to be read when the first k - 1 are looked at.
LinkOK(s, fr, O, k) ==
    /\ Reading(s[k], fr[k])
    /\ Follows(fr[k], Goal(s, fr, O, k - 1))

Linked(s, fr, O) == \A k \in 1..Len(s) : LinkOK(s, fr, O, k)

\* What is made of a message begins, and is all there is in the buffer.
Whole(O) == O \in Proper /\ buf \in Seq(Byte) /\ buf = Bytes[O]

LEMMA GoalsOK ==
    ASSUME NEW S, NEW s \in Seq(S), NEW fr, NEW O, Whole(O), Linked(s, fr, O), NEW k \in 0..Len(s)
    PROVE  GoalOK(Goal(s, fr, O, k))
<1> HIDE DEF Byte
<1> DEFINE g == Goal(s, fr, O, k)
<1>1. CASE k = 0
  <2>1. g = [o |-> O, i |-> 1]
    BY <1>1, Zenon DEF Goal
  <2> HIDE DEF g
  <2>2. g.o = O /\ g.i = 1
    BY <2>1
  <2>3. IsAt(buf, 1, buf)
    <3>1. buf \in Seq(Byte)
      BY DEF Whole
    <3>2. Len(buf) \in Nat
      BY <3>1, LenProperties
    <3> QED
      BY <3>2 DEF IsAt
  <2>4. GoalOK(g)
    BY <2>2, <2>3, Zenon DEF GoalOK, Whole
  <2> QED
    BY <2>4 DEF g
<1>2. CASE k # 0
  <2>1. Len(s) \in Nat
    BY LenProperties
  <2>2. k \in 1..Len(s)
    BY <1>2, <2>1
  <2>3. Reading(s[k], fr[k])
    BY <2>2 DEF Linked, LinkOK
  <2>4. buf \in Seq(Byte)
    BY DEF Whole
  <2>5. GoalOK(GoalOf(s[k], fr[k]))
    BY <2>3, <2>4, GoalOfIs
  <2> QED
    BY <1>2, <2>5, Zenon DEF Goal
<1> QED
  BY <1>1, <1>2

\* The stack without the last frame.
LEMMA LinkedFront ==
    ASSUME NEW S, NEW s \in Seq(S), s # <<>>, NEW fr, NEW O, Linked(s, fr, O)
    PROVE  /\ Linked(Front(s), fr, O)
           /\ \A k \in 0..(Len(s) - 1) : Goal(Front(s), fr, O, k) = Goal(s, fr, O, k)
<1> DEFINE t == Front(s)
           n == Len(s)
<1>1. n \in Nat \ {0} /\ n - 1 \in Nat /\ Len(t) = n - 1 /\ \A i \in 1..(n - 1) : i \in 1..n /\ t[i] = s[i]
  BY FrontOf
<1> HIDE DEF t, n
<1>2. ASSUME NEW k \in 0..(n - 1) PROVE Goal(t, fr, O, k) = Goal(s, fr, O, k)
  <2>1. k # 0 => k \in 1..(n - 1)
    BY <1>1
  <2>2. k # 0 => t[k] = s[k]
    BY <1>1, <2>1
  <2> QED
    BY <2>2, Zenon DEF Goal
<1>3. ASSUME NEW k \in 1..(n - 1) PROVE LinkOK(t, fr, O, k)
  <2>1. k \in 1..n /\ t[k] = s[k] /\ k - 1 \in 0..(n - 1)
    BY <1>1
  <2>2. LinkOK(s, fr, O, k)
    BY <2>1, Zenon DEF Linked, n
  <2>3. Goal(t, fr, O, k - 1) = Goal(s, fr, O, k - 1)
    BY <1>2, <2>1
  <2> QED
    BY <2>1, <2>2, <2>3, Zenon DEF LinkOK
<1>4. Linked(t, fr, O)
  BY <1>1, <1>3, Zenon DEF Linked
<1> QED
  BY <1>2, <1>4, Zenon DEF t, n

\* The stack with another last frame, or with one more.
OneMore(t, s, frame) == Len(t) = Len(s) + 1 /\ t[Len(s) + 1] = frame /\ \A k \in 1..Len(s) : t[k] = s[k]
SameTo(fr2, fr, n, f) == fr2[n + 1] = f /\ \A k \in 1..n : fr2[k] = fr[k]

LEMMA LinkedAppend ==
    ASSUME NEW S, NEW s \in Seq(S), NEW fr, NEW O, Linked(s, fr, O), NEW frame, NEW f,
           Reading(frame, f), Follows(f, Goal(s, fr, O, Len(s))),
           NEW fr2, SameTo(fr2, fr, Len(s), f), NEW t, OneMore(t, s, frame)
    PROVE  Linked(t, fr2, O) /\ Goal(t, fr2, O, Len(t)) = GoalOf(frame, f)
<1> DEFINE n == Len(s)
<1>1. n \in Nat
  BY LenProperties
<1>2. Len(t) = n + 1 /\ t[n + 1] = frame /\ fr2[n + 1] = f
      /\ \A k \in 1..n : t[k] = s[k] /\ fr2[k] = fr[k]
  BY DEF OneMore, SameTo
<1> HIDE DEF n
<1>3. ASSUME NEW k \in 0..n PROVE Goal(t, fr2, O, k) = Goal(s, fr, O, k)
  <2>1. k # 0 => k \in 1..n
    BY <1>1
  <2>2. k # 0 => t[k] = s[k] /\ fr2[k] = fr[k]
    BY <1>2, <2>1
  <2> QED
    BY <2>2, Zenon DEF Goal
<1>4. ASSUME NEW k \in 1..(n + 1) PROVE LinkOK(t, fr2, O, k)
  <2>1. k - 1 \in 0..n /\ (k \in 1..n \/ k = n + 1)
    BY <1>1
  <2>2. Goal(t, fr2, O, k - 1) = Goal(s, fr, O, k - 1)
    BY <1>3, <2>1
  <2>3. CASE k \in 1..n
    <3>1. LinkOK(s, fr, O, k)
      BY <2>3, Zenon DEF Linked, n
    <3>2. t[k] = s[k] /\ fr2[k] = fr[k]
      BY <1>2, <2>3
    <3> QED
      BY <2>2, <3>1, <3>2, Zenon DEF LinkOK
  <2>4. CASE k = n + 1
    <3>1. k - 1 = n
      BY <1>1, <2>4
    <3>2. t[k] = frame /\ fr2[k] = f
      BY <1>2, <2>4, Zenon
    <3>3. Reading(frame, f) /\ Follows(f, Goal(s, fr, O, n))
      BY Zenon DEF n
    <3>4. Goal(t, fr2, O, k - 1) = Goal(s, fr, O, n)
      BY <2>2, <3>1, Zenon
    <3> QED
      BY <3>2, <3>3, <3>4, Zenon DEF LinkOK
  <2> QED
    BY <2>1, <2>3, <2>4, Zenon
<1>5. Linked(t, fr2, O)
  BY <1>2, <1>4, Zenon DEF Linked
<1>6. Goal(t, fr2, O, n + 1) = GoalOf(frame, f)
  <2>1. n + 1 # 0
    BY <1>1
  <2> QED
    BY <1>2, <2>1, Zenon DEF Goal
<1> QED
  BY <1>2, <1>5, <1>6, Zenon

LEMMA LinkedTop ==
    ASSUME NEW S, NEW s \in Seq(S), s # <<>>, NEW fr, NEW O, Linked(s, fr, O), NEW frame,
           Reading(frame, fr[Len(s)])
    PROVE  LET t == Append(Front(s), frame)
           IN  /\ Linked(t, fr, O) /\ Len(t) = Len(s)
               /\ Goal(t, fr, O, Len(t)) = GoalOf(frame, fr[Len(s)])
<1> DEFINE u == Front(s)
           n == Len(s)
           f == fr[n]
           t == Append(u, frame)
<1>1. n \in Nat \ {0} /\ n - 1 \in Nat /\ (n - 1) + 1 = n /\ n \in 1..n /\ n - 1 \in 0..(n - 1)
      /\ u \in Seq(S) /\ Len(u) = n - 1
  BY FrontOf
<1>2. Linked(u, fr, O) /\ \A k \in 0..(n - 1) : Goal(u, fr, O, k) = Goal(s, fr, O, k)
  BY LinkedFront
<1>3. LinkOK(s, fr, O, n)
  BY <1>1 DEF Linked
<1>4. Reading(frame, f)
  OBVIOUS
<1> HIDE DEF u, n, f
<1>5. Follows(f, Goal(u, fr, O, n - 1))
  <2>1. Goal(u, fr, O, n - 1) = Goal(s, fr, O, n - 1)
    BY <1>1, <1>2
  <2> QED
    BY <1>3, <2>1, Zenon DEF LinkOK, f
<1>6. Len(t) = n /\ t[n] = frame /\ \A k \in 1..(n - 1) : t[k] = u[k]
  <2>1. Len(t) = Len(u) + 1 /\ t[Len(u) + 1] = frame /\ \A k \in 1..Len(u) : t[k] = u[k]
    <3>1. \A k \in 1..Len(u) : k \in DOMAIN u
      BY <1>1
    <3> QED
      BY <1>1, <3>1
  <2> QED
    BY <1>1, <2>1, Zenon
<1> HIDE DEF t
<1>7. Linked(t, fr, O) /\ Goal(t, fr, O, Len(t)) = GoalOf(frame, f)
  <2>1. OneMore(t, u, frame)
    BY <1>1, <1>6, Zenon DEF OneMore
  <2>2. SameTo(fr, fr, Len(u), f)
    BY <1>1, Zenon DEF SameTo, f
  <2>3. Follows(f, Goal(u, fr, O, Len(u)))
    BY <1>1, <1>5, Zenon
  <2>4. u \in Seq(S)
    BY <1>1
  <2>5. Linked(u, fr, O)
    BY <1>2
  <2> QED
    BY <1>4, <2>1, <2>2, <2>3, <2>4, <2>5, LinkedAppend
<1> QED
  BY <1>6, <1>7, Zenon DEF t, u, n, f

LEMMA LinkedPush ==
    ASSUME NEW S, NEW s \in Seq(S), NEW fr, NEW O, Linked(s, fr, O), NEW frame, NEW f,
           Reading(frame, f), Follows(f, Goal(s, fr, O, Len(s)))
    PROVE  \E fr2 : LET t == Append(s, frame)
                    IN  /\ Linked(t, fr2, O) /\ Len(t) = Len(s) + 1
                        /\ Goal(t, fr2, O, Len(t)) = GoalOf(frame, f)
<1> DEFINE n == Len(s)
           t == Append(s, frame)
           fr2 == [k \in 1..(n + 1) |-> IF k <= n THEN fr[k] ELSE f]
<1>1. n \in Nat
  BY LenProperties
<1>2. OneMore(t, s, frame)
  <2>1. \A k \in 1..Len(s) : k \in DOMAIN s
    OBVIOUS
  <2> QED
    BY <2>1 DEF OneMore
<1>3. SameTo(fr2, fr, n, f)
  BY <1>1 DEF SameTo
<1> HIDE DEF t, fr2
<1>4. Linked(t, fr2, O) /\ Goal(t, fr2, O, Len(t)) = GoalOf(frame, f)
  BY <1>2, <1>3, LinkedAppend
<1> QED
  BY <1>2, <1>4, Zenon DEF t, OneMore

LEMMA LinkedStays ==
    ASSUME NEW s, NEW fr, NEW O, buf' = buf
    PROVE  (Linked(s, fr, O) => Linked(s, fr, O)') /\ (Whole(O) => Whole(O)')
BY DEF Linked, LinkOK, Reading, LaidOut, IsAt, Whole

\* How far the unpacker has come with the value that is to be read.
Doing(g) ==
    /\ label = "header" => p = g.i
    /\ label = "trail" => Awaits(cs, trail, p, g)
    /\ label = "push" => obj = g.o /\ p + 1 = End(g)
    /\ label = "finish" => stack = <<>> /\ obj = g.o /\ p = Len(buf) + 1
    /\ label \notin {"continue", "parse_error"}

\* What is read is O, and the items of the containers in it are as fr says.
Reads(fr, O) == Whole(O) /\ Linked(stack, fr, O) /\ Doing(Goal(stack, fr, O, Len(stack)))

LEMMA AwaitsStays ==
    ASSUME NEW c, NEW n, NEW q, NEW g, buf' = buf, Awaits(c, n, q, g)
    PROVE  Awaits(c, n, q, g)'
BY DEF Awaits, Holds, BodyIsAt, IsAt

LEMMA Resumes ==
    ASSUME NEW fr, NEW O, Whole(O), buf' = buf, NEW s, stack' = s, Linked(s, fr, O),
           NEW g, g = Goal(s, fr, O, Len(s)), Doing(g)'
    PROVE  Reads(fr, O)'
<1>1. Linked(s, fr, O)' /\ Whole(O)'
  BY LinkedStays, Zenon
<1> QED
  BY <1>1 DEF Reads

LEMMA OutReads ==
    ASSUME NEW fr, NEW O, Reads(fr, O), Out("nomem")
    PROVE  Reads(fr, O)'
<1>1. label' = "nomem" /\ buf' = buf /\ stack' = stack
  BY DEF Out
<1>2. PICK s, g : s = stack /\ g = Goal(s, fr, O, Len(s))
  OBVIOUS
<1>3. Doing(g)'
  BY <1>1 DEF Doing
<1> QED
  BY <1>1, <1>2, <1>3, Resumes DEF Reads

LEMMA ValueReads ==
    ASSUME NEW fr, NEW O, Reads(fr, O), NEW g, g = Goal(stack, fr, O, Len(stack)),
           NEW o, NEW last, Value(o, last), o = g.o, last + 1 = End(g)
    PROVE  Reads(fr, O)'
<1>1. obj' = o /\ p' = last /\ label' = "push" /\ buf' = buf /\ stack' = stack
  BY DEF Value
<1>2. PICK s : s = stack
  OBVIOUS
<1>3. Doing(g)'
  BY <1>1 DEF Doing
<1> QED
  BY <1>1, <1>2, <1>3, Resumes DEF Reads

LEMMA ExpectReads ==
    ASSUME NEW fr, NEW O, Reads(fr, O), NEW g, g = Goal(stack, fr, O, Len(stack)),
           NEW c, NEW n, NEW next, Expect(c, n, next), Awaits(c, n, next, g)
    PROVE  Reads(fr, O)'
<1>1. cs' = c /\ trail' = n /\ p' = next /\ label' = "trail" /\ buf' = buf /\ stack' = stack
  BY DEF Expect
<1>2. PICK s : s = stack
  OBVIOUS
<1>3. Doing(g)'
  <2>1. Awaits(c, n, next, g)'
    BY <1>1, AwaitsStays
  <2> QED
    BY <1>1, <2>1 DEF Doing
<1> QED
  BY <1>1, <1>2, <1>3, Resumes DEF Reads

LEMMA EmptyIs ==
    ASSUME NEW o \in Proper, o.type \in {"array", "map"}, Len(o.v) = 0
    PROVE  o = Obj(o.type, <<>>) /\ Len(FlattenSeq(Chunks(o))) = 0
<1>1. o = Obj(o.type, o.v) /\ o.v = <<>>
  <2>1. o = Obj(o.type, o.v) /\ (o.v \in Seq(Proper) \/ o.v \in Seq(Proper \X Proper))
    BY ContentsAre
  <2>2. \A S : \A s \in Seq(S) : Len(s) = 0 => s = <<>>
    OBVIOUS
  <2> QED
    BY <2>1, <2>2
<1> HIDE DEF Byte
<1> DEFINE ss == Chunks(o)
<1>2. ss \in Seq(Seq(Byte)) /\ Len(ss) = 0
  BY ChunksAre
<1> HIDE DEF ss
<1>3. PICK f \in [0..Len(ss) -> Seq(Byte)] : f[0] = <<>> /\ FlattenSeq(ss) = f[Len(ss)]
  BY <1>2, FlattenIs
<1>4. FlattenSeq(ss) = <<>>
  BY <1>2, <1>3
<1> QED
  BY <1>1, <1>4 DEF ss

LEMMA StartReads ==
    ASSUME UnpackOK, NEW fr, NEW O, Reads(fr, O), NEW g, g = Goal(stack, fr, O, Len(stack)), GoalOK(g),
           NEW type \in {"array", "map"}, g.o.type = type, NEW n, n = Len(g.o.v), NEW last,
           last \in Nat, BodyIsAt(FlattenSeq(Chunks(g.o)), last + 1, End(g)), Start(type, n, last)
    PROVE  \E fr2 : Reads(fr2, O)'
<1>1. CASE Out("nomem")
  BY <1>1, OutReads
<1>2. g.o \in Proper
  BY DEF GoalOK
<1>3. CASE n = 0 /\ Value(Obj(type, <<>>), last)
  <2>1. g.o = Obj(type, <<>>) /\ Len(FlattenSeq(Chunks(g.o))) = 0
    BY <1>2, <1>3, EmptyIs
  <2>2. End(g) = last + 1
    BY <2>1 DEF BodyIsAt
  <2> QED
    BY <1>3, <2>1, <2>2, ValueReads, Zenon
<1>4. CASE /\ n # 0
           /\ stack' = Append(stack, [obj |-> Obj(type, <<>>), count |-> n, ct |-> type, key |-> Nil])
           /\ p' = last + 1 /\ label' = "header" /\ buf' = buf
  <2>1. PICK frame : frame = [obj |-> Obj(type, <<>>), count |-> n, ct |-> type, key |-> Nil]
    OBVIOUS
  <2>2. PICK s : s = stack
    OBVIOUS
  <2>3. buf \in Seq(Byte) /\ s \in Seq(Frames(StackSize))
    BY <2>2 DEF UnpackOK, StackOK
  <2>4. PICK f : /\ Reading(frame, f) /\ f.x = g.o
                 /\ f.pos[Len(f.x.v) + 1] = End(g) /\ GoalOf(frame, f).i = last + 1
    <3>1. g.o.type \in {"array", "map"} /\ Len(g.o.v) # 0
      BY <1>4
    <3>2. NewFrame(frame, g.o)
      BY <2>1, Zenon DEF NewFrame
    <3>3. Starts(frame, g, last + 1)
      BY <2>3, <3>1, <3>2, StartReading
    <3> QED
      BY <3>3, Zenon DEF Starts
  <2>5. Linked(s, fr, O) /\ Whole(O) /\ Follows(f, Goal(s, fr, O, Len(s)))
    BY <2>2, <2>4, Zenon DEF Reads, Follows
  <2> DEFINE t == Append(s, frame)
  <2>6. PICK fr2 : Linked(t, fr2, O) /\ Len(t) = Len(s) + 1 /\ Goal(t, fr2, O, Len(t)) = GoalOf(frame, f)
    BY <2>3, <2>4, <2>5, LinkedPush
  <2>7. PICK h : h = GoalOf(frame, f)
    OBVIOUS
  <2>8. Doing(h)'
    BY <1>4, <2>4, <2>7 DEF Doing
  <2>9. stack' = t
    BY <1>4, <2>1, <2>2
  <2> HIDE DEF t
  <2>10. Reads(fr2, O)'
    BY <1>4, <2>5, <2>6, <2>7, <2>8, <2>9, Resumes
  <2> QED
    BY <2>10
<1> QED
  BY <1>1, <1>3, <1>4 DEF Start

LEMMA HeaderActs ==
    ASSUME Header, ~(p > Len(buf))
    PROVE  LET b == buf[p]
           IN  /\ b \in 0..127 => Value(Num(b), p)
               /\ b \in 128..143 => Start("map", b - 128, p)
               /\ b \in 144..159 => Start("array", b - 144, p)
               /\ b \in 160..191 => Expect("str", b - 160, p + 1)
               /\ b = 192 => Value(Nil, p)
               /\ b \in {202, 204, 205, 206, 217, 218, 219, 220, 221, 222, 223} =>
                     Expect(Trails[b].cs, Trails[b].n, p + 1)
<1> DEFINE b == buf[p]
           T == DOMAIN Trails
           U == {202, 204, 205, 206, 217, 218, 219, 220, 221, 222, 223}
           A == Value(Num(b), p)
           B == Start("map", b - 128, p)
           C == Start("array", b - 144, p)
           D == Expect("str", b - 160, p + 1)
           E == Value(Nil, p)
           F == Expect(Trails[b].cs, Trails[b].n, p + 1)
           G == Out("parse_error")
           H == Value(Num(b - 256), p)
<1>1. \/ b \in 0..127 /\ A
      \/ b \in 128..143 /\ B
      \/ b \in 144..159 /\ C
      \/ b \in 160..191 /\ D
      \/ b = 192 /\ E
      \/ b \in T /\ F
      \/ b = 193 /\ G
      \/ b \in 224..255 /\ H
  BY Zenon DEF Header
<1>2. T = {202} \cup (204..206) \cup (208..210) \cup (217..223)
  BY SMT DEF Trails
<1> HIDE DEF b, T, A, B, C, D, E, F, G, H
<1>3. ASSUME b \in 0..127 PROVE A
  <2>1. ~(b \in 128..143) /\ ~(b \in 144..159) /\ ~(b \in 160..191) /\ ~(b = 192)
        /\ ~(b \in T) /\ ~(b = 193) /\ ~(b \in 224..255)
    BY <1>2, <1>3, SMT
  <2> QED
    BY <1>1, <2>1, Zenon
<1>4. ASSUME b \in 128..143 PROVE B
  <2>1. ~(b \in 0..127) /\ ~(b \in 144..159) /\ ~(b \in 160..191) /\ ~(b = 192)
        /\ ~(b \in T) /\ ~(b = 193) /\ ~(b \in 224..255)
    BY <1>2, <1>4, SMT
  <2> QED
    BY <1>1, <2>1, Zenon
<1>5. ASSUME b \in 144..159 PROVE C
  <2>1. ~(b \in 0..127) /\ ~(b \in 128..143) /\ ~(b \in 160..191) /\ ~(b = 192)
        /\ ~(b \in T) /\ ~(b = 193) /\ ~(b \in 224..255)
    BY <1>2, <1>5, SMT
  <2> QED
    BY <1>1, <2>1, Zenon
<1>6. ASSUME b \in 160..191 PROVE D
  <2>1. ~(b \in 0..127) /\ ~(b \in 128..143) /\ ~(b \in 144..159) /\ ~(b = 192)
        /\ ~(b \in T) /\ ~(b = 193) /\ ~(b \in 224..255)
    BY <1>2, <1>6, SMT
  <2> QED
    BY <1>1, <2>1, Zenon
<1>7. ASSUME b = 192 PROVE E
  <2>1. ~(b \in 0..127) /\ ~(b \in 128..143) /\ ~(b \in 144..159) /\ ~(b \in 160..191)
        /\ ~(b \in T) /\ ~(b = 193) /\ ~(b \in 224..255)
    BY <1>2, <1>7, SMT
  <2> QED
    BY <1>1, <2>1, Zenon
<1>8. ASSUME b \in U PROVE F
  <2>1. ~(b \in 0..127) /\ ~(b \in 128..143) /\ ~(b \in 144..159) /\ ~(b \in 160..191)
        /\ ~(b = 192) /\ ~(b = 193) /\ ~(b \in 224..255)
    BY <1>2, <1>8, SMT
  <2> QED
    BY <1>1, <2>1, Zenon
<1> QED
  BY <1>3, <1>4, <1>5, <1>6, <1>7, <1>8, Zenon DEF b, A, B, C, D, E, F

LEMMA TrailActs ==
    ASSUME Trail, NEW last, last = p + trail - 1, ~(last > Len(buf)),
           NEW s, s = SubSeq(buf, p, p + trail - 1)
    PROVE  /\ cs = "float" => Value(Obj("float", s), last)
           /\ cs = "uint" => Value(Num(Load(s)), last)
           /\ cs = "str_n" => Expect("str", Load(s), last + 1)
           /\ cs = "str" => Value(Obj("str", s), last) \/ Out("nomem")
           /\ cs \in {"array", "map"} => Start(cs, Load(s), last)
<1> DEFINE A == Value(Obj("float", s), last)
           B == Value(Num(Load(s)), last)
           C == Value(Num(LoadSigned(s)), last)
           D == Expect("str", Load(s), last + 1)
           E == Value(Obj("str", s), last) \/ Out("nomem")
           F == Start(cs, Load(s), last)
<1>1. \/ cs = "float" /\ A
      \/ cs = "uint" /\ B
      \/ cs = "int" /\ C
      \/ cs = "str_n" /\ D
      \/ cs = "str" /\ E
      \/ cs \in {"array", "map"} /\ F
  BY Zenon DEF Trail
<1> HIDE DEF A, B, C, D, E, F
<1>2. /\ cs = "float" => A
      /\ cs = "uint" => B
      /\ cs = "str_n" => D
      /\ cs = "str" => E
      /\ cs \in {"array", "map"} => F
  BY <1>1, SMT
<1> QED
  BY <1>2, Zenon DEF A, B, C, D, E, F

LEMMA LeafIs ==
    ASSUME NEW o \in AllObjects, o.type \in {"str", "float"}
    PROVE  o = Obj(o.type, o.v)
<1>1. PICK n \in Nat : o \in Objects[n]
  BY DEF AllObjects
<1>2. o \in Leaf
  <2>1. CASE n = 0
    BY <1>1, <2>1, ObjectsIs
  <2>2. CASE n # 0
    <3>1. n - 1 \in Nat /\ (n - 1) + 1 = n
      BY <2>2
    <3>2. Objects[n] = Leaf \cup Container(Objects[n - 1])
      BY <3>1, ObjectsIs
    <3>3. o \notin Container(Objects[n - 1])
      BY DEF Container
    <3> QED
      BY <1>1, <3>2, <3>3
  <2> QED
    BY <2>1, <2>2
<1> HIDE DEF Byte
<1>3. o \in [type : {"str", "float"}, v : Seq(Byte)]
  BY <1>2 DEF Leaf, Nil
<1> QED
  BY <1>3 DEF Obj

LEMMA HeaderReads ==
    ASSUME UnpackOK, NEW fr, NEW O, Reads(fr, O), Header
    PROVE  \E fr2 : Reads(fr2, O)'
<1>1. PICK g : g = Goal(stack, fr, O, Len(stack))
  OBVIOUS
<1>2. buf \in Seq(Byte) /\ stack \in Seq(Frames(StackSize)) /\ p \in Nat
  <2>1. buf \in Seq(Byte) /\ stack \in Seq(Frames(StackSize)) /\ p \in 1..(Len(buf) + 1)
    BY DEF UnpackOK, StackOK
  <2> QED
    BY <2>1
<1>3. GoalOK(g)
  <2>1. Len(stack) \in 0..Len(stack)
    BY <1>2, LenProperties
  <2> QED
    BY <1>1, <1>2, <2>1, GoalsOK DEF Reads
<1>4. Begins(g)
  BY <1>2, <1>3, ValueBegins
<1>5. p = g.i /\ label = "header"
  BY <1>1 DEF Reads, Doing, Header
<1> DEFINE b == buf[p]
<1>6. p <= Len(buf) /\ FirstByte(g, b)
  BY <1>4, <1>5, Zenon DEF Begins
<1>7. ~(p > Len(buf))
  <2>1. Len(buf) \in Nat
    BY <1>2, LenProperties
  <2> QED
    BY <1>2, <1>6, <2>1
<1>8. \A type \in {"array", "map"} : \A n :
         (g.o.type = type /\ n = Len(g.o.v) /\ BodyIsAt(FlattenSeq(Chunks(g.o)), p + 1, End(g))
          /\ Start(type, n, p)) => \E fr2 : Reads(fr2, O)'
  BY <1>1, <1>2, <1>3, StartReads
<1>9. \A c, n : Awaits(c, n, p + 1, g) /\ Expect(c, n, p + 1) => Reads(fr, O)'
  BY <1>1, ExpectReads, Zenon
<1>10. \A o : o = g.o /\ End(g) = p + 1 /\ Value(o, p) => Reads(fr, O)'
  BY <1>1, ValueReads, Zenon
<1>11. CASE b \in 0..127 /\ g.o = Num(b) /\ End(g) = g.i + 1
  <2>1. Value(Num(b), p)
    BY <1>7, <1>11, HeaderActs, Zenon
  <2> QED
    BY <1>5, <1>10, <1>11, <2>1, Zenon
<1>12. CASE b \in 128..143 /\ g.o.type = "map" /\ Len(g.o.v) = b - 128
            /\ BodyIsAt(FlattenSeq(Chunks(g.o)), g.i + 1, End(g))
  <2>1. Start("map", b - 128, p)
    BY <1>7, <1>12, HeaderActs, Zenon
  <2>2. "map" \in {"array", "map"}
    OBVIOUS
  <2> QED
    BY <1>5, <1>8, <1>12, <2>1, <2>2, Zenon
<1>13. CASE b \in 144..159 /\ g.o.type = "array" /\ Len(g.o.v) = b - 144
            /\ BodyIsAt(FlattenSeq(Chunks(g.o)), g.i + 1, End(g))
  <2>1. Start("array", b - 144, p)
    BY <1>7, <1>13, HeaderActs, Zenon
  <2>2. "array" \in {"array", "map"}
    OBVIOUS
  <2> QED
    BY <1>5, <1>8, <1>13, <2>1, <2>2, Zenon
<1>14. CASE b \in 160..191 /\ Awaits("str", b - 160, g.i + 1, g)
  <2>1. Expect("str", b - 160, p + 1)
    BY <1>7, <1>14, HeaderActs, Zenon
  <2> QED
    BY <1>5, <1>9, <1>14, <2>1, Zenon
<1>15. CASE b = 192 /\ g.o = Nil /\ End(g) = g.i + 1
  <2>1. Value(Nil, p)
    BY <1>7, <1>15, HeaderActs, Zenon
  <2>2. Nil = g.o /\ End(g) = p + 1
    BY <1>5, <1>15
  <2> QED
    BY <1>10, <2>1, <2>2, Zenon
<1>16. CASE b \in DOMAIN Trails /\ Awaits(Trails[b].cs, Trails[b].n, g.i + 1, g)
  <2>1. b \in {202, 204, 205, 206, 217, 218, 219, 220, 221, 222, 223}
    <3>1. b \in DOMAIN Trails /\ Trails[b].cs # "int"
      BY <1>16 DEF Awaits
    <3> QED
      BY <3>1, SMT DEF Trails
  <2>2. Expect(Trails[b].cs, Trails[b].n, p + 1)
    BY <1>7, <2>1, HeaderActs, Zenon
  <2> QED
    BY <1>5, <1>9, <1>16, <2>2, Zenon
<1> QED
  BY <1>6, <1>11, <1>12, <1>13, <1>14, <1>15, <1>16, Zenon DEF FirstByte

LEMMA TrailFits ==
    ASSUME buf \in Seq(Byte), p \in Nat, trail \in Nat, NEW g, GoalOK(g), Awaits(cs, trail, p, g)
    PROVE  LET last == p + trail - 1
           IN  ~(last > Len(buf)) /\ last \in Nat /\ last + 1 = p + trail
<1>1. Len(buf) \in Nat
  BY LenProperties
<1>2. p > 0 /\ p + trail <= Len(buf) + 1
  <2>1. CASE cs = "float" /\ g.o.type = "float" /\ trail = 4 /\ BodyIsAt(g.o.v, p, End(g))
    <3>1. Sendable(g.o)
      BY ProperIs DEF SendableAll, GoalOK
    <3> HIDE DEF Byte
    <3>2. Len(g.o.v) = 4
      BY <2>1, <3>1 DEF Sendable, Nil
    <3> QED
      BY <2>1, <3>2 DEF BodyIsAt, IsAt
  <2>2. CASE cs = "str" /\ trail = Len(g.o.v) /\ BodyIsAt(g.o.v, p, End(g))
    BY <2>2 DEF BodyIsAt, IsAt
  <2>3. (\E v : Holds(p, trail, v)) => p > 0 /\ p + trail <= Len(buf) + 1
    BY DEF Holds
  <2> QED
    BY <2>1, <2>2, <2>3, Zenon DEF Awaits
<1> QED
  BY <1>1, <1>2

LEMMA TrailReads ==
    ASSUME UnpackOK, NEW fr, NEW O, Reads(fr, O), Trail
    PROVE  \E fr2 : Reads(fr2, O)'
<1>1. PICK g : g = Goal(stack, fr, O, Len(stack))
  OBVIOUS
<1>2. buf \in Seq(Byte) /\ stack \in Seq(Frames(StackSize)) /\ p \in Nat /\ trail \in Nat
  <2>1. buf \in Seq(Byte) /\ stack \in Seq(Frames(StackSize)) /\ p \in 1..(Len(buf) + 1) /\ trail \in Nat
    BY DEF UnpackOK, StackOK
  <2> QED
    BY <2>1
<1>3. GoalOK(g)
  <2>1. Len(stack) \in 0..Len(stack)
    BY <1>2, LenProperties
  <2> QED
    BY <1>1, <1>2, <2>1, GoalsOK DEF Reads
<1>4. Awaits(cs, trail, p, g)
  BY <1>1 DEF Reads, Doing, Trail
<1>5. PICK last, s : last = p + trail - 1 /\ s = SubSeq(buf, p, p + trail - 1)
  OBVIOUS
<1>6. ~(last > Len(buf)) /\ last \in Nat /\ last + 1 = p + trail
  BY <1>2, <1>3, <1>4, <1>5, TrailFits
<1>7. \A type \in {"array", "map"} : \A n :
         (g.o.type = type /\ n = Len(g.o.v) /\ BodyIsAt(FlattenSeq(Chunks(g.o)), last + 1, End(g))
          /\ Start(type, n, last)) => \E fr2 : Reads(fr2, O)'
  BY <1>1, <1>3, <1>6, StartReads
<1>8. \A c, n, q : Awaits(c, n, q, g) /\ Expect(c, n, q) => Reads(fr, O)'
  BY <1>1, ExpectReads, Zenon
<1>9. \A o : o = g.o /\ End(g) = last + 1 /\ Value(o, last) => Reads(fr, O)'
  BY <1>1, ValueReads, Zenon
<1>10. g.o \in Proper /\ g.o \in AllObjects
  BY <1>3, ProperIs DEF GoalOK
<1> DEFINE v == g.o.v
<1>11. \A w : w \in Seq(Byte) /\ IsAt(w, p, buf) /\ Len(w) = trail => s = w
  <2> SUFFICES ASSUME NEW w \in Seq(Byte), IsAt(w, p, buf), Len(w) = trail PROVE s = w
    BY Zenon
  <2> HIDE DEF Byte
  <2>1. SubSeq(buf, p, p + Len(w) - 1) = w
    BY <1>2, SubSeqAt
  <2> QED
    BY <1>5, <2>1
<1>12. CASE cs = "float" /\ g.o.type = "float" /\ trail = 4 /\ BodyIsAt(v, p, End(g))
  <2>1. v \in Seq(Byte) /\ Len(v) = 4
    <3>1. Sendable(g.o)
      BY <1>10, ProperIs DEF SendableAll
    <3> HIDE DEF Byte
    <3> QED
      BY <1>12, <3>1 DEF Sendable, Nil
  <2>2. s = v
    BY <1>11, <1>12, <2>1 DEF BodyIsAt
  <2>3. g.o = Obj("float", s)
    BY <1>10, <1>12, <2>2, LeafIs
  <2>4. End(g) = last + 1
    BY <1>6, <1>12, <2>1 DEF BodyIsAt
  <2>5. Value(Obj("float", s), last)
    BY <1>5, <1>6, <1>12, TrailActs, Zenon
  <2> QED
    BY <1>9, <2>3, <2>4, <2>5, Zenon
<1>13. CASE cs = "uint" /\ g.o.type = "positive" /\ Holds(p, trail, v) /\ End(g) = p + trail
  <2>1. Load(s) = v
    BY <1>5, <1>13, Zenon DEF Holds
  <2>2. g.o = Num(Load(s))
    BY <1>10, <1>13, <2>1, NumIs
  <2>3. Value(Num(Load(s)), last)
    BY <1>5, <1>6, <1>13, TrailActs, Zenon
  <2>4. End(g) = last + 1
    BY <1>6, <1>13, Zenon
  <2> QED
    BY <1>9, <2>2, <2>3, <2>4, Zenon
<1>14. CASE cs = "str_n" /\ g.o.type = "str" /\ Holds(p, trail, Len(v)) /\ BodyIsAt(v, p + trail, End(g))
  <2>1. Load(s) = Len(v)
    BY <1>5, <1>14, Zenon DEF Holds
  <2>2. Expect("str", Load(s), last + 1)
    BY <1>5, <1>6, <1>14, TrailActs, Zenon
  <2>3. Awaits("str", Load(s), last + 1, g)
    BY <1>6, <1>14, <2>1, Zenon DEF Awaits
  <2> QED
    BY <1>8, <2>2, <2>3, Zenon
<1>15. CASE cs = "str" /\ g.o.type = "str" /\ trail = Len(v) /\ BodyIsAt(v, p, End(g))
  <2>1. v \in Seq(Byte)
    <3>1. Sendable(g.o)
      BY <1>10, ProperIs DEF SendableAll
    <3> HIDE DEF Byte
    <3> QED
      BY <1>15, <3>1 DEF Sendable, Nil, Str
  <2>2. s = v
    BY <1>11, <1>15, <2>1 DEF BodyIsAt
  <2>3. g.o = Obj("str", s)
    BY <1>10, <1>15, <2>2, LeafIs
  <2>4. End(g) = last + 1
    BY <1>6, <1>15, Zenon DEF BodyIsAt
  <2>5. Value(Obj("str", s), last) \/ Out("nomem")
    BY <1>5, <1>6, <1>15, TrailActs, Zenon
  <2>6. CASE Value(Obj("str", s), last)
    BY <1>9, <2>3, <2>4, <2>6, Zenon
  <2>7. CASE Out("nomem")
    BY <2>7, OutReads
  <2> QED
    BY <2>5, <2>6, <2>7
<1>16. CASE /\ cs \in {"array", "map"} /\ g.o.type = cs /\ Holds(p, trail, Len(v))
            /\ BodyIsAt(FlattenSeq(Chunks(g.o)), p + trail, End(g))
  <2>1. Load(s) = Len(v)
    BY <1>5, <1>16, Zenon DEF Holds
  <2>2. Start(cs, Load(s), last)
    BY <1>5, <1>6, <1>16, TrailActs, Zenon
  <2>3. BodyIsAt(FlattenSeq(Chunks(g.o)), last + 1, End(g))
    BY <1>6, <1>16, Zenon
  <2> QED
    BY <1>7, <1>16, <2>1, <2>2, <2>3, Zenon
<1> QED
  BY <1>4, <1>12, <1>13, <1>14, <1>15, <1>16, Zenon DEF Awaits

LEMMA PushReads ==
    ASSUME UnpackOK, NEW fr, NEW O, Reads(fr, O), Push
    PROVE  \E fr2 : Reads(fr2, O)'
<1>1. PICK s : s = stack
  OBVIOUS
<1>2. PICK n : n = Len(s)
  OBVIOUS
<1>3. PICK g : g = Goal(s, fr, O, n)
  OBVIOUS
<1>4. buf \in Seq(Byte) /\ s \in Seq(Frames(StackSize)) /\ p \in Nat
  <2>1. buf \in Seq(Byte) /\ stack \in Seq(Frames(StackSize)) /\ p \in 1..(Len(buf) + 1)
    BY DEF UnpackOK, StackOK
  <2> QED
    BY <1>1, <2>1
<1>5. Whole(O) /\ Linked(s, fr, O) /\ obj = g.o /\ p + 1 = End(g)
  BY <1>1, <1>2, <1>3 DEF Reads, Doing, Push
<1>6. CASE s = <<>>
  <2>1. p' = p + 1 /\ label' = "finish" /\ buf' = buf /\ stack' = s /\ obj' = obj
    BY <1>1, <1>6 DEF Push
  <2>2. n = 0
    BY <1>2, <1>6
  <2>3. g = [o |-> O, i |-> 1]
    BY <1>3, <2>2, Zenon DEF Goal
  <2>4. g.o = O /\ g.i = 1
    BY <2>3
  <2>5. End(g) = Len(buf) + 1
    <3>1. Len(buf) \in Nat
      BY <1>4, LenProperties
    <3>2. End(g) = 1 + Len(buf)
      BY <1>5, <2>4 DEF End, Whole
    <3> QED
      BY <3>1, <3>2
  <2>6. Doing(g)'
    BY <1>5, <1>6, <2>1, <2>5 DEF Doing
  <2>7. g = Goal(s, fr, O, Len(s))
    BY <1>2, <1>3
  <2> QED
    BY <1>5, <2>1, <2>6, <2>7, Resumes
<1>7. CASE s # <<>>
  <2>1. n \in Nat \ {0} /\ n \in 1..n /\ Top = s[n]
    <3>1. n \in Nat \ {0}
      BY <1>2, <1>4, <1>7, FrontOf
    <3>2. Last(s) = s[n]
      BY <1>2, <1>4, <1>7, FrontOf
    <3> QED
      BY <1>1, <3>1, <3>2 DEF Top
  <2>2. PICK frame, f : frame = s[n] /\ f = fr[n]
    OBVIOUS
  <2>3. Reading(frame, f) /\ Follows(f, Goal(s, fr, O, n - 1))
    BY <1>2, <1>5, <2>1, <2>2 DEF Linked, LinkOK
  <2>4. g = GoalOf(frame, f)
    BY <1>3, <2>1, <2>2 DEF Goal
  <2>5. \A new : Reading(new, f) /\ GoalOf(new, f).i = End(g)
                 /\ stack' = Append(Front(s), new) /\ p' = p + 1 /\ label' = "header" /\ buf' = buf
                 => Reads(fr, O)'
    <3> SUFFICES ASSUME NEW new, Reading(new, f), GoalOf(new, f).i = End(g),
                        stack' = Append(Front(s), new), p' = p + 1, label' = "header", buf' = buf
                 PROVE  Reads(fr, O)'
      BY Zenon
    <3>1. PICK t : t = Append(Front(s), new)
      OBVIOUS
    <3>2. Reading(new, fr[Len(s)])
      BY <1>2, <2>2
    <3>3. Linked(t, fr, O) /\ Goal(t, fr, O, Len(t)) = GoalOf(new, f)
      BY <1>2, <1>4, <1>5, <1>7, <2>2, <3>1, <3>2, LinkedTop
    <3>4. PICK h : h = GoalOf(new, f)
      OBVIOUS
    <3>5. Doing(h)'
      BY <1>5, <3>4 DEF Doing
    <3> QED
      BY <1>5, <3>1, <3>3, <3>4, <3>5, Resumes
  <2>6. CASE frame.ct = "map"
    <3>1. PICK new : new = [frame EXCEPT !.ct = "value", !.key = g.o]
      OBVIOUS
    <3>2. stack' = Append(Front(s), new) /\ p' = p + 1 /\ label' = "header" /\ buf' = buf
      BY <1>1, <1>5, <1>7, <2>1, <2>2, <2>6, <3>1 DEF Push, GoOnWith, HeaderAgain
    <3>3. Reading(new, f) /\ GoalOf(new, f).i = End(g)
      BY <1>4, <2>3, <2>4, <2>6, <3>1, KeyRead
    <3> QED
      BY <2>5, <3>2, <3>3
  <2>7. WithItem = ItemOf(frame, g.o)
    BY <1>5, <2>1, <2>2 DEF WithItem, ItemOf
  <2>8. CASE frame.ct # "map" /\ frame.count = 1
    <3>1. obj' = WithItem /\ stack' = Front(s) /\ buf' = buf /\ p' = p /\ label' = "push"
      BY <1>1, <1>7, <2>1, <2>2, <2>8 DEF Push
    <3>2. PICK t : t = Front(s)
      OBVIOUS
    <3>3. Linked(t, fr, O) /\ Len(t) = n - 1 /\ Goal(t, fr, O, n - 1) = Goal(s, fr, O, n - 1)
      <4>1. n - 1 \in 0..(n - 1)
        BY <2>1
      <4> QED
        BY <1>2, <1>4, <1>5, <1>7, <3>2, <4>1, LinkedFront, FrontOf
    <3>4. ItemOf(frame, GoalOf(frame, f).o) = f.x /\ End(GoalOf(frame, f)) = f.pos[Len(f.x.v) + 1]
      BY <1>4, <2>3, <2>8, LastItemRead
    <3>5. PICK h : h = Goal(s, fr, O, n - 1)
      OBVIOUS
    <3>6. obj' = h.o /\ p' + 1 = End(h)
      BY <1>5, <2>3, <2>4, <2>7, <3>1, <3>4, <3>5 DEF Follows
    <3>7. Doing(h)'
      BY <3>1, <3>6 DEF Doing
    <3> QED
      BY <1>5, <3>1, <3>2, <3>3, <3>5, <3>7, Resumes
  <2>9. CASE frame.ct # "map" /\ frame.count # 1
    <3>1. PICK new : new = [frame EXCEPT !.obj = ItemOf(frame, g.o), !.count = frame.count - 1,
                                         !.ct = frame.obj.type]
      OBVIOUS
    <3>2. stack' = Append(Front(s), new) /\ p' = p + 1 /\ label' = "header" /\ buf' = buf
      BY <1>1, <1>7, <2>1, <2>2, <2>7, <2>9, <3>1 DEF Push, GoOnWith, HeaderAgain
    <3>3. Reading(new, f) /\ GoalOf(new, f).i = End(g)
      BY <1>4, <2>3, <2>4, <2>9, <3>1, ItemRead
    <3> QED
      BY <2>5, <3>2, <3>3
  <2> QED
    BY <2>6, <2>8, <2>9
<1> QED
  BY <1>6, <1>7

LEMMA ExecuteReads ==
    ASSUME UnpackOK, NEW fr, NEW O, Reads(fr, O), Execute
    PROVE  \E fr2 : Reads(fr2, O)'
BY HeaderReads, TrailReads, PushReads DEF Execute

\* A map of keys is what the exe looks for under these keys.
LEMMA MapObjIs ==
    ASSUME NEW keys \in Seq(Byte), NEW vals
    PROVE  LET o == MapObj(keys, vals)
           IN  /\ o.type = "map" /\ Len(o.v) = Len(keys) /\ Len(keys) \in Nat /\ DOMAIN keys = 1..Len(keys)
               /\ \A i \in DOMAIN keys : o.v[i][1] = StrObj(<<keys[i]>>) /\ At(o, i) = vals[i]
<1> DEFINE s == [i \in DOMAIN keys |-> <<StrObj(<<keys[i]>>), vals[i]>>]
<1>1. Len(keys) \in Nat /\ DOMAIN keys = 1..Len(keys)
  BY LenProperties
<1>2. Len(s) = Len(keys)
  BY <1>1
<1>3. \A i \in DOMAIN keys : s[i][1] = StrObj(<<keys[i]>>) /\ s[i][2] = vals[i]
  OBVIOUS
<1>4. MapObj(keys, vals).type = "map" /\ MapObj(keys, vals).v = s
  BY DEF MapObj, Obj
<1> HIDE DEF s
<1> QED
  BY <1>1, <1>2, <1>3, <1>4 DEF At

LEMMA MapObjChecked ==
    ASSUME NEW keys \in Seq(Byte), NEW vals, NEW schema, DOMAIN schema = DOMAIN keys, Len(schema) = Len(keys),
           \A i \in DOMAIN keys : schema[i] = {} \/ vals[i].type \in schema[i]
    PROVE  CheckKvSchema(MapObj(keys, vals), keys, schema)
<1> DEFINE o == MapObj(keys, vals)
<1>1. /\ o.type = "map" /\ Len(o.v) = Len(keys)
      /\ \A i \in DOMAIN keys : o.v[i][1] = StrObj(<<keys[i]>>) /\ o.v[i][2] = vals[i]
  BY MapObjIs DEF At
<1>2. \A k : StrObj(<<k>>).type = "str" /\ StrObj(<<k>>).v = <<k>>
  BY DEF StrObj, Obj
<1>3. \A k : IsPrefix(<<k>>, <<k>>)
  BY DEF IsPrefix
<1> HIDE DEF o
<1> QED
  BY <1>1, <1>2, <1>3 DEF CheckKvSchema, o

LEMMA FieldChecked ==
    ASSUME NEW f \in Field, NEW td, td.type \in {"map", "nil"}
    PROVE  CheckKvSchema(FieldObj(f, td), TdKeys, TdSchema) /\ At(FieldObj(f, td), 10) = td
<1> DEFINE vals ==
              <<StrObj(f.name), Num(f.type), Num(f.flags),
                IF f.external = Null THEN Nil ELSE StrObj(f.external),
                Num(f.off), Num(f.n_elems), Num(f.size), OffsetObj(f.ops), OffsetObj(f.func), td,
                Num(f.override), Obj("float", f.tol)>>
<1>1. FieldObj(f, td) = MapObj(TdKeys, vals)
  BY DEF FieldObj
<1>2. /\ f.type \in Number /\ f.flags \in Number /\ f.off \in Number /\ f.n_elems \in Number
      /\ f.size \in Number /\ f.override \in Number
      /\ f.ops \in OrNull(Number) /\ f.func \in OrNull(Number)
  BY Zenon DEF Field
<1>3. \A k \in Number : Num(k).type = "positive"
  <2>1. \A k \in Number : ~(k < 0)
    BY SMT DEF Number
  <2> QED
    BY <2>1 DEF Num
<1>4. \A k \in OrNull(Number) : OffsetObj(k).type \in {"positive", "nil"}
  BY <1>3 DEF OffsetObj, OrNull, Nil
<1>5. TdKeys \in Seq(Byte) /\ Len(TdKeys) = 12 /\ DOMAIN TdKeys = 1..12
  BY KeysAre, LenProperties
<1>6. /\ vals[1].type = "str" /\ vals[2].type = "positive" /\ vals[3].type = "positive"
      /\ vals[4].type \in {"str", "nil"} /\ vals[5].type = "positive" /\ vals[6].type = "positive"
      /\ vals[7].type = "positive" /\ vals[8].type \in {"positive", "nil"}
      /\ vals[9].type \in {"positive", "nil"} /\ vals[10].type \in {"map", "nil"}
      /\ vals[11].type = "positive" /\ vals[12].type = "float"
  <2>1. StrObj(f.name).type = "str" /\ Obj("float", f.tol).type = "float"
    BY DEF StrObj, Obj
  <2>2. (IF f.external = Null THEN Nil ELSE StrObj(f.external)).type \in {"str", "nil"}
    BY DEF StrObj, Obj, Nil
  <2> QED
    BY <1>2, <1>3, <1>4, <2>1, <2>2
<1>7. vals[10] = td
  OBVIOUS
<1> HIDE DEF vals
<1>8. \A i \in 1..12 : vals[i].type \in TdSchema[i]
  <2> SUFFICES ASSUME NEW i \in 1..12 PROVE vals[i].type \in TdSchema[i]
    OBVIOUS
  <2>1. i \in {1, 4, 12} \/ i \in {2, 3, 5, 6, 7, 11} \/ i \in {8, 9, 10}
    OBVIOUS
  <2>2. CASE i \in {1, 4, 12}
    BY <1>6, <2>2, SchemasAre
  <2>3. CASE i \in {2, 3, 5, 6, 7, 11}
    BY <1>6, <2>3, SchemasAre
  <2>4. CASE i \in {8, 9, 10}
    BY <1>6, <2>4, SchemasAre
  <2> QED
    BY <2>1, <2>2, <2>3, <2>4
<1>9. CheckKvSchema(MapObj(TdKeys, vals), TdKeys, TdSchema)
  BY <1>5, <1>8, SchemasAre, MapObjChecked
<1>10. 10 \in DOMAIN TdKeys
  BY <1>5
<1>11. At(MapObj(TdKeys, vals), 10) = vals[10]
  BY <1>5, <1>10, MapObjIs
<1> QED
  BY <1>1, <1>7, <1>9, <1>11, Zenon

\* What a datamap is sent as has a datamap, or nothing, where the exe looks for one.
LEMMA DmObjType ==
    ASSUME NEW dm \in Datamap
    PROVE  DmObj[dm].type = "map"
<1>1. DmObj[dm] = DmBody(dm, DmObj)
  BY DmObjIs
<1>2. \A vals : MapObj(DmKeys, vals).type = "map"
  BY DEF MapObj, Obj
<1> QED
  BY <1>1, <1>2 DEF DmBody

RefersTo(dm, e) == e.type = "nil" \/ \E x \in Datamap : Rank[x] < Rank[dm] /\ e = DmObj[x]

LEMMA RefOfDm ==
    ASSUME NEW dm \in Datamap, NEW v, v # Null => v \in Datamap /\ Rank[v] < Rank[dm]
    PROVE  RefersTo(dm, OrNilObj(v, DmObj[v])) /\ OrNilObj(v, DmObj[v]).type \in {"map", "nil"}
<1>1. CASE v = Null
  BY <1>1 DEF RefersTo, OrNilObj, Nil
<1>2. CASE v # Null
  BY <1>2, DmObjType DEF RefersTo, OrNilObj
<1> QED
  BY <1>1, <1>2

LEMMA FieldsChecked ==
    ASSUME NEW dm \in Datamap, NEW i \in DOMAIN FieldObjs(dm, DmObj)
    PROVE  LET x == FieldObjs(dm, DmObj)[i]
           IN  CheckKvSchema(x, TdKeys, TdSchema) /\ RefersTo(dm, At(x, 10))
<1> DEFINE td(j) == OrNilObj(dm.fields[j].td, DmObj[dm.fields[j].td])
<1>1. dm.fields # <<EmptyDesc>>
  <2> SUFFICES ASSUME dm.fields = <<EmptyDesc>> PROVE FALSE
    OBVIOUS
  <2>1. FieldObjs(dm, DmObj) = <<>>
    BY Zenon DEF FieldObjs
  <2> QED
    BY <2>1
<1>2. FieldObjs(dm, DmObj) = [j \in DOMAIN dm.fields |-> FieldObj(dm.fields[j], td(j))]
  BY <1>1 DEF FieldObjs
<1>3. i \in DOMAIN dm.fields /\ FieldObjs(dm, DmObj)[i] = FieldObj(dm.fields[i], td(i))
  <2> HIDE DEF td
  <2> QED
    BY <1>2
<1>4. dm.fields[i] \in Field
  <2>1. dm.fields \in Seq(Field)
    BY <1>1, FieldsAre
  <2> QED
    BY <1>3, <2>1, LenProperties, ElementOfSeq
<1>5. dm.fields[i].td # Null => dm.fields[i].td \in Datamap /\ Rank[dm.fields[i].td] < Rank[dm]
  BY <1>1, <1>3, RefsAre
<1>6. RefersTo(dm, td(i)) /\ td(i).type \in {"map", "nil"}
  BY <1>5, RefOfDm
<1> HIDE DEF td
<1>7. CheckKvSchema(FieldObj(dm.fields[i], td(i)), TdKeys, TdSchema)
      /\ At(FieldObj(dm.fields[i], td(i)), 10) = td(i)
  BY <1>4, <1>6, FieldChecked
<1> QED
  BY <1>3, <1>6, <1>7, Zenon

LEMMA DmChecked ==
    ASSUME NEW dm \in Datamap
    PROVE  CheckDatamap(DmObj[dm]) /\ \A e \in Refs(DmObj[dm]) : RefersTo(dm, e)
<1> DEFINE vals == <<StrObj(dm.name), StrObj(dm.module), Num(dm.off), OrNilObj(dm.base, DmObj[dm.base]),
                     Obj("array", FieldObjs(dm, DmObj))>>
           o == DmObj[dm]
<1>1. o = MapObj(DmKeys, vals)
  BY DmObjIs DEF DmBody
<1>2. /\ RefersTo(dm, OrNilObj(dm.base, DmObj[dm.base]))
      /\ OrNilObj(dm.base, DmObj[dm.base]).type \in {"map", "nil"}
  <2>1. dm.base # Null => dm.base \in Datamap /\ Rank[dm.base] < Rank[dm]
    BY RefsAre
  <2> QED
    BY <2>1, RefOfDm
<1>3. Num(dm.off).type = "positive"
  <2>1. dm.off \in Number
    BY FieldsAre
  <2>2. ~(dm.off < 0)
    BY <2>1, SMT DEF Number
  <2> QED
    BY <2>2 DEF Num
<1>4. /\ vals[1].type = "str" /\ vals[2].type = "str" /\ vals[3].type = "positive"
      /\ vals[4].type \in {"map", "nil"} /\ vals[5].type = "array"
  BY <1>2, <1>3 DEF StrObj, Obj
<1>5. RefersTo(dm, vals[4]) /\ vals[5].v = FieldObjs(dm, DmObj)
  BY <1>2 DEF Obj
<1> HIDE DEF vals, o
<1>6. DmKeys \in Seq(Byte) /\ Len(DmKeys) = 5 /\ DOMAIN DmKeys = 1..5
  BY KeysAre, LenProperties
<1>7. \A i \in 1..5 : vals[i].type \in DmSchema[i]
  <2> SUFFICES ASSUME NEW i \in 1..5 PROVE vals[i].type \in DmSchema[i]
    OBVIOUS
  <2>1. i = 1 \/ i = 2 \/ i = 3 \/ i = 4 \/ i = 5
    OBVIOUS
  <2> QED
    BY <1>4, <2>1, SchemasAre
<1>8. CheckKvSchema(o, DmKeys, DmSchema)
  <2>1. CheckKvSchema(MapObj(DmKeys, vals), DmKeys, DmSchema)
    BY <1>6, <1>7, SchemasAre, MapObjChecked
  <2> QED
    BY <1>1, <2>1, Zenon
<1>9. At(o, 4) = vals[4] /\ At(o, 5) = vals[5]
  <2>1. 4 \in DOMAIN DmKeys /\ 5 \in DOMAIN DmKeys
    BY <1>6
  <2> QED
    BY <1>1, <1>6, <2>1, MapObjIs
<1>10. At(o, 5).v = FieldObjs(dm, DmObj)
  BY <1>5, <1>9, Zenon
<1>11. \A i \in DOMAIN At(o, 5).v : CheckKvSchema(At(o, 5).v[i], TdKeys, TdSchema)
  BY <1>10, FieldsChecked
<1>12. \A e \in Embedded(o) : RefersTo(dm, e)
  <2> SUFFICES ASSUME NEW i \in DOMAIN At(o, 5).v PROVE RefersTo(dm, At(At(o, 5).v[i], 10))
    BY DEF Embedded
  <2> QED
    BY <1>10, FieldsChecked
<1>13. RefersTo(dm, At(o, 4))
  BY <1>5, <1>9, Zenon
<1>14. CheckDatamap(o)
  BY <1>8, <1>11 DEF CheckDatamap
<1> QED
  BY <1>12, <1>13, <1>14 DEF Refs, o

\* A datamap that is not too deep is accepted, with all it refers to.
LEMMA DmAccepted ==
    ASSUME NEW dm \in Datamap, DmObj[dm] \in Objects[StackSize]
    PROVE  CheckDm(DmObj[dm])
<1> DEFINE o == DmObj[dm]
<1>1. PICK f : IsCheck(o, f) /\ CheckDm(o) = f[o]
  BY CheckIs
<1>2. o \in Inside(o)
  <2>1. o.type = "map"
    BY DmObjType
  <2> QED
    BY <2>1, InsideIsWhole DEF Containers
<1> DEFINE T == {x \in Datamap : DmObj[x] \in Inside(o) => f[DmObj[x]]}
<1>3. ASSUME NEW x \in Datamap, \A y \in Datamap : Rank[y] < Rank[x] => y \in T
      PROVE  x \in T
  <2> SUFFICES ASSUME DmObj[x] \in Inside(o) PROVE f[DmObj[x]]
    OBVIOUS
  <2> DEFINE d == DmObj[x]
  <2>1. CheckDatamap(d) /\ \A e \in Refs(d) : RefersTo(x, e)
    BY DmChecked
  <2>2. ASSUME NEW e \in Refs(d), e.type # "nil" PROVE f[e]
    <3>1. PICK y \in Datamap : Rank[y] < Rank[x] /\ e = DmObj[y]
      BY <2>1, <2>2 DEF RefersTo
    <3>2. e \in Inside(o)
      BY <2>1, <2>2, FieldsOf
    <3> QED
      BY <1>3, <3>1, <3>2
  <2>3. f[d] = (CheckDatamap(d) /\ \A e \in Refs(d) : e.type = "nil" \/ f[e])
    <3>1. f = [c \in Inside(o) |-> CheckDatamap(c) /\ \A e \in Refs(c) : e.type = "nil" \/ f[e]]
      BY <1>1 DEF IsCheck
    <3>2. d \in Inside(o)
      OBVIOUS
    <3> HIDE DEF o, d
    <3> QED
      BY <3>1, <3>2
  <2> HIDE DEF d
  <2> QED
    BY <2>1, <2>2, <2>3 DEF d
<1>4. Rank \in [Datamap -> Nat]
  BY DatamapAssumption, Zenon
<1>5. \A x \in Datamap : x \in T
  <2> HIDE DEF T
  <2> QED
    BY <1>3, <1>4, RankInduction
<1> QED
  BY <1>1, <1>2, <1>5

\* The two values of a message.
LEMMA MsgParts ==
    ASSUME NEW m
    PROVE  /\ MsgObj(m).type = "map" /\ Len(MsgObj(m).v) = 2
           /\ MsgObj(m).v[1][1] = StrObj(<<IpcKeys[1]>>) /\ MsgObj(m).v[2][1] = StrObj(<<IpcKeys[2]>>)
           /\ At(MsgObj(m), 1) = Num(TypeNum(m.type)) /\ At(MsgObj(m), 2) = AsSent(m).data
<1> DEFINE o == MsgObj(m)
           d == AsSent(m).data
           vals == <<Num(TypeNum(m.type)), d>>
<1>1. IpcKeys \in Seq(Byte) /\ Len(IpcKeys) = 2 /\ 1 \in DOMAIN IpcKeys /\ 2 \in DOMAIN IpcKeys
  BY KeysAre, LenProperties
<1>2. o = MapObj(IpcKeys, vals)
  BY DEF MsgObj
<1>3. vals[1] = Num(TypeNum(m.type)) /\ vals[2] = d
  OBVIOUS
<1> HIDE DEF vals, d, o
<1>4. /\ o.type = "map" /\ Len(o.v) = 2 /\ At(o, 1) = vals[1] /\ At(o, 2) = vals[2]
      /\ o.v[1][1] = StrObj(<<IpcKeys[1]>>) /\ o.v[2][1] = StrObj(<<IpcKeys[2]>>)
  BY <1>1, <1>2, MapObjIs
<1> QED
  BY <1>3, <1>4, Zenon DEF o, d

LEMMA DataDepth ==
    ASSUME NEW m, NEW n \in Nat, MsgObj(m) \in Objects[n]
    PROVE  n # 0 /\ n - 1 \in Nat /\ AsSent(m).data \in Objects[n - 1]
<1> DEFINE o == MsgObj(m)
<1>1. o.type = "map" /\ Len(o.v) = 2 /\ At(o, 2) = AsSent(m).data
  BY MsgParts
<1> HIDE DEF o
<1>2. n # 0 /\ n - 1 \in Nat /\ o \in Container(Objects[n - 1])
  BY <1>1, ContainersOf DEF o
<1>3. o \in [type : {"map"}, v : Seq(Objects[n - 1] \X Objects[n - 1])]
  BY <1>1, <1>2, ItemsOf
<1>4. Items(o) \subseteq Objects[n - 1]
  BY <1>2, ItemsOf
<1>5. 2 \in DOMAIN o.v
  BY <1>1, <1>3, LenProperties
<1>6. At(o, 2) \in Items(o)
  BY <1>1, <1>5, PairsOf
<1> QED
  BY <1>1, <1>2, <1>4, <1>6

\* What the payload sends is accepted, and taken for what it is.
LEMMA SentIsAccepted ==
    ASSUME NEW m \in Message, m.type # "raw", MsgObj(m) \in Objects[StackSize]
    PROVE  CheckMsg(MsgObj(m)) /\ MsgOf(MsgObj(m)) = AsSent(m)
<1> DEFINE o == MsgObj(m)
           d == AsSent(m).data
           vals == <<Num(TypeNum(m.type)), d>>
<1>1. m.type \in {"HELLO", "DATAMAP", "LINKED_NAME", "LOG_INFO", "LOG_ERROR", "GOODBYE"}
  BY TypesAre, Zenon
<1>2. TypeNum(m.type) \in 0..5 /\ MsgTypes[TypeNum(m.type) + 1] = m.type
  BY <1>1, TypeNums
<1>3. Num(TypeNum(m.type)).type = "positive" /\ Num(TypeNum(m.type)).v = TypeNum(m.type)
  BY <1>2 DEF Num
<1>4. IpcKeys \in Seq(Byte) /\ Len(IpcKeys) = 2 /\ DOMAIN IpcKeys = 1..2
  BY KeysAre, LenProperties
<1>5. o = MapObj(IpcKeys, vals)
  BY DEF MsgObj
<1>6. At(o, 1) = Num(TypeNum(m.type)) /\ At(o, 2) = d
  BY MsgParts
<1>7. CheckKvSchema(o, IpcKeys, MsgSchema)
  <2>1. /\ DOMAIN MsgSchema = 1..2 /\ Len(MsgSchema) = 2
        /\ MsgSchema[1] = {"positive"} /\ MsgSchema[2] = {}
    BY DEF MsgSchema
  <2>2. vals[1].type = "positive"
    BY <1>3
  <2> HIDE DEF vals, o
  <2>3. \A i \in DOMAIN IpcKeys : MsgSchema[i] = {} \/ vals[i].type \in MsgSchema[i]
    BY <1>4, <2>1, <2>2
  <2>4. CheckKvSchema(MapObj(IpcKeys, vals), IpcKeys, MsgSchema)
    BY <1>4, <2>1, <2>3, MapObjChecked
  <2> QED
    BY <1>5, <2>4, Zenon
<1> DEFINE t == MsgTypes[At(o, 1).v + 1]
<1>8. t = m.type /\ At(o, 1).v < Len(MsgTypes)
  <2>1. At(o, 1).v = TypeNum(m.type)
    BY <1>3, <1>6, Zenon
  <2>2. Len(MsgTypes) = 6
    BY DEF MsgTypes
  <2> QED
    BY <1>2, <2>1, <2>2
<1>9. MsgOf(o) = AsSent(m)
  <2>1. MsgOf(o) = [type |-> t, data |-> At(o, 2)]
    BY DEF MsgOf
  <2>2. AsSent(m) = [type |-> m.type, data |-> d]
    <3>1. PICK x : AsSent(m) = [type |-> m.type, data |-> x]
      BY Zenon DEF AsSent
    <3>2. AsSent(m).data = x
      BY <3>1
    <3> QED
      BY <3>1, <3>2, Zenon
  <2> HIDE DEF t, d, o
  <2> QED
    BY <1>6, <1>8, <2>1, <2>2, Zenon
<1>10. \/ m.type \in {"HELLO", "GOODBYE"} /\ d.type = "nil"
       \/ m.type \in {"LOG_INFO", "LOG_ERROR"} /\ d.type = "str"
       \/ m.type = "DATAMAP" /\ d.type = "map" /\ CheckDm(d)
       \/ /\ m.type = "LINKED_NAME" /\ d.type = "map" /\ d.v # <<>>
          /\ \A i \in DOMAIN d.v : d.v[i][1].type = "str" /\ d.v[i][2].type = "str"
  <2>1. CASE m.type \in {"HELLO", "GOODBYE"}
    BY <2>1 DEF AsSent, Nil
  <2>2. CASE m.type \in {"LOG_INFO", "LOG_ERROR"}
    BY <2>2 DEF AsSent, StrObj, Obj
  <2>3. CASE m.type = "DATAMAP"
    <3>1. m.data \in Datamap
      BY <2>3, TypesAre
    <3>2. d = DmObj[m.data]
      BY <2>3 DEF AsSent
    <3>3. d.type = "map"
      BY <3>1, <3>2, DmObjType
    <3>4. d \in Objects[StackSize]
      <4>1. StackSize \in Nat /\ StackSize - 1 <= StackSize
        BY StackAssumption
      <4>2. StackSize - 1 \in Nat /\ d \in Objects[StackSize - 1]
        BY <4>1, DataDepth
      <4>3. Objects[StackSize - 1] \subseteq Objects[StackSize]
        BY <4>1, <4>2, ObjectsGrow
      <4> QED
        BY <4>2, <4>3
    <3> QED
      BY <2>3, <3>1, <3>2, <3>3, <3>4, DmAccepted
  <2>4. CASE m.type = "LINKED_NAME"
    <3>1. m.data \in Seq(Str \X Str) /\ Len(m.data) \in Number /\ Len(m.data) # 0
      BY <2>4, TypesAre
    <3> DEFINE l == m.data
               x == Obj("map", [i \in DOMAIN l |-> <<StrObj(l[i][1]), StrObj(l[i][2])>>])
    <3>2. d = x
      BY <2>4 DEF AsSent
    <3>3. /\ x.type = "map" /\ DOMAIN x.v = DOMAIN l /\ Len(x.v) = Len(l)
          /\ \A i \in DOMAIN l : x.v[i][1].type = "str" /\ x.v[i][2].type = "str"
      BY <3>1, LinkedSent
    <3>4. x.v # <<>>
      <4> HIDE DEF x
      <4> QED
        BY <3>1, <3>3
    <3> HIDE DEF x, d
    <3> QED
      BY <2>4, <3>2, <3>3, <3>4
  <2> QED
    BY <1>1, <2>1, <2>2, <2>3, <2>4
<1> HIDE DEF d, vals
<1>11. CheckMsg(o)
  <2>1. At(o, 2) = d
    BY <1>6
  <2> HIDE DEF o
  <2> QED
    BY <1>7, <1>8, <1>10, <2>1 DEF CheckMsg
<1> QED
  BY <1>9, <1>11
-----------------------------------------------------------------------------
(* How deep a message is *)

LEMMA GoalIsItem ==
    ASSUME NEW frame, NEW f, Reading(frame, f)
    PROVE  GoalOf(frame, f).o \in Items(f.x)
<1> DEFINE j == NextItem(frame, f)
           x == f.x
<1>1. /\ x \in Proper /\ x.type \in {"array", "map"} /\ frame.count \in 1..Len(x.v)
      /\ x.type = "array" => frame.ct = "array"
      /\ x.type = "map" => frame.ct \in {"map", "value"}
  BY DEF Reading
<1>2. Len(x.v) \in Nat /\ DOMAIN x.v = 1..Len(x.v)
  BY <1>1, ContentsAre
<1>3. j \in DOMAIN x.v
  <2>1. j = Len(x.v) - frame.count + 1
    BY DEF NextItem
  <2> HIDE DEF j, x
  <2> QED
    BY <1>1, <1>2, <2>1
<1>4. GoalOf(frame, f).o = IF frame.ct = "array" THEN x.v[j] ELSE IF frame.ct = "map" THEN x.v[j][1]
                           ELSE x.v[j][2]
  BY DEF GoalOf
<1> HIDE DEF j, x
<1>5. CASE x.type = "array"
  BY <1>1, <1>3, <1>4, <1>5 DEF Items, x
<1>6. CASE x.type = "map"
  <2>1. x.v[j][1] \in Items(x) /\ x.v[j][2] \in Items(x)
    BY <1>3, <1>6, PairsOf DEF At
  <2>2. frame.ct # "array"
    BY <1>1, <1>6
  <2> QED
    BY <1>4, <2>1, <2>2 DEF x
<1> QED
  BY <1>1, <1>5, <1>6

\* All that is read when there are frames is in one item of the first, if it is in any.
OnlyIn(O, data) == \A e \in Items(O) : e.type \in {"array", "map"} => e = data

LEMMA GoalsAreDeep ==
    ASSUME NEW S, NEW s \in Seq(S), NEW fr, NEW O, Linked(s, fr, O),
           NEW d \in Nat, NEW data \in Objects[d], OnlyIn(O, data)
    PROVE  \A k \in Nat : k + 1 <= Len(s) /\ Goal(s, fr, O, k + 1).o.type \in {"array", "map"}
                          => Goal(s, fr, O, k + 1).o \in Level(data)[k]
<1> DEFINE it(k) == Goal(s, fr, O, k).o
           T == {k \in Nat : k + 1 <= Len(s) /\ it(k + 1).type \in {"array", "map"}
                             => it(k + 1) \in Level(data)[k]}
<1>1. Len(s) \in Nat
  BY LenProperties
<1>2. ASSUME NEW k \in Nat, k + 1 <= Len(s)
      PROVE  it(k + 1) \in Items(it(k)) /\ it(k).type \in {"array", "map"}
  <2>1. k + 1 \in 1..Len(s) /\ k + 1 # 0 /\ (k + 1) - 1 = k
    BY <1>1, <1>2
  <2>2. LinkOK(s, fr, O, k + 1)
    BY <2>1 DEF Linked
  <2>3. Reading(s[k + 1], fr[k + 1]) /\ fr[k + 1].x = it(k)
    BY <2>1, <2>2, Zenon DEF LinkOK, Follows
  <2>4. it(k + 1) = GoalOf(s[k + 1], fr[k + 1]).o
    BY <2>1, Zenon DEF Goal
  <2> HIDE DEF it
  <2>5. it(k + 1) \in Items(it(k))
    BY <2>3, <2>4, GoalIsItem
  <2>6. it(k).type \in {"array", "map"}
    BY <2>3 DEF Reading
  <2> QED
    BY <2>5, <2>6
<1>3. it(0) = O
  <2>1. Goal(s, fr, O, 0) = [o |-> O, i |-> 1]
    BY DEF Goal
  <2> QED
    BY <2>1
<1>4. /\ Level(data)[0] = Containers({data})
      /\ \A n \in Nat : Level(data)[n + 1] = Containers(UNION {Items(x) : x \in Level(data)[n]})
  BY LevelIs
<1> HIDE DEF it
<1>5. 0 \in T
  <2> SUFFICES ASSUME 0 + 1 <= Len(s), it(0 + 1).type \in {"array", "map"} PROVE it(0 + 1) \in Level(data)[0]
    OBVIOUS
  <2>1. it(0 + 1) \in Items(O)
    BY <1>2, <1>3
  <2>2. it(0 + 1) = data
    BY <2>1 DEF OnlyIn
  <2> QED
    BY <1>4, <2>2 DEF Containers
<1>6. ASSUME NEW k \in Nat, k \in T PROVE k + 1 \in T
  <2> SUFFICES ASSUME (k + 1) + 1 <= Len(s), it((k + 1) + 1).type \in {"array", "map"}
               PROVE  it((k + 1) + 1) \in Level(data)[k + 1]
    OBVIOUS
  <2>1. k + 1 \in Nat /\ k + 1 <= Len(s)
    BY <1>1
  <2>2. it((k + 1) + 1) \in Items(it(k + 1)) /\ it(k + 1).type \in {"array", "map"}
    BY <1>2, <2>1
  <2>3. it(k + 1) \in Level(data)[k]
    BY <1>6, <2>1, <2>2
  <2>4. Level(data)[k + 1] = Containers(UNION {Items(x) : x \in Level(data)[k]})
    BY <1>4
  <2>5. it((k + 1) + 1) \in UNION {Items(x) : x \in Level(data)[k]}
    BY <2>2, <2>3, Zenon
  <2> QED
    BY <2>4, <2>5, Zenon DEF Containers
<1>7. \A k \in Nat : k \in T
  <2> HIDE DEF T
  <2> QED
    BY <1>5, <1>6, Inductively
<1> QED
  BY <1>7 DEF it

LEMMA MsgOnlyIn ==
    ASSUME NEW m \in Message, m.type # "raw"
    PROVE  OnlyIn(MsgObj(m), AsSent(m).data)
<1> DEFINE o == MsgObj(m)
           d == AsSent(m).data
<1>1. o \in Proper
  BY MsgObjSent
<1>2. /\ o.type = "map" /\ Len(o.v) = 2
      /\ o.v[1][1] = StrObj(<<IpcKeys[1]>>) /\ o.v[2][1] = StrObj(<<IpcKeys[2]>>)
      /\ At(o, 1) = Num(TypeNum(m.type)) /\ At(o, 2) = d
  BY MsgParts
<1>3. \A k : StrObj(k).type = "str" /\ Num(k).type \in {"positive", "negative"}
  BY DEF StrObj, Obj, Num
<1> HIDE DEF o, d
<1>4. DOMAIN o.v = 1..2
  BY <1>1, <1>2, ContentsAre
<1>5. ASSUME NEW e \in Items(o), e.type \in {"array", "map"} PROVE e = d
  <2>1. PICK i \in 1..2, k \in 1..2 : e = o.v[i][k]
    BY <1>2, <1>4 DEF Items
  <2>2. (i = 1 \/ i = 2) /\ (k = 1 \/ k = 2)
    OBVIOUS
  <2> QED
    BY <1>2, <1>3, <1>5, <2>1, <2>2 DEF At
<1> QED
  BY <1>5 DEF OnlyIn, o, d

\* If there is no room for a container, the message is too deep.
LEMMA NotTooDeep ==
    ASSUME UnpackOK, NEW m \in Message, m.type # "raw", NEW fr, Reads(fr, MsgObj(m)), TooDeep
    PROVE  ~Fits(m)
<1> DEFINE O == MsgObj(m)
           d == AsSent(m).data
           g == Goal(stack, fr, O, StackSize)
<1>1. PICK n \in Nat : d \in ProperAt(n)
  BY DataSent
<1>2. d \in Objects[n]
  BY <1>1, ProperAtIs
<1>3. OnlyIn(O, d)
  BY MsgOnlyIn
<1>4. label = "header" /\ p <= Len(buf) /\ Len(stack) = StackSize /\ buf[p] \in 128..159
  BY DEF TooDeep
<1>5. Whole(O) /\ Linked(stack, fr, O) /\ Doing(g)
  BY <1>4 DEF Reads
<1>6. buf \in Seq(Byte) /\ stack \in Seq(Frames(StackSize)) /\ StackSize \in Nat /\ StackSize # 0
  BY StackAssumption DEF UnpackOK, StackOK
<1> HIDE DEF O, d, g
<1>7. GoalOK(g)
  <2>1. StackSize \in 0..Len(stack)
    BY <1>4, <1>6
  <2> QED
    BY <1>5, <1>6, <2>1, GoalsOK DEF g
<1>8. FirstByte(g, buf[p])
  <2>1. Begins(g)
    BY <1>6, <1>7, ValueBegins
  <2>2. p = g.i
    BY <1>4, <1>5 DEF Doing
  <2> QED
    BY <2>1, <2>2 DEF Begins
<1>9. g.o.type \in {"array", "map"}
  <2> DEFINE b == buf[p]
  <2>1. b \in 128..159
    BY <1>4
  <2> HIDE DEF b
  <2>2. b \notin 0..127 /\ b \notin 160..191 /\ b # 192
    BY <2>1
  <2>3. b \notin DOMAIN Trails
    <3>1. DOMAIN Trails = {202} \cup (204..206) \cup (208..210) \cup (217..223)
      BY DEF Trails
    <3> QED
      BY <2>1, <3>1
  <2>4. g.o.type = "map" \/ g.o.type = "array"
    BY <1>8, <2>2, <2>3, Zenon DEF FirstByte, b
  <2> QED
    BY <2>4
<1>10. StackSize - 1 \in Nat /\ (StackSize - 1) + 1 = StackSize /\ StackSize <= Len(stack)
  BY <1>4, <1>6
<1>11. g.o \in Level(d)[StackSize - 1]
  <2> DEFINE k == StackSize - 1
  <2>1. k \in Nat /\ k + 1 = StackSize /\ k + 1 <= Len(stack)
    BY <1>10
  <2> HIDE DEF k
  <2>2. g = Goal(stack, fr, O, k + 1)
    BY <2>1 DEF g
  <2>3. g.o \in Level(d)[k]
    BY <1>2, <1>3, <1>5, <1>6, <1>9, <2>1, <2>2, GoalsAreDeep
  <2> QED
    BY <2>3 DEF k
<1> QED
  BY <1>11 DEF Fits, d

\* What can be made of the bytes of a message is not too deep.
LEMMA MadeFits ==
    ASSUME NEW m, MsgObj(m) \in Objects[StackSize]
    PROVE  Fits(m)
<1>1. StackSize \in Nat
  BY StackAssumption
<1>2. StackSize - 1 \in Nat /\ AsSent(m).data \in Objects[StackSize - 1]
  BY <1>1, DataDepth
<1>3. StackSize - 1 \in 0..(StackSize - 1)
  BY <1>2
<1>4. Level(AsSent(m).data)[StackSize - 1] = {}
  BY <1>2, <1>3, LevelFits
<1> QED
  BY <1>4 DEF Fits
-----------------------------------------------------------------------------
(* What is sent arrives *)

NoRaw == \A i \in DOMAIN session : session[i].type # "raw"

\* What is being received is the last message that was sent.
Receiving == \E m, O, fr : m = session[n_sent] /\ O = MsgObj(m) /\ Reads(fr, O)

Arriving ==
    /\ \A i \in DOMAIN received : received[i] = AsSent(session[i])
    /\ wire \in {"sending", "receiving", "done", "nomem"}
    /\ wire = "sending" => /\ Len(received) = n_sent /\ p = Len(buf) + 1 /\ label = "finish"
                           /\ n_sent > 0 => Fits(session[n_sent])
    /\ wire = "receiving" => n_sent \in 1..Len(session) /\ Len(received) = n_sent - 1 /\ Receiving
    /\ wire \in {"done", "nomem"} => label # "header"

SentInv == WireInv /\ (NoRaw => Arriving)

LEMMA NothingLeft ==
    ASSUME NEW S, NEW s \in Seq(S), NEW t \in Seq(S), NEW q, q = Len(s) + 1
    PROVE  SubSeq(s, q, Len(s)) \o t = t
<1>1. Len(s) \in Nat /\ ~(q <= Len(s))
  BY LenProperties
<1>2. SubSeq(s, q, Len(s)) = <<>>
  BY <1>1
<1> QED
  BY <1>2, ConcatEmptySeq

\* A message that is sent is what is read.
LEMMA BeginReads ==
    ASSUME NEW O \in Proper, NEW bytes, Bytes[O] = bytes, bytes \in Seq(Byte), Begin(bytes), NEW fr
    PROVE  Reads(fr, O)'
<1>1. buf' = bytes /\ p' = 1 /\ label' = "header" /\ stack' = <<>>
  BY DEF Begin
<1>2. Whole(O)'
  BY <1>1 DEF Whole
<1>3. PICK s : s = <<>>
  OBVIOUS
<1>4. Len(s) = 0
  BY <1>3
<1>5. Linked(s, fr, O)'
  BY <1>4 DEF Linked
<1>6. PICK g : g = Goal(s, fr, O, Len(s))
  OBVIOUS
<1>7. g = [o |-> O, i |-> 1]
  BY <1>4, <1>6, Zenon DEF Goal
<1>8. g.i = 1
  BY <1>7
<1>9. Doing(g)'
  BY <1>1, <1>8 DEF Doing
<1>10. stack' = s
  BY <1>1, <1>3
<1> QED
  BY <1>2, <1>5, <1>6, <1>9, <1>10 DEF Reads

\* When all has been read, it is what was to be.
LEMMA ReadToTheEnd ==
    ASSUME NEW O, NEW fr, Reads(fr, O)
    PROVE  label \notin {"continue", "parse_error"} /\ (label = "finish" => obj = O /\ p = Len(buf) + 1)
<1> DEFINE g == Goal(stack, fr, O, Len(stack))
<1>1. Doing(g)
  BY DEF Reads
<1>2. label = "finish" => g.o = O
  <2> SUFFICES ASSUME label = "finish" PROVE g.o = O
    OBVIOUS
  <2>1. stack = <<>>
    BY <1>1 DEF Doing
  <2>2. Len(stack) = 0
    BY <2>1
  <2>3. g = [o |-> O, i |-> 1]
    BY <2>2, Zenon DEF Goal
  <2> HIDE DEF g
  <2> QED
    BY <2>3
<1> QED
  BY <1>1, <1>2 DEF Doing

LEMMA SentInit == WireInit => SentInv
<1> SUFFICES ASSUME WireInit PROVE SentInv
  OBVIOUS
<1>1. /\ n_sent = 0 /\ received = <<>> /\ wire = "sending" /\ buf = <<>> /\ p = 1 /\ label = "finish"
  BY DEF WireInit, UnpackInit
<1>2. Arriving
  BY <1>1 DEF Arriving
<1> QED
  BY <1>2, WireInitInv DEF SentInv

LEMMA SentStep == SentInv /\ [WireNext]_all_vars => SentInv'
<1> SUFFICES ASSUME SentInv, [WireNext]_all_vars PROVE SentInv'
  OBVIOUS
<1>1. WireInv' /\ WireInv
  BY WireStepInv DEF SentInv
<1> SUFFICES ASSUME NoRaw' PROVE Arriving'
  BY <1>1 DEF SentInv
<1>2. session' = session
  BY DEF WireNext, SendMsg, EndSession, UnpackStep, Process, all_vars, wire_vars
<1>3. NoRaw /\ Arriving
  BY <1>2 DEF SentInv, NoRaw
<1>4. /\ UnpackOK /\ session \in Seq(Message) /\ n_sent \in 0..Len(session) /\ Len(session) \in Nat
      /\ received \in Seq(Msgs) /\ Len(received) \in Nat /\ DOMAIN session = 1..Len(session)
  <2> HIDE DEF Message, Msgs
  <2> QED
    BY <1>1, LenProperties DEF WireInv
<1>5. buf \in Seq(Byte) /\ obj \in Objects[StackSize]
  BY <1>4 DEF UnpackOK
<1>6. CASE SendMsg
  <2>1. PICK m : m = session[n_sent + 1]
    OBVIOUS
  <2>2. /\ wire = "sending" /\ n_sent < Len(session) /\ n_sent' = n_sent + 1 /\ wire' = "receiving"
        /\ Begin(SubSeq(buf, p, Len(buf)) \o PackMsg(m)) /\ received' = received
    BY <1>6, <2>1 DEF SendMsg
  <2>3. n_sent + 1 \in 1..Len(session)
    BY <1>4, <2>2
  <2>4. m \in Message /\ m.type # "raw"
    BY <1>3, <1>4, <2>1, <2>3, ElementOfSeq DEF NoRaw
  <2>5. MsgObj(m) \in Proper /\ Bytes[MsgObj(m)] = PackMsg(m) /\ PackMsg(m) \in Seq(Byte)
    BY <2>4, MsgObjSent, PackMsgBytes
  <2>6. Len(received) = n_sent /\ p = Len(buf) + 1
    BY <1>3, <2>2 DEF Arriving
  <2>7. Begin(PackMsg(m))
    <3> HIDE DEF Byte
    <3>1. SubSeq(buf, p, Len(buf)) \o PackMsg(m) = PackMsg(m)
      BY <1>5, <2>5, <2>6, NothingLeft
    <3> QED
      BY <2>2, <3>1
  <2>8. PICK O : O = MsgObj(m)
    OBVIOUS
  <2>9. PICK fr : fr = <<>>
    OBVIOUS
  <2>10. Reads(fr, O)'
    BY <2>5, <2>7, <2>8, BeginReads
  <2>11. m = (session[n_sent])'
    BY <1>2, <2>1, <2>2
  <2>12. Receiving'
    BY <2>8, <2>10, <2>11 DEF Receiving
  <2>13. n_sent' \in 1..Len(session') /\ Len(received') = n_sent' - 1
    BY <1>2, <1>4, <2>2, <2>3, <2>6
  <2>14. \A i \in DOMAIN received' : received'[i] = AsSent(session'[i])
    BY <1>2, <1>3, <2>2 DEF Arriving
  <2> QED
    BY <2>2, <2>12, <2>13, <2>14 DEF Arriving
<1>7. CASE EndSession
  <2>1. /\ wire = "sending" /\ wire' = "done" /\ label' = label /\ n_sent' = n_sent /\ received' = received
    BY <1>7 DEF EndSession, unpack_vars
  <2>2. label = "finish"
    BY <1>3, <2>1 DEF Arriving
  <2>3. \A i \in DOMAIN received' : received'[i] = AsSent(session'[i])
    BY <1>2, <1>3, <2>1 DEF Arriving
  <2> QED
    BY <2>1, <2>2, <2>3 DEF Arriving
<1>8. CASE UnpackStep
  <2>1. wire = "receiving" /\ wire' = wire /\ n_sent' = n_sent /\ received' = received /\ Execute
    BY <1>8 DEF UnpackStep, wire_vars
  <2>2. PICK m, O, fr : m = session[n_sent] /\ O = MsgObj(m) /\ Reads(fr, O)
    BY <1>3, <2>1 DEF Arriving, Receiving
  <2>3. PICK fr2 : Reads(fr2, O)'
    BY <1>4, <2>1, <2>2, ExecuteReads
  <2>4. Receiving'
    <3>1. m = (session[n_sent])'
      BY <1>2, <2>1, <2>2
    <3> QED
      BY <2>2, <2>3, <3>1 DEF Receiving
  <2>5. n_sent' \in 1..Len(session') /\ Len(received') = n_sent' - 1
    BY <1>2, <1>3, <2>1 DEF Arriving
  <2>6. \A i \in DOMAIN received' : received'[i] = AsSent(session'[i])
    BY <1>2, <1>3, <2>1 DEF Arriving
  <2> QED
    BY <2>1, <2>4, <2>5, <2>6 DEF Arriving
<1>9. CASE Process
  <2>1. /\ wire = "receiving" /\ label \in {"finish", "continue", "nomem", "parse_error"}
        /\ n_sent' = n_sent /\ label' = label /\ p' = p /\ buf' = buf
    BY <1>9 DEF Process, unpack_vars
  <2>2. PICK m, O, fr : m = session[n_sent] /\ O = MsgObj(m) /\ Reads(fr, O)
    BY <1>3, <2>1 DEF Arriving, Receiving
  <2>3. label \notin {"continue", "parse_error"} /\ (label = "finish" => obj = O /\ p = Len(buf) + 1)
    BY <2>2, ReadToTheEnd
  <2>4. n_sent \in 1..Len(session) /\ Len(received) = n_sent - 1
        /\ \A i \in DOMAIN received : received[i] = AsSent(session[i])
    BY <1>3, <2>1 DEF Arriving
  <2>5. CASE label # "finish"
    <3>1. wire' = "nomem" /\ received' = received
      BY <1>9, <2>1, <2>3, <2>5 DEF Process
    <3>2. label' # "header"
      BY <2>1
    <3>3. \A i \in DOMAIN received' : received'[i] = AsSent(session'[i])
      BY <1>2, <2>4, <3>1
    <3> QED
      BY <3>1, <3>2, <3>3 DEF Arriving
  <2>6. CASE label = "finish"
    <3>1. m \in Message /\ m.type # "raw"
      BY <1>3, <1>4, <2>2, <2>4, ElementOfSeq DEF NoRaw
    <3>2. MsgObj(m) \in Objects[StackSize] /\ obj = MsgObj(m)
      BY <1>5, <2>2, <2>3, <2>6
    <3>3. CheckMsg(obj) /\ MsgOf(obj) = AsSent(m)
      BY <3>1, <3>2, SentIsAccepted
    <3>4. Fits(m)
      BY <3>2, MadeFits
    <3>5. received' = Append(received, AsSent(m)) /\ wire' \in {"done", "sending"}
      BY <1>9, <2>6, <3>3 DEF Process
    <3>6. PICK r : r = AsSent(m)
      OBVIOUS
    <3>7. r \in Msgs
      BY <3>2, <3>3, <3>6, MsgOfFits
    <3>8. /\ Len(received') = n_sent
          /\ \A i \in DOMAIN received' : i = n_sent \/ (i \in DOMAIN received /\ received'[i] = received[i])
          /\ received'[n_sent] = r
      <4> HIDE DEF Msgs
      <4>1. /\ received' \in Seq(Msgs) /\ Len(received') = Len(received) + 1
            /\ \A i \in 1..Len(received) : received'[i] = received[i]
            /\ received'[Len(received) + 1] = r
        BY <1>4, <3>5, <3>6, <3>7, AppendProperties
      <4>2. DOMAIN received = 1..Len(received) /\ DOMAIN received' = 1..Len(received')
        BY <1>4, <4>1, LenProperties
      <4>3. Len(received) + 1 = n_sent
        BY <1>4, <2>4
      <4> QED
        BY <1>4, <4>1, <4>2, <4>3
    <3>9. \A i \in DOMAIN received' : received'[i] = AsSent(session'[i])
      <4> SUFFICES ASSUME NEW i \in DOMAIN received' PROVE received'[i] = AsSent(session[i])
        BY <1>2
      <4>1. CASE i = n_sent
        BY <2>2, <3>6, <3>8, <4>1
      <4>2. CASE i # n_sent
        BY <2>4, <3>8, <4>2
      <4> QED
        BY <4>1, <4>2
    <3>10. p' = Len(buf') + 1 /\ label' = "finish"
      BY <2>1, <2>3, <2>6
    <3>11. Fits(session'[n_sent'])
      BY <1>2, <2>1, <2>2, <3>4
    <3> QED
      BY <2>1, <3>5, <3>8, <3>9, <3>10, <3>11 DEF Arriving
  <2> QED
    BY <2>5, <2>6
<1>10. CASE UNCHANGED all_vars
  <2>1. /\ session' = session /\ n_sent' = n_sent /\ received' = received /\ wire' = wire
        /\ p' = p /\ buf' = buf /\ label' = label /\ stack' = stack /\ obj' = obj
        /\ cs' = cs /\ trail' = trail
    BY <1>10 DEF all_vars, wire_vars, unpack_vars
  <2>2. Receiving => Receiving'
    <3> SUFFICES ASSUME NEW m, NEW O, NEW fr, m = session[n_sent], O = MsgObj(m), Reads(fr, O)
                 PROVE  Receiving'
      BY DEF Receiving
    <3>1. PICK s : s = stack
      OBVIOUS
    <3>2. PICK g : g = Goal(s, fr, O, Len(s))
      OBVIOUS
    <3>3. Whole(O) /\ Linked(s, fr, O) /\ Doing(g)
      BY <3>1, <3>2 DEF Reads
    <3>4. PICK c, n, q : c = cs /\ n = trail /\ q = p
      OBVIOUS
    <3>5. Doing(g)'
      <4>1. label = "trail" => Awaits(c, n, q, g)
        BY <3>3, <3>4 DEF Doing
      <4>2. label = "trail" => Awaits(c, n, q, g)'
        BY <2>1, <4>1, AwaitsStays
      <4>3. cs' = c /\ trail' = n /\ p' = q
        BY <2>1, <3>4
      <4> QED
        BY <2>1, <3>3, <4>2, <4>3 DEF Doing
    <3>6. Reads(fr, O)'
      BY <2>1, <3>1, <3>2, <3>3, <3>5, Resumes
    <3>7. m = (session[n_sent])'
      BY <2>1
    <3> QED
      BY <3>6, <3>7 DEF Receiving
  <2>3. \A i \in DOMAIN received' : received'[i] = AsSent(session'[i])
    BY <1>3, <2>1 DEF Arriving
  <2> QED
    BY <1>3, <2>1, <2>2, <2>3 DEF Arriving
<1> QED
  BY <1>6, <1>7, <1>8, <1>9, <1>10 DEF WireNext

\* (unpack_template.h, template_execute; ch_send.c; ch_recv.c,
\* ch_process_message_pack_msg.)  Whatever the payload sends, and however deep its
\* datamaps are: what the exe accepts is what was sent, in the same order, and it
\* accepts all of it, as long as there is memory, but what is too deep for the unpacker.
THEOREM WhatIsSentArrivesHolds == WireSpec => []WhatIsSentArrives
<1>1. SentInv => WhatIsSentArrives
  <2> SUFFICES ASSUME SentInv, NoRaw PROVE WhatIsSentArrives
    BY DEF WhatIsSentArrives, NoRaw
  <2>1. Arriving /\ WireInv
    BY DEF SentInv
  <2>2. ASSUME n_sent > 0 PROVE IF Fits(session[n_sent]) THEN ~TooDeep ELSE wire # "sending"
    <3>1. CASE wire = "sending"
      BY <2>1, <2>2, <3>1 DEF Arriving, TooDeep
    <3>2. CASE wire \in {"done", "nomem"}
      BY <2>1, <3>2 DEF Arriving, TooDeep
    <3>3. CASE wire = "receiving"
      <4>1. PICK m, O, fr : m = session[n_sent] /\ O = MsgObj(m) /\ Reads(fr, O)
        BY <2>1, <3>3 DEF Arriving, Receiving
      <4>2. n_sent \in 1..Len(session) /\ session \in Seq(Message) /\ UnpackOK
        BY <2>1, <3>3 DEF Arriving, WireInv
      <4>3. m \in Message /\ m.type # "raw"
        BY <4>1, <4>2, LenProperties, ElementOfSeq DEF NoRaw
      <4>4. TooDeep => ~Fits(m)
        BY <4>1, <4>2, <4>3, NotTooDeep
      <4> QED
        BY <3>3, <4>1, <4>4
    <3> QED
      BY <2>1, <3>1, <3>2, <3>3 DEF Arriving
  <2>3. /\ \A i \in DOMAIN received : received[i] = AsSent(session[i])
        /\ wire \notin {"continue", "parse_error", "bad_format"}
    BY <2>1 DEF Arriving
  <2> QED
    BY <2>2, <2>3 DEF WhatIsSentArrives
<1> QED
  BY <1>1, SentInit, SentStep, PTL DEF WireSpec
=============================================================================
