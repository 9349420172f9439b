------------------------------- MODULE MCWire -------------------------------
(***************************************************************************)
(* Sessions for TLC: of the payload, with values where an encoding ends    *)
(* and the next begins and with datamaps as deep as the unpacker goes and  *)
(* one deeper; and of a client that is not the payload.                    *)
(***************************************************************************)
EXTENDS Wire, FiniteSetsExt

Chars(n) == [i \in 1..n |-> (7 * i) % 251]

Hello == [type |-> "HELLO", data |-> Null]
Goodbye == [type |-> "GOODBYE", data |-> Null]
OfMap(dm) == [type |-> "DATAMAP", data |-> dm]
Links(n) == [type |-> "LINKED_NAME", data |-> [i \in 1..n |-> <<<<i>>, Chars(2)>>]]
Raw(bytes) == [type |-> "raw", data |-> bytes]

\* A field with a number n in every place there is.
Desc(n, name) ==
    [name |-> name, type |-> n, flags |-> n, external |-> Null, off |-> n, n_elems |-> n, size |-> n,
     ops |-> Null, func |-> Null, td |-> Null, override |-> n, tol |-> <<58, 131, 18, n % 256>>]

Dm(name, base, fields) == [name |-> name, module |-> Chars(10), off |-> 65536, base |-> base, fields |-> fields]

Small == Dm(Chars(1), Null, <<Desc(1, Chars(2))>>)
Empty == Dm(Chars(3), Null, <<EmptyDesc>>)

\* Where the encodings of numbers, strings and arrays change.
Numbers == <<0, 127, 128, 255, 256, 65535, 65536, 2147483647>>
Lengths == <<0, 1, 31, 32, 255, 256>>
OfNumbers == Dm(Chars(4), Small, [i \in DOMAIN Numbers |-> Desc(Numbers[i], Chars(i))])
OfNames == Dm(Chars(5), Empty, [i \in DOMAIN Lengths |-> Desc(i, Chars(Lengths[i]))])
OfFields(n) == Dm(Chars(32), Null, [i \in 1..n |-> Desc(i, Chars(1))])
Embeds(dm) ==
    Dm(Chars(6), Null,
       <<[Desc(5, Chars(1)) EXCEPT !.td = dm, !.external = Chars(33), !.ops = 300, !.func = 7],
         [Desc(6, Chars(1)) EXCEPT !.td = Empty]>>)

\* n containers in each other: base maps, and at the end one without fields.
Chain[n \in Nat] == IF n = 2 THEN Empty ELSE Dm(Chars(1), Chain[n - 1], <<Desc(1, Chars(1))>>)

OfPayload ==
    { <<Hello, OfMap(OfNumbers), Goodbye>>,
      <<Hello, OfMap(OfNames)>>,
      <<Hello, OfMap(OfFields(15)), OfMap(OfFields(16))>>,
      <<Hello, OfMap(Embeds(Embeds(Small))), OfMap(Small), Links(1), Goodbye>>,
      <<Hello, OfMap(Empty), Links(15), Goodbye>>,
      <<Hello, OfMap(Empty), Links(16), Goodbye>>,
      <<Hello, OfMap(Chain[StackSize - 1]), Goodbye>>,
      <<Hello, OfMap(Chain[StackSize]), Goodbye>>,
      <<Hello, OfMap(Embeds(Embeds(Embeds(Chain[StackSize - 10])))), Goodbye>>,
      <<Hello, OfMap(Embeds(Embeds(Embeds(Chain[StackSize - 9])))), Goodbye>>,
      <<Hello, [type |-> "LOG_INFO", data |-> Chars(300)], [type |-> "LOG_ERROR", data |-> <<>>]>> }

\* The datamaps that are sent, with all that they refer to, and how far down they go.
Marked == [Small EXCEPT !.fields[1].flags = 99]
OfMarked == {Marked, Dm(Chars(2), Marked, <<EmptyDesc>>), Embeds(Marked)}

Refers(dm) == {d \in {dm.base} \cup {dm.fields[i].td : i \in DOMAIN dm.fields} : d # Null}

RECURSIVE Closure(_)
Closure(S) ==
    LET next == S \cup UNION {Refers(dm) : dm \in S}
    IN  IF next = S THEN S ELSE Closure(next)

MCDatamap ==
    Closure(OfMarked \cup {m.data : m \in {o \in UNION {ToSet(s) : s \in OfPayload} : o.type = "DATAMAP"}})

MCRank == [dm \in MCDatamap |-> Cardinality(Closure({dm}))]

\* What the payload's functions would make of flags below 0, in the datamap, in a
\* base map, and embedded.
Flags(packed) == PackStr(<<TdKeys[3]>>) \o packed
Negative ==
    {Raw(ReplaceFirstSubSeq(Flags(PackInt(n)), Flags(PackInt(99)), PackMsg(OfMap(dm)))) :
        dm \in OfMarked, n \in {-1, -33, -129, -40000}}

\* A string, an array and a map with longer headers than they need; a message whose
\* keys are empty, or that has one key, or three; of a type there is not; numbers
\* for names; no links; and what is no message at all, not a whole one, or more.
Log(data) == PackPairs(IpcKeys, <<PackInt(3), data>>)
Strange ==
    {Raw(b) : b \in
        { Log(<<219, 0, 0, 0, 1, 65>>),
          <<223, 0, 0, 0, 2>> \o Tail(Log(PackStr(<<65>>))),
          PackMap(2) \o PackStr(<<>>) \o PackInt(3) \o PackStr(<<>>) \o PackStr(<<65>>),
          PackPairs(<<1>>, <<PackInt(3)>>),
          PackPairs(<<1, 2, 3>>, <<PackInt(3), PackStr(<<>>), PackNil>>),
          PackPairs(<<2, 1>>, <<PackInt(3), PackStr(<<>>)>>),
          PackPairs(IpcKeys, <<PackInt(6), PackNil>>),
          PackPairs(IpcKeys, <<PackInt(2), PackMap(0)>>),
          PackPairs(IpcKeys, <<PackInt(2), PackMap(1) \o PackStr(<<65>>) \o PackInt(1)>>),
          PackPairs(IpcKeys, <<PackInt(1), PackNil>>),
          PackPairs(IpcKeys, <<PackInt(1), PackPairs(DmKeys, <<PackStr(<<65>>), PackStr(<<66>>), PackInt(1),
                                PackNil, <<221, 0, 0, 0, 1>> \o PackInt(1)>>)>>),
          Log(PackInt(-1)), Log(<<193>>), <<193>>, <<>>, <<192>>,
          Front(Log(PackStr(<<65, 66>>))), Front(Log(PackInt(300))),
          Log(PackStr(<<65>>)) \o Log(PackStr(<<66>>)),
          Log(PackStr(<<65>>)) \o <<192>> } }

MCSessions ==
    OfPayload \cup {<<Hello, raw>> : raw \in Negative} \cup {<<Hello, raw, Goodbye>> : raw \in Strange}
=============================================================================
