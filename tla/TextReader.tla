----------------------------- MODULE TextReader -----------------------------
(***************************************************************************)
(* What a reader of TextDump's text makes of it, who goes by its           *)
(* indentation, against what is in the memory that was dumped.             *)
(***************************************************************************)
EXTENDS TextDump, FiniteSets

(* What memory says: a fact is a path to a value, and the value *)

RECURSIVE ClassFacts(_, _, _, _), ObjectFacts(_, _)

Chain[d \in DataMap] == IF BaseOf[d] = NoMap THEN {d} ELSE {d} \cup Chain[BaseOf[d]]

\* The elements of a value, each with all its bytes.
Elements(ft, size, data, at) ==
    LET w == ByteSize(Reduced(ft))
    IN  IF ft = "CHARACTER" /\ size # 1 THEN <<UpToZero(Bytes(data, at, size))>>
        ELSE [k \in 1..(size \div w) |-> Bytes(data, at + w * (k - 1), w)]

FieldFacts(f, data, at, path) ==
    IF ~IsShown(f, data, at) THEN {}
    ELSE IF f.type = "EMBEDDED" THEN ClassFacts(f.map, data, at + f.off, path)
    ELSE IF f.type # "CUSTOM" THEN {<<path, f.type, Elements(f.type, f.size, data, at + f.off)>>}
    ELSE IF ~f.ops THEN {<<path, "not implemented", <<>>>>}
    ELSE IF Pointer(f, data, at) = Zero THEN {<<path, "null", <<>>>>}
    ELSE ObjectFacts(Object[Pointer(f, data, at)[1]], path)

ClassFacts(d, data, at, path) ==
    UNION {UNION {FieldFacts(FieldsOf[e][k], data, at, Append(path, <<e, FieldsOf[e][k].name>>)) :
                     k \in DOMAIN FieldsOf[e]} : e \in Chain[d]}

ObjectFacts(o, path) ==
    CASE o.kind = "vector" /\ o.map # NoMap ->
           {<<path, "vector", <<>>>>}
           \cup UNION {ClassFacts(o.map, o.data, o.size * k, Append(path, <<"index", k>>)) : k \in 0..(o.n - 1)}
      [] o.kind = "vector" /\ o.map = NoMap ->
           {<<path, "vector", Elements(o.ft, o.size * o.n, o.data, 0)>>}
      [] o.kind = "output" ->
           ClassFacts(o.val.map, o.val.data, 0, Append(path, <<"class", 1>>))
           \cup UNION {ClassFacts(o.actions.map, o.actions.data, SizeOf[o.actions.map] * (k - 1),
                                  path \o << <<"events", o.actions.n>>, <<"class", k>> >>) :
                          k \in 1..o.actions.n}
      [] o.kind = "variant" ->
           {<<path, o.ft, IF o.ft = "VOID" THEN <<>> ELSE Elements(o.ft, Len(o.data), o.data, 0)>>}
      [] o.kind = "activity" ->
           {<<path, IF o.tagged THEN "named activity" ELSE "activity", <<o.data>>>>}

\* The lines of a text.
LinesOf(s) ==
    FoldLeft(LAMBDA ls, c : IF c = NL THEN Append(ls, <<>>)
                            ELSE [ls EXCEPT ![Len(ls)] = Append(@, c)], << <<>> >>, s)

\* The lines of what a template says, from the first to the last that is not empty;
\* all of them if there is nothing but white space.
MapText(s) ==
    LET ls == LinesOf(s)
    IN  IF \A k \in DOMAIN s : s[k] \in {NL, Char(" ")} THEN ls
        ELSE SubSeq(ls, SelectInSeq(ls, LAMBDA l : l # <<>>), SelectLastInSeq(ls, LAMBDA l : l # <<>>))

ThingFacts(k) ==
    LET t == things[k]
        before == {i \in 1..k : things[i].kind = t.kind}
    IN  IF t.kind = "class" THEN ClassFacts(t.map, t.data, 0, << <<"class", Cardinality(before)>> >>)
        ELSE UNION {LET path == << <<"templates", Len(t.block)>>, <<"template", i - 1>> >>
                        tm == t.block[i]
                    IN  ClassFacts(tm.map, tm.data, 0, Append(path, <<"class", 1>>))
                        \cup {<<path, "name", tm.name>>, <<path, "map data", MapText(tm.map_data)>>} :
                    i \in DOMAIN t.block}

Facts == UNION {ThingFacts(k) : k \in DOMAIN things}
-----------------------------------------------------------------------------
(* What a reader of the text takes it for, who goes by its indentation *)

Of(k, word) == text[k].words # <<>> /\ text[k].words[1][1] = word
IsClass(k) == Of(k, "class") \/ Of(k, "index")

\* The line that line k belongs to, 0 for none: the last one less far to the right.
Owner(k) == SelectLastInSubSeq(text, 1, k - 1, LAMBDA l : l.indent < text[k].indent)

\* "inherited from" goes on with the class that is said before it, as far to the right.
Continues(k) ==
    CHOOSE j \in 1..(k - 1) :
        /\ text[j].indent = text[k].indent /\ Owner(j) = Owner(k) /\ ~Of(j, "inherited")
        /\ \A i \in (j + 1)..(k - 1) : text[i].indent > text[j].indent \/ Of(i, "inherited")

\* The class whose fields are under line k.
ClassUnder(k) ==
    LET first == text[k].words[1]
    IN  CASE Of(k, "class") \/ Of(k, "inherited") -> first[2]
          [] Of(k, "index") -> text[k].words[2][2]
          [] Of(k, "embedded") -> first[3]

Fieldlike == {"field", "embedded", "vector", "output", "variant", "activity", "named activity", "null",
              "not implemented"}

\* Where line k is: the path of its owner, and which of the lines under that it is.
PathTo[k \in Nat] ==
    IF k = 0 THEN <<>>
    ELSE IF Of(k, "inherited") THEN PathTo[Continues(k)]
    ELSE LET word  == text[k].words[1]
             label == IF word[1] \in Fieldlike THEN <<ClassUnder(Owner(k)), word[2]>>
                      ELSE IF Of(k, "class")
                      THEN <<"class", Cardinality({j \in 1..k : Of(j, "class") /\ Owner(j) = Owner(k)})>>
                      ELSE word
         IN  IF Of(k, "name") \/ Of(k, "map_data") \/ Of(k, "map data") THEN PathTo[Owner(k)]
             ELSE Append(PathTo[Owner(k)], label)

ElemsIn(words) ==
    LET some == SelectSeq(words, LAMBDA w : w[1] \in {"elem", "text"})
    IN  [k \in DOMAIN some |-> some[k][2]]

\* The lines under line k, which are a text.
TextUnder(k) ==
    LET after == SelectInSubSeq(text, k + 1, Len(text), LAMBDA l : l.indent <= text[k].indent)
        last  == IF after = 0 THEN Len(text) ELSE after - 1
    IN  [i \in 1..(last - k) |-> text[k + i].words]

IsText(k) == \E j \in 1..(k - 1) : Of(j, "map_data") /\ Owner(k) = j

FactIn(k) ==
    LET word == text[k].words[1]
    IN  CASE word[1] \in {"field", "variant"} -> {<<PathTo[k], word[3], ElemsIn(text[k].words)>>}
          [] word[1] \in {"vector", "activity", "named activity", "null", "not implemented"} ->
               {<<PathTo[k], word[1], ElemsIn(text[k].words)>>}
          [] word[1] = "name" -> {<<PathTo[k], "name", word[2]>>}
          [] word[1] = "map data" -> {<<PathTo[k], "map data", <<Tail(text[k].words)>>>>}
          [] word[1] = "map_data" -> {<<PathTo[k], "map data", TextUnder(k)>>}
          [] OTHER -> {}

ReadBack == UNION {IF IsText(k) THEN {} ELSE FactIn(k) : k \in DOMAIN text}
-----------------------------------------------------------------------------
(* Properties *)

\* A reader who goes by the indentation finds in the text what is in memory: each
\* value under the class and the object that has it, through base classes, embedded
\* ones, vectors and outputs, and nothing else (ch_dump_fields.c:236-285).
ReadsBack == jobs = <<>> /\ err = "none" => ReadBack = Facts
=============================================================================
