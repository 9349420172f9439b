---------------------------- MODULE Search_proofs ----------------------------
(***************************************************************************)
(* Proofs about Search and EntFactory, for every memory of a game that is  *)
(* as the search relies on: what it sends is whole and all there is, its   *)
(* end is told once, and entities are linked to sound datamaps.            *)
(***************************************************************************)
EXTENDS EntFactory, TLAPS

\* The bounds of the table that what is found leads to.
TableOf(g, f) == <<TableStart(g, f).at, TableEnd(g, f).at>>

LEMMA ModuleOK ==
    ASSUME NEW m \in Memories, NEW k \in 1..Len(m.mods)
    PROVE  m.mods[k] \in Modules
<1>1. k \in DOMAIN m.mods
  BY SearchAssumption
<1> QED
  BY <1>1 DEF Modules

-----------------------------------------------------------------------------
(* The caller of the static initialisers *)

\* At one place there is one pattern: they begin with different opcodes.
LEMMA OnePattern ==
    ASSUME NEW text, Len(text) \in Nat, DOMAIN text = 1..Len(text),
           NEW f \in Found(text), NEW h \in Found(text), f[1] = h[1]
    PROVE  f = h
<1>1. PICK k \in DOMAIN text, p \in DOMAIN StaticInitCallers :
          f = <<k, p>> /\ PatternMatch(k, text, StaticInitCallers[p].cells)
  BY DEF Found
<1>2. PICK q \in DOMAIN StaticInitCallers :
          h = <<k, q>> /\ PatternMatch(k, text, StaticInitCallers[q].cells)
  BY <1>1 DEF Found
<1>3. p \in {1, 2, 3} /\ q \in {1, 2, 3}
  BY DEF StaticInitCallers
<1>4. /\ 1 \in DOMAIN StaticInitCallers[1].cells /\ StaticInitCallers[1].cells[1] = "BE"
      /\ 1 \in DOMAIN StaticInitCallers[2].cells /\ StaticInitCallers[2].cells[1] = "B8"
      /\ 1 \in DOMAIN StaticInitCallers[3].cells /\ StaticInitCallers[3].cells[1] = "E8"
  BY DEF StaticInitCallers
<1>5. k + 1 - 1 = k
  OBVIOUS
<1>6. /\ StaticInitCallers[p].cells[1] \in {Wild, text[k].op}
      /\ StaticInitCallers[q].cells[1] \in {Wild, text[k].op}
  BY <1>1, <1>2, <1>3, <1>4, <1>5 DEF PatternMatch
<1>7. p = q
  BY <1>3, <1>4, <1>6 DEF Wild
<1> QED
  BY <1>1, <1>2, <1>7

\* A match that is the only one, and leads to a table, leads to that of the game.
LEMMA CallerIsReal ==
    ASSUME NEW g \in Modules, IsUnique(Found(g.text)), LeadsToTable(g, First(Found(g.text)))
    PROVE  TableOf(g, First(Found(g.text))) = g.real
<1> DEFINE found == Found(g.text)
           f == First(found)
<1>1. /\ Len(g.text) \in Nat /\ DOMAIN g.text = 1..Len(g.text)
  BY SearchAssumption
<1>2. PICK h \in found : TRUE
  BY DEF IsUnique
<1>3. \A e \in found : e = h
  BY <1>1, <1>2, OnePattern DEF IsUnique
<1>4. \E e \in found : \A o \in found : e[1] < o[1] \/ (e[1] = o[1] /\ e[2] <= o[2])
  <2>1. h[1] = h[1] /\ h[2] <= h[2]
    BY <1>2 DEF Found, StaticInitCallers
  <2> QED
    BY <1>2, <1>3, <2>1
<1>5. f \in found
  <2> HIDE DEF found
  <2> QED
    BY <1>4 DEF First
<1>6. PICK e \in found : TableOf(g, e) = g.real
  BY <1>5, CallerAssumption DEF TableOf
<1> QED
  BY <1>3, <1>5, <1>6

-----------------------------------------------------------------------------
(* Datamaps *)

\* LooksValid is what it is defined to be: there is such a function.
LEMMA LooksValidIs ==
    ASSUME NEW maps
    PROVE  LooksValid(maps) =
              [x \in DOMAIN maps |->
                  /\ ItselfOK(maps[x])
                  /\ \A r \in Referred(maps[x]) : r \in DOMAIN maps /\ LooksValid(maps)[r]]
<1> DEFINE D == DOMAIN maps
           OK(x) == ItselfOK(maps[x])
           R(x) == Referred(maps[x])
           Closed(S) == \A y \in S : OK(y) /\ R(y) \subseteq S
           V == {x \in D : \E S \in SUBSET D : x \in S /\ Closed(S)}
           v == [x \in D |-> x \in V]
           Is(u) == u = [x \in D |-> OK(x) /\ \A r \in R(x) : r \in D /\ u[r]]
<1>1. LooksValid(maps) = CHOOSE u : Is(u)
  BY DEF LooksValid
<1>2. \E u : Is(u)
  <2> HIDE DEF OK, R, D
  <2>1. ASSUME NEW x \in V PROVE OK(x) /\ R(x) \subseteq V
    <3>1. PICK S \in SUBSET D : x \in S /\ Closed(S)
      BY <2>1
    <3> QED
      BY <3>1
  <2>2. ASSUME NEW x \in D, OK(x), R(x) \subseteq V PROVE x \in V
    <3>1. V \cup {x} \in SUBSET D /\ x \in V \cup {x}
      BY <2>2
    <3>2. Closed(V \cup {x})
      BY <2>1, <2>2
    <3> QED
      BY <3>1, <3>2
  <2>3. V \subseteq D
    OBVIOUS
  <2> HIDE DEF V
  <2> DEFINE Body(x) == OK(x) /\ \A r \in R(x) : r \in D /\ v[r]
  <2>4. ASSUME NEW x \in D PROVE (x \in V) <=> Body(x)
    <3>1. (\A r \in R(x) : r \in D /\ v[r]) <=> R(x) \subseteq V
      BY <2>3
    <3> QED
      BY <2>1, <2>2, <3>1
  <2>5. v = [x \in D |-> Body(x)]
    <3>1. v = [x \in D |-> x \in V]
      OBVIOUS
    <3> HIDE DEF v
    <3>2. ASSUME NEW x \in D PROVE (x \in V) = Body(x)
      BY <2>4
    <3> QED
      BY <3>1, <3>2
  <2> QED
    BY <2>5
<1> HIDE DEF Is
<1>3. Is(LooksValid(maps))
  BY <1>1, <1>2, Zenon
<1> QED
  BY <1>3 DEF Is

\* The datamaps that look valid are closed: each one with all that it refers to.
LEMMA ValidIsWhole ==
    ASSUME NEW g \in Modules, NEW d, DatamapLooksValid(d, g)
    PROVE  IsWhole(g.maps, d)
<1> DEFINE maps == g.maps
           S == {x \in DOMAIN maps : LooksValid(maps)[x]}
<1>1. d \in S
  BY DEF DatamapLooksValid
<1>2. ASSUME NEW x \in S PROVE maps[x].sound /\ Refs(maps, x) \subseteq S
  <2>1. /\ ItselfOK(maps[x])
        /\ \A r \in Referred(maps[x]) : r \in DOMAIN maps /\ LooksValid(maps)[r]
    BY <1>2, LooksValidIs
  <2>2. Refs(maps, x) = Referred(maps[x])
    BY DEF Refs, Referred
  <2>3. maps[x].sound
    BY <1>2, <2>1, MapsAssumption
  <2> QED
    BY <2>1, <2>2, <2>3
<1>3. S \in SUBSET {x \in DOMAIN maps : maps[x].sound}
  BY <1>2
<1> HIDE DEF S
<1> QED
  BY <1>1, <1>2, <1>3 DEF IsWhole

-----------------------------------------------------------------------------
(* What has been sent *)

IsSeq(s) == \E S : s \in Seq(S)

LEMMA AppendOne ==
    ASSUME NEW s, IsSeq(s), NEW x
    PROVE  /\ IsSeq(Append(s, x)) /\ Len(s) \in Nat /\ DOMAIN s = 1..Len(s)
           /\ Len(Append(s, x)) = Len(s) + 1 /\ DOMAIN Append(s, x) = 1..(Len(s) + 1)
           /\ \A i \in DOMAIN s : i # Len(s) + 1 /\ Append(s, x)[i] = s[i]
           /\ \A i \in DOMAIN Append(s, x) : i \in DOMAIN s \/ i = Len(s) + 1
           /\ Append(s, x)[Len(s) + 1] = x
<1>1. PICK S : s \in Seq(S)
  BY DEF IsSeq
<1>2. s \in Seq(S \cup {x}) /\ x \in S \cup {x}
  BY <1>1
<1>3. Append(s, x) \in Seq(S \cup {x})
  BY <1>2
<1>4. Len(s) \in Nat /\ DOMAIN s = 1..Len(s)
  BY <1>1
<1>5. /\ Len(Append(s, x)) = Len(s) + 1 /\ DOMAIN Append(s, x) = 1..(Len(s) + 1)
      /\ \A i \in 1..Len(s) : Append(s, x)[i] = s[i]
      /\ Append(s, x)[Len(s) + 1] = x
  BY <1>2
<1> HIDE DEF IsSeq
<1>6. IsSeq(Append(s, x))
  BY <1>3 DEF IsSeq
<1> QED
  BY <1>4, <1>5, <1>6

LEMMA InAppended ==
    ASSUME NEW s, IsSeq(s), NEW x
    PROVE  \A i \in DOMAIN Append(s, x) : \/ i \in DOMAIN s /\ Append(s, x)[i] = s[i]
                                         \/ Append(s, x)[i] = x
<1> SUFFICES ASSUME NEW i \in DOMAIN Append(s, x), i \notin DOMAIN s PROVE Append(s, x)[i] = x
  BY AppendOne
<1>1. i = Len(s) + 1
  BY AppendOne
<1> QED
  BY <1>1, AppendOne

\* Among the messages s is that of the datamap d of module k.
InSent(s, k, d) == \E i \in DOMAIN s : s[i] = <<"datamap", k, d>>

\* Those of the static initialisers of module k that are before n have been sent, and
\* those of all of its table, and of all modules.
Covered(s, k, n) ==
    LET g == memory.mods[k]
    IN  \A j \in g.real[1]..(n - 1) :
           DatamapLooksValid(InitOf(g, j), g) => InSent(s, k, InitOf(g, j))

ModuleSent(s, k) == Covered(s, k, memory.mods[k].real[2])
AllSent(s) == \A k \in 1..Len(memory.mods) : ModuleSent(s, k)

\* The search is behind the datamaps.
Late == {"find_dict", "send_dict", "traverse", "scan"}

TablesInv ==
    /\ IsSeq(tables)
    /\ \A k \in DOMAIN tables : tables[k] = memory.mods[k].real
    /\ spc = "static_inits" => mod \in 1..Len(memory.mods) /\ Len(tables) = mod - 1 /\ pos = 1
    /\ spc = "iterate" => Len(tables) = Len(memory.mods)

MessageOK(m) ==
    m[1] = "datamap" => m[2] \in 1..Len(memory.mods) /\ DatamapLooksValid(m[3], memory.mods[m[2]])

SentInv ==
    /\ IsSeq(sent)
    /\ \A i \in DOMAIN sent : MessageOK(sent[i])
    /\ spc = "iterate" =>
          /\ mod \in 1..Len(memory.mods) /\ pos \in Nat \ {0}
          /\ \A k \in 1..Len(memory.mods) : k < mod => ModuleSent(sent, k)
          /\ Covered(sent, mod, memory.mods[mod].real[1] + pos - 1)
    /\ spc \in Late \cup {"done"} => AllSent(sent)

\* A last message of its own kind, for either way the search may end, and no other.
EndInv ==
    /\ spc \in {"static_inits", "iterate", "left", "done"} \cup Late
    /\ spc \in {"left", "done"} => Len(sent) # 0
    /\ \A i \in DOMAIN sent :
          /\ sent[i][1] = "error" <=> spc = "left" /\ i = Len(sent)
          /\ sent[i][1] = "linked names" <=> spc = "done" /\ i = Len(sent)

SearchInv == memory \in Memories /\ TablesInv /\ SentInv /\ EndInv

LEMMA InitSearch == EntInit => SearchInv
<1> SUFFICES ASSUME EntInit PROVE SearchInv
  OBVIOUS
<1>1. /\ memory \in Memories /\ spc = "static_inits" /\ mod = 1 /\ pos = 1
      /\ tables = <<>> /\ sent = <<>>
  BY DEF EntInit, SearchInit
<1>2. IsSeq(<<>>) /\ DOMAIN <<>> = {} /\ Len(<<>>) = 0
  BY DEF IsSeq
<1>3. 1 \in 1..Len(memory.mods)
  BY <1>1, SearchAssumption
<1> QED
  BY <1>1, <1>2, <1>3 DEF SearchInv, TablesInv, SentInv, EndInv, Late

\* More messages: what has been sent has been sent.
LEMMA MoreSent ==
    ASSUME IsSeq(sent), NEW x, NEW k, NEW n
    PROVE  /\ Covered(sent, k, n) => Covered(Append(sent, x), k, n)
           /\ ModuleSent(sent, k) => ModuleSent(Append(sent, x), k)
           /\ AllSent(sent) => AllSent(Append(sent, x))
<1>1. \A l, d : InSent(sent, l, d) => InSent(Append(sent, x), l, d)
  BY AppendOne DEF InSent
<1>2. \A l, o : Covered(sent, l, o) => Covered(Append(sent, x), l, o)
  BY <1>1 DEF Covered
<1> QED
  BY <1>2 DEF ModuleSent, AllSent

\* An error is the last message.
LEMMA ErrorInv ==
    ASSUME SearchInv, NEW what, memory' = memory, spc \notin {"left", "done"}, spc' = "left",
           sent' = Append(sent, <<"error", what>>), tables' = tables
    PROVE  SearchInv'
<1>1. IsSeq(sent)
  BY DEF SearchInv, SentInv
<1> DEFINE x == <<"error", what>>
<1>2. x[1] = "error"
  OBVIOUS
<1> HIDE DEF x
<1>3. sent' = Append(sent, x)
  BY DEF x
<1>4. SentInv'
  BY <1>1, <1>2, <1>3, AppendOne DEF SearchInv, SentInv, MessageOK, Late
<1>5. EndInv'
  <2>1. /\ Len(sent) \in Nat /\ Len(sent') = Len(sent) + 1
        /\ \A i \in DOMAIN sent' : \/ i \in DOMAIN sent /\ i # Len(sent) + 1 /\ sent'[i] = sent[i]
                                   \/ i = Len(sent) + 1 /\ sent'[i] = x
    BY <1>1, <1>3, AppendOne
  <2>2. \A i \in DOMAIN sent : sent[i][1] # "error" /\ sent[i][1] # "linked names"
    BY DEF SearchInv, EndInv
  <2>3. ASSUME NEW i \in DOMAIN sent'
        PROVE  (sent'[i][1] = "error" <=> i = Len(sent')) /\ sent'[i][1] # "linked names"
    <3>1. CASE i = Len(sent) + 1
      BY <1>2, <2>1, <3>1
    <3>2. CASE i # Len(sent) + 1
      BY <2>1, <2>2, <3>2
    <3> QED
      BY <3>1, <3>2
  <2>4. Len(sent') # 0
    BY <2>1
  <2>5. \A i \in DOMAIN sent' : /\ sent'[i][1] = "error" <=> spc' = "left" /\ i = Len(sent')
                                /\ sent'[i][1] = "linked names" <=> spc' = "done" /\ i = Len(sent')
    BY <2>3
  <2>6. spc' \in {"static_inits", "iterate", "left", "done"} \cup Late
    OBVIOUS
  <2> QED
    BY <2>4, <2>5, <2>6 DEF EndInv
<1>6. TablesInv'
  BY DEF SearchInv, TablesInv
<1> QED
  BY <1>4, <1>5, <1>6 DEF SearchInv

LEMMA FindStaticInitsInv ==
    ASSUME SearchInv, FindStaticInits
    PROVE  SearchInv'
<1> DEFINE g     == memory.mods[mod]
           found == Found(g.text)
           f     == First(found)
<1>1. /\ spc = "static_inits" /\ memory' = memory /\ pos' = pos
      /\ \/ (\E what : sent' = Append(sent, <<"error", what>>)) /\ spc' = "left" /\ tables' = tables
         \/ /\ IsUnique(found) /\ LeadsToTable(g, f)
            /\ tables' = Append(tables, TableOf(g, f)) /\ sent' = sent
            /\ \/ mod = Len(memory.mods) /\ spc' = "iterate" /\ mod' = 1
               \/ mod # Len(memory.mods) /\ mod' = mod + 1 /\ spc' = spc
  BY DEF FindStaticInits, SendErrAndExit, Send, Here, TableOf
<1>2. CASE (\E what : sent' = Append(sent, <<"error", what>>)) /\ spc' = "left" /\ tables' = tables
  BY <1>1, <1>2, ErrorInv
<1>3. CASE /\ IsUnique(found) /\ LeadsToTable(g, f)
           /\ tables' = Append(tables, TableOf(g, f)) /\ sent' = sent
           /\ \/ mod = Len(memory.mods) /\ spc' = "iterate" /\ mod' = 1
              \/ mod # Len(memory.mods) /\ mod' = mod + 1 /\ spc' = spc
  <2>1. /\ memory \in Memories /\ mod \in 1..Len(memory.mods) /\ Len(memory.mods) \in Nat \ {0}
        /\ IsSeq(tables) /\ Len(tables) = mod - 1 /\ pos = 1
    BY <1>1, SearchAssumption DEF SearchInv, TablesInv
  <2>2. g \in Modules
    BY <2>1, ModuleOK
  <2>3. TableOf(g, f) = memory.mods[mod].real
    BY <1>3, <2>2, CallerIsReal
  <2> HIDE DEF g, f, found
  <2> DEFINE t == TableOf(g, f)
  <2>4. tables' = Append(tables, t) /\ t = memory.mods[mod].real
    BY <1>3, <2>3
  <2> HIDE DEF t
  <2>5. TablesInv'
    <3>1. \A k \in DOMAIN tables' : tables'[k] = memory.mods[k].real
      BY <2>1, <2>4, AppendOne DEF SearchInv, TablesInv
    <3>2. IsSeq(tables') /\ Len(tables') = mod
      BY <2>1, <2>4, AppendOne
    <3> QED
      BY <1>1, <1>3, <2>1, <3>1, <3>2 DEF TablesInv
  <2>6. spc' = "iterate" => Covered(sent, 1, memory.mods[1].real[1] + 1 - 1)
    <3>1. memory.mods[1] \in Modules
      BY <2>1, ModuleOK
    <3>2. memory.mods[1].real[1] \in Nat
      BY <3>1, SearchAssumption
    <3>3. \A a \in Nat : \A j \in a..(a + 1 - 1 - 1) : FALSE
      OBVIOUS
    <3> QED
      BY <3>2, <3>3 DEF Covered
  <2>7. SentInv'
    <3>1. (IsSeq(sent) /\ \A i \in DOMAIN sent : MessageOK(sent[i]))'
      BY <1>1, <1>3 DEF SearchInv, SentInv, MessageOK
    <3>2. spc' = "iterate" =>
             /\ mod' \in 1..Len(memory'.mods) /\ pos' \in Nat \ {0}
             /\ \A k \in 1..Len(memory'.mods) : ~(k < mod')
             /\ Covered(sent, mod, memory.mods[mod].real[1] + pos - 1)'
      <4> SUFFICES ASSUME spc' = "iterate" PROVE
             /\ mod' \in 1..Len(memory'.mods) /\ pos' \in Nat \ {0}
             /\ \A k \in 1..Len(memory'.mods) : ~(k < mod')
             /\ Covered(sent, mod, memory.mods[mod].real[1] + pos - 1)'
        OBVIOUS
      <4>1. mod' = 1 /\ pos' = 1 /\ memory' = memory /\ sent' = sent
        BY <1>1, <1>3, <2>1
      <4> QED
        BY <2>1, <2>6, <4>1 DEF Covered
    <3>3. spc' \notin Late \cup {"done"}
      BY <1>1, <1>3 DEF Late
    <3> QED
      BY <3>1, <3>2, <3>3 DEF SentInv
  <2>8. EndInv'
    BY <1>1, <1>3 DEF SearchInv, EndInv
  <2> QED
    BY <1>1, <2>1, <2>5, <2>7, <2>8 DEF SearchInv
<1> HIDE DEF g, f, found
<1> QED
  BY <1>1, <1>2, <1>3

\* The place in the table of the module that is being searched.
LEMMA InIteration ==
    ASSUME SearchInv, spc = "iterate"
    PROVE  LET r == memory.mods[mod].real
           IN  /\ mod \in 1..Len(memory.mods) /\ tables[mod] = r
               /\ r[1] \in Nat /\ r[2] \in Nat /\ pos \in Nat \ {0}
               /\ memory.mods[mod] \in Modules /\ Len(memory.mods) \in Nat
<1>1. /\ memory \in Memories /\ mod \in 1..Len(memory.mods) /\ pos \in Nat \ {0}
      /\ IsSeq(tables) /\ Len(tables) = Len(memory.mods)
  BY DEF SearchInv, SentInv, TablesInv
<1>2. memory.mods[mod] \in Modules /\ Len(memory.mods) \in Nat
  BY <1>1, ModuleOK, SearchAssumption
<1>3. mod \in DOMAIN tables
  BY <1>1, AppendOne
<1>4. tables[mod] = memory.mods[mod].real
  BY <1>3 DEF SearchInv, TablesInv
<1>5. memory.mods[mod].real \in Nat \X Nat
  BY <1>2, SearchAssumption
<1> QED
  BY <1>1, <1>2, <1>4, <1>5

LEMMA IterateDatamapsInv ==
    ASSUME SearchInv, IterateDatamaps
    PROVE  SearchInv'
<1> DEFINE g  == memory.mods[mod]
           n  == tables[mod][1] + pos - 1
           dm == InitOf(g, n)
           x  == <<"datamap", mod, dm>>
<1>1. /\ spc = "iterate" /\ n < tables[mod][2]
      /\ sent' = IF DatamapLooksValid(dm, g) THEN Append(sent, x) ELSE sent
      /\ pos' = pos + 1 /\ UNCHANGED <<memory, spc, mod, tables>>
  BY DEF IterateDatamaps, InTable, Here, Send
<1>2. /\ mod \in 1..Len(memory.mods) /\ tables[mod] = g.real
      /\ g.real[1] \in Nat /\ pos \in Nat \ {0} /\ g \in Modules
  BY <1>1, InIteration
<1>3. n = g.real[1] + pos - 1
  BY <1>2
<1>4. /\ IsSeq(sent) /\ \A i \in DOMAIN sent : MessageOK(sent[i])
      /\ \A k \in 1..Len(memory.mods) : k < mod => ModuleSent(sent, k)
      /\ Covered(sent, mod, n)
      /\ \A i \in DOMAIN sent : sent[i][1] # "error" /\ sent[i][1] # "linked names"
  BY <1>1, <1>3 DEF SearchInv, SentInv, EndInv
<1>5. /\ x[1] = "datamap" /\ x[2] = mod /\ x[3] = dm
  OBVIOUS
<1>6. DatamapLooksValid(dm, g) => InSent(Append(sent, x), mod, dm)
  <2> HIDE DEF x
  <2>1. /\ Append(sent, x)[Len(sent) + 1] = x /\ Len(sent) \in Nat
        /\ DOMAIN Append(sent, x) = 1..(Len(sent) + 1)
    BY <1>4, AppendOne
  <2>2. Len(sent) + 1 \in DOMAIN Append(sent, x)
    BY <2>1
  <2> QED
    BY <2>1, <2>2 DEF InSent, x
<1>7. Covered(sent', mod, n + 1)
  <2> HIDE DEF dm, x
  <2>1. Covered(sent', mod, n)
    BY <1>1, <1>4, MoreSent
  <2>2. DatamapLooksValid(dm, g) => InSent(sent', mod, dm)
    BY <1>1, <1>6
  <2>3. n \in Int /\ \A j \in g.real[1]..(n + 1 - 1) : j \in g.real[1]..(n - 1) \/ j = n
    BY <1>2, <1>3
  <2> HIDE DEF n
  <2> QED
    BY <2>1, <2>2, <2>3 DEF Covered, dm
<1>8. \A i \in DOMAIN sent' : \/ i \in DOMAIN sent /\ sent'[i] = sent[i]
                              \/ sent'[i] = x /\ DatamapLooksValid(dm, g)
  <2> HIDE DEF dm, x, g
  <2>1. CASE DatamapLooksValid(dm, g)
    <3>1. sent' = Append(sent, x)
      BY <1>1, <2>1
    <3>2. \A i \in DOMAIN Append(sent, x) : \/ i \in DOMAIN sent /\ Append(sent, x)[i] = sent[i]
                                           \/ Append(sent, x)[i] = x
      BY <1>4, InAppended
    <3> QED
      BY <2>1, <3>1, <3>2
  <2>2. CASE ~DatamapLooksValid(dm, g)
    BY <1>1, <2>2
  <2> QED
    BY <2>1, <2>2
<1>9. IsSeq(sent')
  <2> HIDE DEF dm, x, g
  <2> QED
    BY <1>1, <1>4, AppendOne
<1>10. \A k \in 1..Len(memory.mods) : k < mod => ModuleSent(sent', k)
  <2> HIDE DEF dm, x, g
  <2> QED
    BY <1>1, <1>4, MoreSent
<1>11. TablesInv'
  BY <1>1 DEF SearchInv, TablesInv
<1> HIDE DEF x, dm, n
<1>12. \A i \in DOMAIN sent' : MessageOK(sent'[i])
  BY <1>2, <1>4, <1>5, <1>8 DEF MessageOK
<1>13. EndInv'
  <2>1. \A i \in DOMAIN sent' : sent'[i][1] # "error" /\ sent'[i][1] # "linked names"
    BY <1>4, <1>5, <1>8
  <2> QED
    BY <1>1, <2>1 DEF EndInv
<1>14. SentInv'
  <2>1. (\A i \in DOMAIN sent : MessageOK(sent[i]))'
    BY <1>1, <1>12 DEF MessageOK
  <2>2. (\A k \in 1..Len(memory.mods) : k < mod => ModuleSent(sent, k))'
    BY <1>1, <1>10 DEF ModuleSent, Covered
  <2>3. n + 1 = g.real[1] + pos' - 1
    BY <1>1, <1>2, <1>3
  <2>4. Covered(sent, mod, memory.mods[mod].real[1] + pos - 1)'
    BY <1>1, <1>7, <2>3 DEF Covered
  <2>5. spc' \notin Late \cup {"done"}
    BY <1>1 DEF Late
  <2>6. mod' \in 1..Len(memory'.mods) /\ pos' \in Nat \ {0}
    BY <1>1, <1>2
  <2> QED
    BY <1>9, <2>1, <2>2, <2>4, <2>5, <2>6 DEF SentInv
<1> QED
  BY <1>1, <1>11, <1>13, <1>14 DEF SearchInv

\* The table has been gone through, and so have those of the modules before.
LEMMA ModuleIsSent ==
    ASSUME SearchInv, spc = "iterate", ~InTable
    PROVE  \A k \in 1..Len(memory.mods) : k <= mod => ModuleSent(sent, k)
<1> DEFINE r == memory.mods[mod].real
<1>1. /\ mod \in 1..Len(memory.mods) /\ r[1] \in Nat /\ r[2] \in Nat /\ pos \in Nat \ {0}
      /\ r[1] + pos - 1 >= r[2]
  BY InIteration DEF InTable
<1>2. /\ \A k \in 1..Len(memory.mods) : k < mod => ModuleSent(sent, k)
      /\ Covered(sent, mod, r[1] + pos - 1)
  BY DEF SearchInv, SentInv
<1>3. Covered(sent, mod, r[2])
  <2> DEFINE g == memory.mods[mod]
             m == r[1] + pos - 1
  <2>1. \A j \in r[1]..(m - 1) : DatamapLooksValid(InitOf(g, j), g) => InSent(sent, mod, InitOf(g, j))
    <3> HIDE DEF m
    <3>1. Covered(sent, mod, m)
      BY <1>2 DEF m
    <3> QED
      BY <3>1 DEF Covered
  <2>2. \A j \in r[1]..(r[2] - 1) : j \in r[1]..(m - 1)
    BY <1>1
  <2> HIDE DEF m
  <2> QED
    BY <2>1, <2>2 DEF Covered
<1> QED
  BY <1>1, <1>2, <1>3 DEF ModuleSent

LEMMA EndOfModuleInv ==
    ASSUME SearchInv, EndOfModule
    PROVE  SearchInv'
<1>1. /\ spc = "iterate" /\ ~InTable /\ pos' = 1 /\ UNCHANGED <<memory, tables>>
      /\ \/ (\E what : sent' = Append(sent, <<"error", what>>)) /\ spc' = "left"
         \/ mod = Len(memory.mods) /\ spc' = "find_dict" /\ sent' = sent
         \/ mod # Len(memory.mods) /\ mod' = mod + 1 /\ UNCHANGED <<spc, sent>>
  BY DEF EndOfModule, SendErrAndExit, Send
<1>2. CASE (\E what : sent' = Append(sent, <<"error", what>>)) /\ spc' = "left"
  BY <1>1, <1>2, ErrorInv
<1>3. /\ mod \in 1..Len(memory.mods) /\ Len(memory.mods) \in Nat
      /\ \A k \in 1..Len(memory.mods) : k <= mod => ModuleSent(sent, k)
  BY <1>1, InIteration, ModuleIsSent
<1>4. TablesInv'
  <2>1. spc' # "static_inits"
    BY <1>1
  <2>2. spc = "iterate" /\ tables' = tables /\ memory' = memory
    BY <1>1
  <2> QED
    BY <2>1, <2>2 DEF SearchInv, TablesInv
<1>5. CASE mod = Len(memory.mods) /\ spc' = "find_dict" /\ sent' = sent
  <2>1. AllSent(sent)
    BY <1>3, <1>5 DEF AllSent
  <2>2. AllSent(sent)'
    BY <1>1, <1>5, <2>1 DEF AllSent, ModuleSent, Covered
  <2>3. (IsSeq(sent) /\ \A i \in DOMAIN sent : MessageOK(sent[i]))'
    BY <1>1, <1>5 DEF SearchInv, SentInv, MessageOK
  <2>4. SentInv'
    BY <1>5, <2>2, <2>3 DEF SentInv
  <2>5. EndInv'
    BY <1>1, <1>5 DEF SearchInv, EndInv, Late
  <2> QED
    BY <1>1, <1>4, <2>4, <2>5 DEF SearchInv
<1>6. CASE mod # Len(memory.mods) /\ mod' = mod + 1 /\ UNCHANGED <<spc, sent>>
  <2>1. mod + 1 \in 1..Len(memory.mods) /\ \A k \in 1..Len(memory.mods) : k < mod + 1 => k <= mod
    BY <1>3, <1>6
  <2>2. (\A k \in 1..Len(memory.mods) : k < mod => ModuleSent(sent, k))'
    BY <1>1, <1>3, <1>6, <2>1 DEF ModuleSent, Covered
  <2>3. (IsSeq(sent) /\ \A i \in DOMAIN sent : MessageOK(sent[i]))'
    BY <1>1, <1>6 DEF SearchInv, SentInv, MessageOK
  <2>4. memory.mods[mod + 1].real[1] \in Nat
    BY <1>1, <2>1, ModuleOK, SearchAssumption DEF SearchInv
  <2>5. \A a \in Nat : \A j \in a..(a + 1 - 1 - 1) : FALSE
    OBVIOUS
  <2>6. Covered(sent, mod, memory.mods[mod].real[1] + pos - 1)'
    BY <1>1, <1>6, <2>4, <2>5 DEF Covered
  <2>7. spc' \notin Late \cup {"done"}
    BY <1>1, <1>6 DEF Late
  <2>8. SentInv'
    BY <1>1, <1>6, <2>1, <2>2, <2>3, <2>6, <2>7 DEF SentInv
  <2>9. EndInv'
    BY <1>1, <1>6 DEF SearchInv, EndInv
  <2> QED
    BY <1>1, <1>4, <2>8, <2>9 DEF SearchInv
<1> QED
  BY <1>1, <1>2, <1>5, <1>6

-----------------------------------------------------------------------------
(* The dictionary of entity factories *)

\* What a step behind the datamaps sends: nothing, an error, or the linked names.
LateStep ==
    /\ spc \in Late /\ UNCHANGED <<memory, tables>>
    /\ \/ sent' = sent /\ spc' \in Late
       \/ (\E what : sent' = Append(sent, <<"error", what>>)) /\ spc' = "left"
       \/ sent' = Append(sent, <<"linked names", Len(packed), packed>>) /\ spc' = "done"

LEMMA EndOfFunctionSends ==
    ASSUME EndOfFunction, spc = "scan"
    PROVE  \/ sent' = sent /\ spc' \in Late
           \/ (\E what : sent' = Append(sent, <<"error", what>>)) /\ spc' = "left"
<1>1. CASE scan.dm # Null
  BY <1>1 DEF EndOfFunction, Late
<1>2. CASE scan.dm = Null /\ (scan.call = Invalid \/ scan.depth = 2)
  BY <1>2 DEF EndOfFunction, SendErrAndExit, Send
<1>3. CASE scan.dm = Null /\ ~(scan.call = Invalid \/ scan.depth = 2)
  BY <1>3 DEF EndOfFunction, Leave, SendErrAndExit, Send, Late
<1> QED
  BY <1>1, <1>2, <1>3

LEMMA VisitSends ==
    ASSUME NEW frames, NEW node, Visit(frames, node)
    PROVE  \/ sent' = sent /\ spc' \in Late
           \/ (\E what : sent' = Append(sent, <<"error", what>>)) /\ spc' = "left"
BY DEF Visit, Leave, SendErrAndExit, Send, Late

LEMMA ScanInstructionIsLate ==
    ASSUME ScanInstruction
    PROVE  LateStep
<1> DEFINE code == Dict.code[scan.fun]
           in   == code[scan.ip]
           next == [scan EXCEPT !.ip = @ + 1]
           Sends == \/ sent' = sent /\ spc' \in Late
                    \/ (\E what : sent' = Append(sent, <<"error", what>>)) /\ spc' = "left"
<1>1. spc = "scan" /\ UNCHANGED <<memory, tables>>
  BY DEF ScanInstruction
<1>2. \/ EndOfFunction
      \/ SendErrAndExit("instruction")
      \/ spc' = spc /\ sent' = sent
  <2>1. CASE scan.ip > MaxInstrs \/ scan.ip > Len(code)
    BY <2>1 DEF ScanInstruction
  <2>2. CASE ~(scan.ip > MaxInstrs \/ scan.ip > Len(code))
    BY <2>2 DEF ScanInstruction, Seen
  <2> QED
    BY <2>1, <2>2
<1>3. CASE EndOfFunction
  BY <1>1, <1>3, EndOfFunctionSends DEF LateStep, Late
<1>4. CASE SendErrAndExit("instruction")
  BY <1>1, <1>4 DEF LateStep, Late, SendErrAndExit, Send
<1>5. CASE spc' = spc /\ sent' = sent
  BY <1>1, <1>5 DEF LateStep, Late
<1> QED
  BY <1>2, <1>3, <1>4, <1>5

LEMMA EntNextIsLate ==
    ASSUME EntNext
    PROVE  LateStep
<1>1. CASE FindEntFactoryDict
  BY <1>1 DEF FindEntFactoryDict, LateStep, Late, SendErrAndExit, Send
<1>2. CASE SendEntFactoryKv
  <2>1. CASE Dict.nodes_ok
    BY <1>2, <2>1, VisitSends DEF SendEntFactoryKv, LateStep, Late
  <2>2. CASE ~Dict.nodes_ok
    BY <1>2, <2>2 DEF SendEntFactoryKv, LateStep, Late, Leave, SendErrAndExit, Send
  <2> QED
    BY <2>1, <2>2
<1>3. CASE TraverseLeft
  <2>1. spc = "traverse" /\ UNCHANGED <<memory, tables>>
    BY <1>3 DEF TraverseLeft
  <2>2. \/ sent' = sent /\ spc' = spc
        \/ \E frames, node : Visit(frames, node)
    BY <1>3 DEF TraverseLeft
  <2> QED
    BY <2>1, <2>2, VisitSends DEF LateStep, Late
<1>4. CASE TraverseNode
  BY <1>4 DEF TraverseNode, LateStep, Late, Leave, SendErrAndExit, Send
<1>5. CASE TraverseRight
  <2>1. spc = "traverse" /\ UNCHANGED <<memory, tables>>
    BY <1>5 DEF TraverseRight
  <2>2. \/ sent' = sent /\ spc' = spc
        \/ \E frames, node : Visit(frames, node)
    BY <1>5 DEF TraverseRight
  <2> QED
    BY <2>1, <2>2, VisitSends DEF LateStep, Late
<1>6. CASE Return
  BY <1>6 DEF Return, LateStep, Late, search_vars
<1>7. CASE EndTraverse
  <2>1. CASE Dict.count = Len(packed)
    BY <1>7, <2>1 DEF EndTraverse, LateStep, Late, Send
  <2>2. CASE Dict.count # Len(packed)
    BY <1>7, <2>2 DEF EndTraverse, LateStep, Late, Leave, SendErrAndExit, Send
  <2> QED
    BY <2>1, <2>2
<1>8. CASE ScanInstruction
  BY <1>8, ScanInstructionIsLate
<1> QED
  BY <1>1, <1>2, <1>3, <1>4, <1>5, <1>6, <1>7, <1>8 DEF EntNext

LEMMA LateStepInv ==
    ASSUME SearchInv, LateStep
    PROVE  SearchInv'
<1>1. /\ spc \in Late /\ memory' = memory /\ tables' = tables
      /\ spc # "static_inits" /\ spc # "iterate" /\ spc # "left" /\ spc # "done"
      /\ IsSeq(sent) /\ AllSent(sent) /\ \A i \in DOMAIN sent : MessageOK(sent[i])
      /\ \A i \in DOMAIN sent : sent[i][1] # "error" /\ sent[i][1] # "linked names"
  BY DEF LateStep, SearchInv, SentInv, EndInv, Late
<1>2. CASE sent' = sent /\ spc' \in Late
  <2>1. spc' # "static_inits" /\ spc' # "iterate" /\ spc' # "left" /\ spc' # "done"
    BY <1>2 DEF Late
  <2>2. TablesInv'
    BY <1>1, <2>1 DEF SearchInv, TablesInv
  <2>3. SentInv'
    BY <1>1, <1>2, <2>1 DEF SentInv, AllSent, ModuleSent, Covered, MessageOK
  <2>4. EndInv'
    BY <1>1, <1>2, <2>1 DEF EndInv
  <2> QED
    BY <1>1, <2>2, <2>3, <2>4 DEF SearchInv
<1>3. CASE (\E what : sent' = Append(sent, <<"error", what>>)) /\ spc' = "left"
  BY <1>1, <1>3, ErrorInv
<1>4. CASE sent' = Append(sent, <<"linked names", Len(packed), packed>>) /\ spc' = "done"
  <2> DEFINE x == <<"linked names", Len(packed), packed>>
  <2>1. x[1] = "linked names"
    OBVIOUS
  <2> HIDE DEF x
  <2>2. sent' = Append(sent, x)
    BY <1>4 DEF x
  <2>3. AllSent(sent')
    BY <1>1, <2>2, MoreSent
  <2>4. AllSent(sent)'
    BY <1>1, <2>3 DEF AllSent, ModuleSent, Covered
  <2>5. /\ IsSeq(sent') /\ Len(sent) \in Nat /\ Len(sent') = Len(sent) + 1
        /\ \A i \in DOMAIN sent' : \/ i \in DOMAIN sent /\ i # Len(sent) + 1 /\ sent'[i] = sent[i]
                                   \/ i = Len(sent) + 1 /\ sent'[i] = x
    <3>1. IsSeq(sent)
      BY <1>1
    <3>2. IsSeq(Append(sent, x)) /\ Len(sent) \in Nat /\ Len(Append(sent, x)) = Len(sent) + 1
      BY <3>1, AppendOne
    <3>3. \A i \in DOMAIN Append(sent, x) :
             \/ i \in DOMAIN sent /\ i # Len(sent) + 1 /\ Append(sent, x)[i] = sent[i]
             \/ i = Len(sent) + 1 /\ Append(sent, x)[i] = x
      BY <3>1, AppendOne
    <3> QED
      BY <2>2, <3>2, <3>3
  <2>6. \A i \in DOMAIN sent' : MessageOK(sent'[i])
    BY <1>1, <2>1, <2>5 DEF MessageOK
  <2>7. (\A i \in DOMAIN sent : MessageOK(sent[i]))'
    BY <1>1, <2>6 DEF MessageOK
  <2>8. SentInv'
    BY <1>4, <2>4, <2>5, <2>7 DEF SentInv
  <2>9. ASSUME NEW i \in DOMAIN sent'
         PROVE  (sent'[i][1] = "linked names" <=> i = Len(sent')) /\ sent'[i][1] # "error"
    <3>1. CASE i = Len(sent) + 1
      BY <2>1, <2>5, <3>1
    <3>2. CASE i # Len(sent) + 1
      BY <1>1, <2>5, <3>2
    <3> QED
      BY <3>1, <3>2
  <2>10. EndInv'
    <3>1. Len(sent') # 0
      BY <2>5
    <3>2. \A i \in DOMAIN sent' : /\ sent'[i][1] = "error" <=> spc' = "left" /\ i = Len(sent')
                                  /\ sent'[i][1] = "linked names" <=> spc' = "done" /\ i = Len(sent')
      BY <1>4, <2>9
    <3>3. spc' \in {"static_inits", "iterate", "left", "done"} \cup Late
      BY <1>4
    <3> QED
      BY <3>1, <3>2, <3>3 DEF EndInv
  <2>11. TablesInv'
    BY <1>1, <1>4 DEF SearchInv, TablesInv
  <2> QED
    BY <1>1, <2>8, <2>10, <2>11 DEF SearchInv
<1> QED
  BY <1>2, <1>3, <1>4 DEF LateStep

LEMMA StepSearch == SearchInv /\ [Next]_vars => SearchInv'
<1> SUFFICES ASSUME SearchInv, [Next]_vars PROVE SearchInv'
  OBVIOUS
<1>1. CASE FindStaticInits
  BY <1>1, FindStaticInitsInv
<1>2. CASE IterateDatamaps
  BY <1>2, IterateDatamapsInv
<1>3. CASE EndOfModule
  BY <1>3, EndOfModuleInv
<1>4. CASE EntNext
  BY <1>4, EntNextIsLate, LateStepInv
<1>5. CASE UNCHANGED vars
  <2>1. UNCHANGED <<memory, spc, mod, pos, tables, sent>>
    BY <1>5 DEF vars, search_vars
  <2> QED
    BY <2>1 DEF SearchInv, TablesInv, SentInv, EndInv, MessageOK, AllSent, ModuleSent, Covered
<1> QED
  BY <1>1, <1>2, <1>3, <1>4, <1>5 DEF Next, SearchNext

-----------------------------------------------------------------------------
(* Theorems *)

\* SearchInv is inductive.
THEOREM SearchedSoFar == Spec => []SearchInv
<1>1. SearchInv /\ [Next]_vars => SearchInv'
  BY StepSearch
<1> QED
  BY <1>1, InitSearch, PTL DEF Spec

\* What the search sends is whole: only the table that the game itself runs is
\* searched, whatever datamap is sent all that it refers to is sound, and when the
\* linked names are sent every datamap that the game sets up has been (ch_search.c).
THEOREM WholeIsSent == Spec => []SentIsWhole
<1>1. SearchInv => SentIsWhole
  <2> SUFFICES ASSUME SearchInv PROVE SentIsWhole
    OBVIOUS
  <2>1. \A k \in DOMAIN tables : tables[k] = memory.mods[k].real
    BY DEF SearchInv, TablesInv
  <2>2. ASSUME NEW m \in Messages("datamap") PROVE IsWhole(memory.mods[m[2]].maps, m[3])
    <3>1. m[2] \in 1..Len(memory.mods) /\ DatamapLooksValid(m[3], memory.mods[m[2]])
      BY DEF Messages, SearchInv, SentInv, MessageOK
    <3>2. memory.mods[m[2]] \in Modules
      BY <3>1, ModuleOK DEF SearchInv
    <3> QED
      BY <3>1, <3>2, ValidIsWhole
  <2>3. ASSUME Messages("linked names") # {}, NEW k \in DOMAIN memory.mods,
               NEW d \in memory.mods[k].set_up
        PROVE  <<"datamap", k, d>> \in Messages("datamap")
    <3> DEFINE g == memory.mods[k]
    <3>1. AllSent(sent)
      BY <2>3 DEF Messages, SearchInv, SentInv, EndInv
    <3>2. k \in 1..Len(memory.mods)
      BY SearchAssumption DEF SearchInv
    <3>3. g \in Modules
      BY <3>2, ModuleOK DEF SearchInv
    <3>4. DatamapLooksValid(d, g) /\ \E j \in g.real[1]..(g.real[2] - 1) : InitOf(g, j) = d
      BY <3>3, MapsAssumption
    <3>5. Covered(sent, k, g.real[2])
      BY <3>1, <3>2 DEF AllSent, ModuleSent
    <3>6. InSent(sent, k, d)
      BY <3>4, <3>5 DEF Covered
    <3>7. PICK i \in DOMAIN sent : sent[i] = <<"datamap", k, d>>
      BY <3>6 DEF InSent
    <3>8. sent[i][1] = "datamap"
      BY <3>7
    <3> QED
      BY <3>7, <3>8 DEF Messages
  <2> QED
    BY <2>1, <2>2, <2>3 DEF SentIsWhole
<1> QED
  BY <1>1, SearchedSoFar, PTL

\* The exe is told once how the search ended, with the last message: with the linked
\* names if it was gone through with, with an error if it was not, and not both
\* (ch_send_err_and_exit, ch_send_ent_factory_kv).
EndIsTold ==
    /\ spc \in {"left", "done"} => sent # <<>>
    /\ \A i \in DOMAIN sent :
          /\ sent[i][1] = "error" <=> spc = "left" /\ i = Len(sent)
          /\ sent[i][1] = "linked names" <=> spc = "done" /\ i = Len(sent)

THEOREM EndIsToldOnce == Spec => []EndIsTold
<1>1. SearchInv => EndIsTold
  <2>1. Len(<<>>) = 0
    OBVIOUS
  <2> QED
    BY <2>1 DEF SearchInv, EndInv, EndIsTold
<1> QED
  BY <1>1, SearchedSoFar, PTL

-----------------------------------------------------------------------------
(* Linked names *)

\* A datamap of the server.
OfServer(d) == DatamapLooksValid(d, Server)

ScanOK(s) == "dm" \in DOMAIN s /\ (s.dm = Null \/ OfServer(s.dm))

LinksOK(m) ==
    m[1] = "linked names" => m[2] = Len(m[3]) /\ \A j \in DOMAIN m[3] : OfServer(m[3][j][2])

LinkInv ==
    /\ ScanOK(scan)
    /\ IsSeq(packed) /\ \A j \in DOMAIN packed : OfServer(packed[j][2])
    /\ IsSeq(sent) /\ \A i \in DOMAIN sent : LinksOK(sent[i])

LEMMA InitLinks == EntInit => LinkInv
<1>1. IsSeq(<<>>) /\ DOMAIN <<>> = {} /\ "dm" \in DOMAIN NoScan /\ NoScan.dm = Null
  BY DEF IsSeq, NoScan
<1> QED
  BY <1>1 DEF EntInit, SearchInit, LinkInv, ScanOK

\* What becomes of the locals of ch_process_factory_dict_node.
LEMMA ScanStays ==
    ASSUME NEW s, ScanOK(s), NEW t, DOMAIN t = DOMAIN s, t.dm = s.dm
    PROVE  ScanOK(t)
BY DEF ScanOK

LEMMA FoundIsOfServer ==
    ASSUME NEW vt, DatamapOf(vt) # Null
    PROVE  OfServer(DatamapOf(vt))
BY DEF DatamapOf, Getters, OfServer

\* A step leaves the locals as they should be, and adds to the pairs one whose datamap
\* is that of the locals, or begins with them.
ScanStep ==
    /\ ScanOK(scan')
    /\ \/ packed' = packed \/ packed' = <<>>
       \/ \E k : packed' = Append(packed, <<k, scan.dm>>) /\ scan.dm # Null

LEMMA EndOfFunctionScans ==
    ASSUME ScanOK(scan), EndOfFunction
    PROVE  ScanStep
<1>1. CASE scan.dm # Null
  <2>1. scan' = NoScan /\ packed' = Append(packed, <<Dict.nodes[Top.node].k, scan.dm>>)
    BY <1>1 DEF EndOfFunction
  <2>2. ScanOK(NoScan)
    BY DEF ScanOK, NoScan
  <2> QED
    BY <1>1, <2>1, <2>2 DEF ScanStep
<1>2. CASE scan.dm = Null
  <2> DEFINE s == [scan EXCEPT !.fun = scan.call, !.ip = 1, !.depth = @ + 1, !.call = Invalid]
  <2>1. packed' = packed /\ (scan' = scan \/ scan' = s)
    BY <1>2 DEF EndOfFunction
  <2>2. DOMAIN s = DOMAIN scan /\ s.dm = scan.dm
    BY DEF ScanOK
  <2> HIDE DEF s
  <2> QED
    BY <2>1, <2>2, ScanStays DEF ScanStep
<1> QED
  BY <1>1, <1>2

LEMMA ScanInstructionScans ==
    ASSUME ScanOK(scan), ScanInstruction
    PROVE  ScanStep
<1> DEFINE code == Dict.code[scan.fun]
           in   == code[scan.ip]
           vt   == Dict.vts[in.arg]
           next == [scan EXCEPT !.ip = @ + 1]
           found == [next EXCEPT !.dm = DatamapOf(vt)]
           called == [next EXCEPT !.call = in.arg]
           jumped == AfterJump(next)
<1>1. \/ EndOfFunction
      \/ packed' = packed /\ \/ scan' = scan \/ scan' = next \/ scan' = called \/ scan' = jumped
                             \/ scan' = found /\ DatamapOf(vt) # Null
  <2>1. CASE scan.ip > MaxInstrs \/ scan.ip > Len(code)
    BY <2>1 DEF ScanInstruction
  <2>2. CASE ~(scan.ip > MaxInstrs \/ scan.ip > Len(code))
    BY <2>2 DEF ScanInstruction, Seen
  <2> QED
    BY <2>1, <2>2
<1>2. DOMAIN next = DOMAIN scan /\ next.dm = scan.dm
  BY DEF ScanOK
<1>3. DOMAIN called = DOMAIN scan /\ called.dm = scan.dm
  BY DEF ScanOK
<1>4. DOMAIN jumped = DOMAIN scan /\ jumped.dm = scan.dm
  BY DEF ScanOK, AfterJump
<1>5. DOMAIN found = DOMAIN scan /\ "dm" \in DOMAIN found /\ found.dm = DatamapOf(vt)
  BY DEF ScanOK
<1> HIDE DEF next, called, jumped, found, vt
<1>6. CASE EndOfFunction
  BY <1>6, EndOfFunctionScans
<1>7. CASE packed' = packed /\ (scan' = scan \/ scan' = next \/ scan' = called \/ scan' = jumped)
  BY <1>2, <1>3, <1>4, <1>7, ScanStays DEF ScanStep
<1>8. CASE packed' = packed /\ scan' = found /\ DatamapOf(vt) # Null
  BY <1>5, <1>8, FoundIsOfServer DEF ScanStep, ScanOK
<1> QED
  BY <1>1, <1>6, <1>7, <1>8

LEMMA NextScans ==
    ASSUME ScanOK(scan), Next
    PROVE  ScanStep
<1>1. CASE UNCHANGED <<packed, scan>>
  BY <1>1 DEF ScanStep
<1>2. CASE packed' = <<>> /\ scan' = scan
  BY <1>2 DEF ScanStep
<1>3. CASE FindEntFactoryDict
  <2>1. packed' \in {packed, <<>>} /\ scan' = scan
    BY <1>3 DEF FindEntFactoryDict
  <2> QED
    BY <1>1, <1>2, <2>1
<1>4. CASE TraverseNode
  <2> DEFINE s == [NoScan EXCEPT !.fun = Dict.nodes[Top.node].create]
  <2>1. packed' = packed /\ (scan' = scan \/ scan' = s)
    BY <1>4 DEF TraverseNode
  <2>2. "dm" \in DOMAIN s /\ s.dm = Null
    BY DEF NoScan
  <2> HIDE DEF s
  <2> QED
    BY <2>1, <2>2 DEF ScanStep, ScanOK
<1>5. CASE ScanInstruction
  BY <1>5, ScanInstructionScans
<1>6. CASE \/ SearchNext /\ UNCHANGED ent_vars
           \/ SendEntFactoryKv
           \/ TraverseLeft
           \/ TraverseRight
           \/ Return
           \/ EndTraverse
  BY <1>1, <1>6 DEF ent_vars, SendEntFactoryKv, TraverseLeft, TraverseRight, Return, EndTraverse
<1> QED
  BY <1>3, <1>4, <1>5, <1>6 DEF Next, EntNext

\* What is sent is not linked names, or it is the pairs, with their number.
LEMMA NextSends ==
    ASSUME Next
    PROVE  /\ memory' = memory
           /\ \/ sent' = sent
              \/ \E x : sent' = Append(sent, x) /\ x[1] # "linked names"
              \/ sent' = Append(sent, <<"linked names", Len(packed), packed>>)
<1> DEFINE Other == \E x : sent' = Append(sent, x) /\ x[1] # "linked names"
<1>1. ASSUME NEW what, sent' = Append(sent, <<"error", what>>) PROVE Other
  <2> DEFINE x == <<"error", what>>
  <2>1. x[1] # "linked names"
    OBVIOUS
  <2> HIDE DEF x
  <2>2. sent' = Append(sent, x)
    BY <1>1 DEF x
  <2> QED
    BY <2>1, <2>2
<1>2. ASSUME NEW k, NEW d, sent' = Append(sent, <<"datamap", k, d>>) PROVE Other
  <2> DEFINE x == <<"datamap", k, d>>
  <2>1. x[1] # "linked names"
    OBVIOUS
  <2> HIDE DEF x
  <2>2. sent' = Append(sent, x)
    BY <1>2 DEF x
  <2> QED
    BY <2>1, <2>2
<1> HIDE DEF Other
<1>3. CASE FindStaticInits
  <2>1. memory' = memory /\ (sent' = sent \/ \E what : sent' = Append(sent, <<"error", what>>))
    BY <1>3 DEF FindStaticInits, SendErrAndExit, Send
  <2> QED
    BY <1>1, <2>1 DEF Other
<1>4. CASE IterateDatamaps
  <2>1. memory' = memory /\ (sent' = sent \/ \E k, d : sent' = Append(sent, <<"datamap", k, d>>))
    BY <1>4 DEF IterateDatamaps, Send
  <2> QED
    BY <1>2, <2>1 DEF Other
<1>5. CASE EndOfModule
  <2>1. memory' = memory /\ (sent' = sent \/ \E what : sent' = Append(sent, <<"error", what>>))
    BY <1>5 DEF EndOfModule, SendErrAndExit, Send
  <2> QED
    BY <1>1, <2>1 DEF Other
<1>6. CASE EntNext
  <2>1. LateStep
    BY <1>6, EntNextIsLate
  <2> QED
    BY <1>1, <2>1 DEF LateStep, Other
<1> QED
  BY <1>3, <1>4, <1>5, <1>6 DEF Next, SearchNext

LEMMA StepLinks == SearchInv /\ LinkInv /\ [Next]_vars => LinkInv'
<1> SUFFICES ASSUME SearchInv, LinkInv, [Next]_vars PROVE LinkInv'
  OBVIOUS
<1>1. CASE Next
  <2>1. ScanStep
    BY <1>1, NextScans DEF LinkInv
  <2>2. /\ memory' = memory
        /\ \/ sent' = sent
           \/ \E x : sent' = Append(sent, x) /\ x[1] # "linked names"
           \/ sent' = Append(sent, <<"linked names", Len(packed), packed>>)
    BY <1>1, NextSends
  <2>3. IsSeq(packed') /\ \A j \in DOMAIN packed' : OfServer(packed'[j][2])
    <3>1. CASE packed' = packed
      BY <3>1 DEF LinkInv
    <3>2. CASE packed' = <<>>
      BY <3>2 DEF IsSeq
    <3>3. CASE \E k : packed' = Append(packed, <<k, scan.dm>>) /\ scan.dm # Null
      <4>1. PICK k : packed' = Append(packed, <<k, scan.dm>>)
        BY <3>3
      <4> DEFINE x == <<k, scan.dm>>
      <4>2. OfServer(x[2])
        BY <3>3 DEF LinkInv, ScanOK
      <4> HIDE DEF x
      <4>3. packed' = Append(packed, x)
        BY <4>1 DEF x
      <4>4. IsSeq(Append(packed, x))
        BY AppendOne DEF LinkInv
      <4>5. \A j \in DOMAIN Append(packed, x) : OfServer(Append(packed, x)[j][2])
        BY <4>2, InAppended DEF LinkInv
      <4> QED
        BY <4>3, <4>4, <4>5
    <3> QED
      BY <2>1, <3>1, <3>2, <3>3 DEF ScanStep
  <2>4. IsSeq(sent') /\ \A i \in DOMAIN sent' : LinksOK(sent'[i])
    <3>1. CASE sent' = sent
      BY <3>1 DEF LinkInv
    <3>2. ASSUME NEW x, sent' = Append(sent, x), LinksOK(x)
          PROVE  IsSeq(sent') /\ \A i \in DOMAIN sent' : LinksOK(sent'[i])
      <4>1. IsSeq(Append(sent, x))
        BY AppendOne DEF LinkInv
      <4>2. \A i \in DOMAIN Append(sent, x) : LinksOK(Append(sent, x)[i])
        BY <3>2, InAppended DEF LinkInv
      <4> QED
        BY <3>2, <4>1, <4>2
    <3>3. \A x : x[1] # "linked names" => LinksOK(x)
      BY DEF LinksOK
    <3>4. LinksOK(<<"linked names", Len(packed), packed>>)
      BY DEF LinksOK, LinkInv
    <3> QED
      BY <2>2, <3>1, <3>2, <3>3, <3>4
  <2> QED
    BY <2>1, <2>2, <2>3, <2>4 DEF ScanStep, LinkInv, ScanOK, OfServer, Server, LinksOK
<1>2. CASE UNCHANGED vars
  BY <1>2 DEF vars, search_vars, ent_vars, LinkInv, ScanOK, OfServer, Server, LinksOK
<1> QED
  BY <1>1, <1>2

\* The linked names are as many as their message announces, and the datamap each
\* entity is linked to is one of the server with all it refers to, wherever the
\* disassembly of the functions that create it has led (ch_process_factory_dict_node).
LinkedIsWhole ==
    \A m \in Messages("linked names") :
        m[2] = Len(m[3]) /\ \A j \in DOMAIN m[3] : IsWhole(Server.maps, m[3][j][2])

THEOREM LinkedDatamapsAreWhole == Spec => []LinkedIsWhole
<1>1. \A n \in Nat \ {0} : 1 \in 1..n
  OBVIOUS
<1>2. SearchInv /\ LinkInv => LinkedIsWhole
  <2> SUFFICES ASSUME SearchInv, LinkInv, NEW m \in Messages("linked names")
               PROVE  m[2] = Len(m[3]) /\ \A j \in DOMAIN m[3] : IsWhole(Server.maps, m[3][j][2])
    BY DEF LinkedIsWhole
  <2>1. PICK i \in DOMAIN sent : m = sent[i] /\ sent[i][1] = "linked names"
    BY DEF Messages
  <2>2. LinksOK(m)
    BY <2>1 DEF LinkInv
  <2>3. m[1] = "linked names"
    BY <2>1
  <2>4. m[2] = Len(m[3]) /\ \A j \in DOMAIN m[3] : OfServer(m[3][j][2])
    BY <2>3, <2>2 DEF LinksOK
  <2>5. memory \in Memories
    BY DEF SearchInv
  <2>6. Len(memory.mods) \in Nat \ {0}
    BY <2>5, SearchAssumption, Zenon
  <2>7. 1 \in 1..Len(memory.mods)
    BY <2>6, <1>1, Zenon
  <2>8. Server \in Modules
    BY <2>5, <2>7, ModuleOK DEF Server
  <2> QED
    BY <2>4, <2>8, ValidIsWhole DEF OfServer
<1> QED
  BY <1>2, InitLinks, StepLinks, SearchedSoFar, PTL DEF Spec
=============================================================================
