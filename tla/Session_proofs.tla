--------------------------- MODULE Session_proofs ---------------------------
(***************************************************************************)
(* Proofs about Session, for every game - any number of modules, datamaps  *)
(* and messages, and any way datamaps refer to each other -, every result  *)
(* of the search, every pipe and every number of processes: whatever fails *)
(* and whoever dies.  Those about the message context come first: they are *)
(* about any client, which may send any message at any time, and hold of   *)
(* the payload because a session is a receiver (SessionIsReceiver).        *)
(***************************************************************************)
EXTENDS Session, TLAPS
-----------------------------------------------------------------------------
(* The message context, with any client *)

\* What is packed for a datamap is a set of datamaps that contains it ...
LEMMA VisitedSelf ==
    ASSUME NEW d \in DataMap
    PROVE  d \in Visited[d] /\ Visited[d] \subseteq DataMap
BY DEF Visited

\* ... and all that the members of the set refer to.
LEMMA PartsAreMaps ==
    ASSUME NEW d \in DataMap
    PROVE  Parts(d) \subseteq DataMap
BY GraphAssumption DEF Parts

LEMMA VisitedClosed ==
    ASSUME NEW d \in DataMap
    PROVE  Closed(Visited[d])
<1> SUFFICES ASSUME NEW e \in Visited[d], NEW p \in Parts(e)
             PROVE  p \in Visited[d]
  BY DEF Closed
<1>1. e \in DataMap /\ p \in DataMap
  BY VisitedSelf, PartsAreMaps
<1>2. ASSUME NEW S \in SUBSET DataMap, d \in S, Closed(S)
      PROVE  p \in S
  <2>1. e \in S
    BY <1>2 DEF Visited
  <2> QED
    BY <1>2, <2>1 DEF Closed
<1> QED
  BY <1>1, <1>2 DEF Visited

LEMMA ClosedUnion ==
    ASSUME NEW S, NEW T, Closed(S), Closed(T)
    PROVE  Closed(S \cup T)
BY DEF Closed

\* What a message of each type carries.
LEMMA MessageData ==
    ASSUME NEW m \in Message
    PROVE  /\ m.type = "DATAMAP" => \E d \in DataMap : m = DatamapMsg(d)
           /\ m.type = "LINKED_NAME" => m.data \in LinkMaps
           /\ m.type = "LINKED_NAME" => m = LinkedNameMsg(m.data)
           /\ m.type # "NONE"
BY DEF Message, Hello, Goodbye, LogInfo, LogError, Bad, Unknown, DatamapMsg,
       LinkedNameMsg

LEMMA DatamapMessage ==
    ASSUME NEW m \in Message, m.type = "DATAMAP"
    PROVE  m.data \subseteq DataMap /\ Closed(m.data)
<1>1. PICK d \in DataMap : m = DatamapMsg(d)
  BY MessageData
<1>2. m.data = Visited[d]
  BY <1>1 DEF DatamapMsg
<1> QED
  BY <1>2, VisitedSelf, VisitedClosed
-----------------------------------------------------------------------------
\* Writing a message into a free head zone adds what it carries.
LEMMA KeptInHead ==
    ASSUME NEW Z, NEW u \in Seq(Z), u # <<>>, u[Len(u)] = NoMsg,
           NEW m, NEW type, type # "NONE"
    PROVE  KeptData([u EXCEPT ![Len(u)] = m], type)
               = KeptData(u, type) \cup (IF m.type = type THEN m.data ELSE {})
<1> DEFINE v == [u EXCEPT ![Len(u)] = m]
<1>1. Len(u) \in DOMAIN u /\ DOMAIN v = DOMAIN u /\ v[Len(u)] = m
  OBVIOUS
<1>2. \A i \in DOMAIN u : i # Len(u) => v[i] = u[i]
  OBVIOUS
<1>3. u[Len(u)].type # type
  BY DEF NoMsg
<1> HIDE DEF v
<1>4. ASSUME NEW x \in KeptData(v, type)
      PROVE  x \in KeptData(u, type) \cup (IF m.type = type THEN m.data ELSE {})
  <2>1. PICK i \in DOMAIN v : v[i].type = type /\ x \in v[i].data
    BY <1>4 DEF KeptData
  <2>2. CASE i = Len(u)
    BY <1>1, <2>1, <2>2
  <2>3. CASE i # Len(u)
    BY <1>1, <1>2, <2>1, <2>3 DEF KeptData
  <2> QED
    BY <2>2, <2>3
<1>5. ASSUME NEW x \in KeptData(u, type)
      PROVE  x \in KeptData(v, type)
  <2>1. PICK i \in DOMAIN u : u[i].type = type /\ x \in u[i].data
    BY <1>5 DEF KeptData
  <2>2. i # Len(u)
    BY <1>3, <2>1
  <2> QED
    BY <1>1, <1>2, <2>1, <2>2 DEF KeptData
<1>6. ASSUME m.type = type, NEW x \in m.data
      PROVE  x \in KeptData(v, type)
  BY <1>1, <1>6 DEF KeptData
<1> QED
  BY <1>4, <1>5, <1>6 DEF v

\* A new free zone carries nothing.
LEMMA KeptWithNewHead ==
    ASSUME NEW Z, NEW u \in Seq(Z), NEW type, type # "NONE"
    PROVE  KeptData(Append(u, NoMsg), type) = KeptData(u, type)
<1> DEFINE v == Append(u, NoMsg)
<1>1. DOMAIN v = DOMAIN u \cup {Len(u) + 1} /\ v[Len(u) + 1].type # type
  BY DEF NoMsg
<1>2. \A i \in DOMAIN u : v[i] = u[i]
  OBVIOUS
<1> HIDE DEF v
<1>3. {i \in DOMAIN v : v[i].type = type} = {i \in DOMAIN u : u[i].type = type}
  BY <1>1, <1>2
<1>4. {v[i].data : i \in {j \in DOMAIN v : v[j].type = type}}
        = {u[i].data : i \in {j \in DOMAIN u : u[j].type = type}}
  BY <1>2, <1>3
<1> QED
  BY <1>4 DEF v, KeptData
-----------------------------------------------------------------------------
\* Between two messages the head zone is free, and nothing stored is in it.
HeadIsFree ==
    result = "ok" =>
        /\ unpacked[HeadZone] = NoMsg
        /\ \A e \in dm_hashmap : e.at < HeadZone
        /\ linked_names.at < HeadZone

\* What is stored is what the kept zones carried.
StoredIsKept ==
    Live =>
        /\ Stored = KeptData(unpacked, "DATAMAP")
        /\ linked_names.links = KeptData(unpacked, "LINKED_NAME")

\* The file is written last.
NotWrittenYet == Live => file.state # "new"

IInv ==
    /\ RTypeOK
    /\ NoDangling
    /\ PartsStored
    /\ NamesUnique
    /\ LinksResolve
    /\ FileIsWhatWasKept
    /\ HeadIsFree
    /\ StoredIsKept
    /\ NotWrittenYet

LEMMA InitIInv == RInit => IInv
<1> SUFFICES ASSUME RInit PROVE IInv
  OBVIOUS
<1> USE DEF RInit
<1>1. unpacked = <<NoMsg>> /\ Len(unpacked) = 1 /\ unpacked[1] = NoMsg
  OBVIOUS
<1>2. Stored = {} /\ linked_names.links = {} /\ linked_names.at = 0
  BY DEF Stored
<1>3. RTypeOK
  <2>1. unpacked \in Seq(Message \cup {NoMsg}) /\ unpacked # <<>> /\ HeadZone = 1
    BY <1>1 DEF HeadZone
  <2>2. linked_names \in [links : LinkMaps \cup {{}}, at : 0..HeadZone]
    BY <2>1
  <2> QED
    BY <2>1, <2>2 DEF RTypeOK, FileTypeOK
<1>4. NoDangling /\ PartsStored /\ NamesUnique /\ LinksResolve
  BY <1>1, <1>2 DEF NoDangling, PartsStored, Closed, NamesUnique, Clash,
                    LinksResolve
<1>5. file.state # "new"
  BY DEF OldFile
<1>6. HeadIsFree
  BY <1>1, <1>2 DEF HeadIsFree, HeadZone
<1>7. \A type : type # "NONE" => KeptData(unpacked, type) = {}
  BY <1>1 DEF KeptData, NoMsg
<1>8. StoredIsKept
  BY <1>2, <1>7 DEF StoredIsKept
<1> QED
  BY <1>3, <1>4, <1>5, <1>6, <1>8 DEF IInv, FileIsWhatWasKept, NotWrittenYet

\* A call that fails ends the use of the context: only types matter after it.
LEMMA DeadIInv ==
    ASSUME RTypeOK', ~Live', file'.state # "new"
    PROVE  IInv'
BY DEF IInv, NoDangling, PartsStored, NamesUnique, LinksResolve,
       FileIsWhatWasKept, HeadIsFree, StoredIsKept, NotWrittenYet, Live

\* The head zone is replaced in place.
LEMMA UnpackType ==
    ASSUME IInv, NEW m \in Message
    PROVE  /\ Unpack(m) \in Seq(Message \cup {NoMsg})
           /\ Len(Unpack(m)) = HeadZone /\ HeadZone \in Nat \ {0}
           /\ Unpack(m)[HeadZone] = m
           /\ \A i \in 1..(HeadZone - 1) : Unpack(m)[i] = unpacked[i]
BY DEF IInv, RTypeOK, Unpack, HeadZone

LEMMA FailIInv ==
    ASSUME IInv, NEW m \in Message, Live,
           NEW why \in {"finished", "error", "bad_format", "oom"}, Fail(m, why),
           dm_hashmap' \in SUBSET [dm : DataMap, at : 1..HeadZone],
           linked_names' \in [links : LinkMaps \cup {{}}, at : 0..HeadZone],
           UNCHANGED <<got_hello, file>>
    PROVE  IInv'
<1>1. /\ unpacked' \in Seq(Message \cup {NoMsg})
      /\ HeadZone' = HeadZone /\ unpacked' # <<>>
  BY UnpackType DEF Fail, HeadZone
<1>2. RTypeOK'
  BY <1>1 DEF IInv, RTypeOK, FileTypeOK, Fail
<1>3. ~Live' /\ file'.state # "new"
  BY DEF Fail, Live, IInv, NotWrittenYet
<1> QED
  BY <1>2, <1>3, DeadIInv

\* A zone that is reused was free before the message came.
LEMMA ReuseZoneIInv ==
    ASSUME IInv, result = "ok", ReuseZone, got_hello' \in BOOLEAN,
           UNCHANGED <<dm_hashmap, linked_names, file>>
    PROVE  IInv'
<1>1. unpacked' = unpacked /\ result' = result
  BY DEF ReuseZone, IInv, HeadIsFree, RTypeOK, HeadZone
<1> QED
  BY <1>1 DEF IInv, RTypeOK, FileTypeOK, HeadZone, NoDangling, PartsStored,
        NamesUnique, LinksResolve, Known, FileIsWhatWasKept, HeadIsFree,
        StoredIsKept, NotWrittenYet, Live, Stored

\* A zone that is kept: the message stays in it, and a free head follows.
LEMMA KeepZoneFacts ==
    ASSUME IInv, NEW m \in Message, result = "ok",
           unpacked' = Append(Unpack(m), NoMsg)
    PROVE  /\ HeadZone' = HeadZone + 1 /\ HeadZone \in Nat \ {0}
           /\ unpacked' \in Seq(Message \cup {NoMsg}) /\ unpacked' # <<>>
           /\ unpacked'[HeadZone'] = NoMsg /\ unpacked'[HeadZone] = m
           /\ \A i \in 1..(HeadZone - 1) : unpacked'[i] = unpacked[i]
           /\ \A type \in {"DATAMAP", "LINKED_NAME"} :
                KeptData(unpacked', type) = KeptData(unpacked, type)
                    \cup (IF m.type = type THEN m.data ELSE {})
<1> DEFINE Z == Message \cup {NoMsg}
<1>1. /\ Unpack(m) \in Seq(Z) /\ Len(Unpack(m)) = HeadZone
      /\ HeadZone \in Nat \ {0} /\ Unpack(m)[HeadZone] = m
      /\ \A i \in 1..(HeadZone - 1) : Unpack(m)[i] = unpacked[i]
  BY UnpackType
<1>2. NoMsg \in Z
  OBVIOUS
<1> HIDE DEF Z
<1>3. /\ unpacked' \in Seq(Z) /\ Len(unpacked') = HeadZone + 1
      /\ unpacked'[HeadZone + 1] = NoMsg
      /\ \A i \in 1..HeadZone : unpacked'[i] = Unpack(m)[i]
  BY <1>1, <1>2
<1>4. ASSUME NEW type \in {"DATAMAP", "LINKED_NAME"}
      PROVE  KeptData(unpacked', type) = KeptData(unpacked, type)
                 \cup (IF m.type = type THEN m.data ELSE {})
  <2>1. KeptData(unpacked', type) = KeptData(Unpack(m), type)
    BY <1>1, <1>4, KeptWithNewHead
  <2>2. unpacked \in Seq(Z) /\ unpacked # <<>> /\ unpacked[Len(unpacked)] = NoMsg
    BY DEF IInv, RTypeOK, HeadIsFree, HeadZone, Z
  <2>3. Unpack(m) = [unpacked EXCEPT ![Len(unpacked)] = m]
    BY DEF Unpack, HeadZone
  <2>4. type # "NONE"
    BY <1>4
  <2>5. KeptData([unpacked EXCEPT ![Len(unpacked)] = m], type)
          = KeptData(unpacked, type) \cup (IF m.type = type THEN m.data ELSE {})
    BY <2>2, <2>4, KeptInHead
  <2> QED
    BY <2>1, <2>3, <2>5
<1>5. HeadZone' = HeadZone + 1
  BY <1>3 DEF HeadZone
<1> QED
  BY <1>1, <1>3, <1>4, <1>5 DEF Z

\* Datamaps that do not clash with what is stored, and have a name that is
\* stored already, are stored already.
LEMMA NewInAdds ==
    ASSUME NEW maps, ~Clash(Stored \cup maps)
    PROVE  Stored \cup NewIn(maps) = Stored \cup maps
BY DEF NewIn, Clash

LEMMA StoredWithEntries ==
    ASSUME NEW maps, dm_hashmap' = dm_hashmap \cup Entries(maps)
    PROVE  Stored' = Stored \cup maps
<1>1. ASSUME NEW d \in maps PROVE d \in Stored'
  <2>1. [dm |-> d, at |-> HeadZone] \in dm_hashmap'
    BY DEF Entries
  <2> QED
    BY <2>1 DEF Stored
<1>2. ASSUME NEW d \in Stored' PROVE d \in Stored \cup maps
  BY DEF Stored, Entries
<1>3. Stored \subseteq Stored'
  BY DEF Stored
<1> QED
  BY <1>1, <1>2, <1>3

LEMMA EntriesType ==
    ASSUME IInv, NEW maps, maps \subseteq DataMap,
           dm_hashmap' = dm_hashmap \cup Entries(maps)
    PROVE  dm_hashmap' \in SUBSET [dm : DataMap, at : 1..HeadZone]
<1>1. HeadZone \in Nat \ {0}
  BY DEF IInv, RTypeOK, HeadZone
<1> QED
  BY <1>1 DEF IInv, RTypeOK, Entries

LEMMA RecvDatamapIInv ==
    ASSUME IInv, NEW m \in Message, RecvDatamap(m)
    PROVE  IInv'
<1> USE DEF RecvDatamap
<1>1. /\ result = "ok" /\ Live /\ m.type = "DATAMAP"
      /\ got_hello' = got_hello /\ got_hello \in BOOLEAN
      /\ UNCHANGED <<linked_names, file>>
      /\ file.state # "new" /\ linked_names \in [links : LinkMaps \cup {{}}, at : 0..HeadZone]
      /\ HeadZone \in Nat \ {0}
  BY DEF Expect, Live, IInv, RTypeOK, NotWrittenYet, HeadZone
<1>2. m.data \subseteq DataMap /\ Closed(m.data) /\ NewIn(m.data) \subseteq m.data
  BY <1>1, DatamapMessage DEF NewIn
<1>3. Stored' = Stored \cup m.data
  BY NewInAdds, StoredWithEntries
<1>4. dm_hashmap' \in SUBSET [dm : DataMap, at : 1..HeadZone]
  BY <1>2, EntriesType
<1>5. CASE NewIn(m.data) = {}
  <2>1. dm_hashmap' = dm_hashmap
    BY <1>5 DEF Entries
  <2> QED
    BY <1>1, <1>5, <2>1, ReuseZoneIInv
<1>6. CASE Fail(m, "oom")
  BY <1>1, <1>4, <1>6, FailIInv
<1>7. CASE unpacked' = Append(Unpack(m), NoMsg) /\ UNCHANGED result
  <2>1. /\ HeadZone' = HeadZone + 1
        /\ unpacked' \in Seq(Message \cup {NoMsg}) /\ unpacked' # <<>>
        /\ unpacked'[HeadZone'] = NoMsg /\ unpacked'[HeadZone] = m
        /\ \A i \in 1..(HeadZone - 1) : unpacked'[i] = unpacked[i]
    BY <1>1, <1>7, KeepZoneFacts
  <2>2. /\ KeptData(unpacked', "DATAMAP") = KeptData(unpacked, "DATAMAP") \cup m.data
        /\ KeptData(unpacked', "LINKED_NAME") = KeptData(unpacked, "LINKED_NAME")
    BY <1>1, <1>7, KeepZoneFacts
  <2>3. RTypeOK'
    <3>1. dm_hashmap' \in SUBSET [dm : DataMap, at : 1..HeadZone']
      BY <1>1, <1>4, <2>1
    <3>2. linked_names' \in [links : LinkMaps \cup {{}}, at : 0..HeadZone']
      BY <1>1, <2>1
    <3>3. FileTypeOK'
      BY <1>1 DEF IInv, RTypeOK, FileTypeOK
    <3> QED
      BY <1>1, <1>7, <2>1, <3>1, <3>2, <3>3 DEF RTypeOK
  <2>4. ASSUME NEW e \in dm_hashmap'
        PROVE  e.dm \in unpacked'[e.at].data /\ e.at < HeadZone'
    <3>1. CASE e \in dm_hashmap
      <4>1. e.dm \in unpacked[e.at].data /\ e.at \in 1..HeadZone /\ e.at < HeadZone
        BY <1>1, <3>1 DEF IInv, NoDangling, HeadIsFree, RTypeOK
      <4> QED
        BY <1>1, <2>1, <4>1
    <3>2. CASE e \in Entries(NewIn(m.data))
      <4>1. e.at = HeadZone /\ e.dm \in m.data
        BY <1>2, <3>2 DEF Entries
      <4> QED
        BY <1>1, <2>1, <4>1
    <3> QED
      BY <3>1, <3>2
  <2>5. linked_names.at < HeadZone
    BY <1>1 DEF IInv, HeadIsFree
  <2>6. linked_names.links # {} =>
            /\ linked_names.at # 0
            /\ unpacked'[linked_names.at] = LinkedNameMsg(linked_names.links)
    <3> SUFFICES ASSUME linked_names.links # {}
                 PROVE  /\ linked_names.at # 0
                        /\ unpacked'[linked_names.at] = LinkedNameMsg(linked_names.links)
      OBVIOUS
    <3>1. unpacked[linked_names.at] = LinkedNameMsg(linked_names.links)
      BY <1>1 DEF IInv, NoDangling
    <3>2. linked_names.at # 0
      BY <1>1 DEF IInv, NoDangling
    <3> QED
      BY <1>1, <2>1, <2>5, <3>1, <3>2
  <2>7. NoDangling' /\ HeadIsFree'
    BY <1>1, <2>1, <2>4, <2>5, <2>6 DEF NoDangling, HeadIsFree
  <2>8. PartsStored'
    BY <1>1, <1>2, <1>3, ClosedUnion DEF IInv, PartsStored
  <2>9. NamesUnique'
    BY <1>3 DEF NamesUnique
  <2>10. LinksResolve'
    BY <1>1, <1>3 DEF IInv, LinksResolve, Known
  <2>11. StoredIsKept'
    BY <1>1, <1>3, <2>2 DEF IInv, StoredIsKept
  <2> QED
    BY <1>1, <2>3, <2>7, <2>8, <2>9, <2>10, <2>11
       DEF IInv, FileIsWhatWasKept, NotWrittenYet
<1> QED
  BY <1>5, <1>6, <1>7 DEF KeepZone

LEMMA RecvDatamapFailsIInv ==
    ASSUME IInv, NEW m \in Message, RecvDatamapFails(m)
    PROVE  IInv'
<1> USE DEF RecvDatamapFails
<1>1. /\ Live /\ m.type = "DATAMAP" /\ UNCHANGED <<got_hello, linked_names, file>>
      /\ linked_names' \in [links : LinkMaps \cup {{}}, at : 0..HeadZone]
  BY DEF Expect, Live, IInv, RTypeOK
<1>2. m.data \subseteq DataMap
  BY <1>1, DatamapMessage
<1>3. PICK before \in SUBSET NewIn(m.data) :
        /\ dm_hashmap' = dm_hashmap \cup Entries(before)
        /\ Fail(m, "error") \/ Fail(m, "oom")
  OBVIOUS
<1>4. before \subseteq DataMap
  BY <1>2, <1>3 DEF NewIn
<1>5. dm_hashmap' \in SUBSET [dm : DataMap, at : 1..HeadZone]
  BY <1>3, <1>4, EntriesType
<1> QED
  BY <1>1, <1>3, <1>5, FailIInv

LEMMA RecvLinkedNameIInv ==
    ASSUME IInv, NEW m \in Message, RecvLinkedName(m)
    PROVE  IInv'
<1> USE DEF RecvLinkedName
<1>1. /\ result = "ok" /\ Live /\ m.type = "LINKED_NAME"
      /\ got_hello' = got_hello /\ got_hello \in BOOLEAN
      /\ UNCHANGED <<dm_hashmap, file>>
      /\ file.state # "new" /\ dm_hashmap \in SUBSET [dm : DataMap, at : 1..HeadZone]
      /\ HeadZone \in Nat \ {0}
  BY DEF Expect, Live, IInv, RTypeOK, NotWrittenYet, HeadZone
<1>2. m.data \in LinkMaps /\ m = LinkedNameMsg(m.data)
  BY <1>1, MessageData
<1>3. linked_names' = [links |-> m.data, at |-> HeadZone]
  OBVIOUS
<1>4. linked_names' \in [links : LinkMaps \cup {{}}, at : 0..HeadZone]
  BY <1>1, <1>2, <1>3
<1>5. Stored' = Stored
  BY <1>1 DEF Stored
<1>6. CASE Fail(m, "oom")
  BY <1>1, <1>4, <1>6, FailIInv
<1>7. CASE unpacked' = Append(Unpack(m), NoMsg) /\ UNCHANGED result
  <2>1. /\ HeadZone' = HeadZone + 1
        /\ unpacked' \in Seq(Message \cup {NoMsg}) /\ unpacked' # <<>>
        /\ unpacked'[HeadZone'] = NoMsg /\ unpacked'[HeadZone] = m
        /\ \A i \in 1..(HeadZone - 1) : unpacked'[i] = unpacked[i]
    BY <1>1, <1>7, KeepZoneFacts
  <2>2. /\ KeptData(unpacked', "DATAMAP") = KeptData(unpacked, "DATAMAP")
        /\ KeptData(unpacked', "LINKED_NAME")
             = KeptData(unpacked, "LINKED_NAME") \cup m.data
    BY <1>1, <1>7, KeepZoneFacts
  <2>3. RTypeOK'
    <3>1. dm_hashmap' \in SUBSET [dm : DataMap, at : 1..HeadZone']
      BY <1>1, <2>1
    <3>2. linked_names' \in [links : LinkMaps \cup {{}}, at : 0..HeadZone']
      BY <1>1, <1>4, <2>1
    <3>3. FileTypeOK'
      BY <1>1 DEF IInv, RTypeOK, FileTypeOK
    <3>4. result' = "ok"
      BY <1>1, <1>7
    <3> QED
      BY <1>1, <2>1, <3>1, <3>2, <3>3, <3>4 DEF RTypeOK
  <2>4. ASSUME NEW e \in dm_hashmap'
        PROVE  e.dm \in unpacked'[e.at].data /\ e.at < HeadZone'
    <3>1. e.dm \in unpacked[e.at].data /\ e.at \in 1..HeadZone /\ e.at < HeadZone
      BY <1>1 DEF IInv, NoDangling, HeadIsFree, RTypeOK
    <3> QED
      BY <1>1, <2>1, <3>1
  <2>5. /\ linked_names'.links = m.data /\ linked_names'.at = HeadZone
        /\ unpacked'[linked_names'.at] = LinkedNameMsg(linked_names'.links)
    BY <1>2, <1>3, <2>1
  <2>6. NoDangling' /\ HeadIsFree'
    BY <1>1, <2>1, <2>4, <2>5 DEF NoDangling, HeadIsFree
  <2>7. PartsStored' /\ NamesUnique'
    BY <1>1, <1>5 DEF IInv, PartsStored, NamesUnique
  <2>8. LinksResolve'
    BY <1>1, <1>5, <2>5 DEF LinksResolve, Known
  <2>9. StoredIsKept'
    BY <1>1, <1>5, <2>2, <2>5 DEF IInv, StoredIsKept
  <2> QED
    BY <1>1, <2>3, <2>6, <2>7, <2>8, <2>9
       DEF IInv, FileIsWhatWasKept, NotWrittenYet
<1> QED
  BY <1>6, <1>7 DEF KeepZone

\* A failed fopen or allocation leaves the file; fopen truncates it, and the
\* collection is written from what the kept zones carry.
LEMMA RecvGoodbyeIInv ==
    ASSUME IInv, NEW m \in Message, RecvGoodbye(m)
    PROVE  IInv'
<1> USE DEF RecvGoodbye
<1>1. /\ result = "ok" /\ Live /\ m.type = "GOODBYE"
      /\ UNCHANGED <<got_hello, dm_hashmap, linked_names>>
      /\ dm_hashmap \in SUBSET [dm : DataMap, at : 1..HeadZone]
      /\ linked_names \in [links : LinkMaps \cup {{}}, at : 0..HeadZone]
      /\ HeadZone \in Nat \ {0} /\ got_hello \in BOOLEAN
  BY DEF Expect, Live, IInv, RTypeOK, HeadZone
<1>2. CASE UNCHANGED file /\ (Fail(m, "oom") \/ Fail(m, "error"))
  BY <1>1, <1>2, FailIInv
<1>3. CASE Fail(m, "writing") /\ file' = PartialFile
  <2>1. /\ result' = "writing" /\ unpacked' = Unpack(m)
        /\ unpacked' \in Seq(Message \cup {NoMsg})
        /\ HeadZone' = HeadZone /\ unpacked' # <<>>
        /\ \A i \in 1..(HeadZone - 1) : unpacked'[i] = unpacked[i]
    BY <1>1, <1>3, UnpackType DEF Fail, HeadZone
  <2>2. RTypeOK'
    BY <1>1, <1>3, <2>1 DEF RTypeOK, FileTypeOK
  <2>3. ASSUME NEW e \in dm_hashmap'
        PROVE  e.dm \in unpacked'[e.at].data
    <3>1. e.dm \in unpacked[e.at].data /\ e.at \in 1..HeadZone /\ e.at < HeadZone
      BY <1>1 DEF IInv, NoDangling, HeadIsFree, RTypeOK
    <3> QED
      BY <1>1, <2>1, <3>1
  <2>4. linked_names'.links # {} =>
            /\ linked_names'.at # 0
            /\ unpacked'[linked_names'.at] = LinkedNameMsg(linked_names'.links)
    <3>1. linked_names.at < HeadZone
      BY <1>1 DEF IInv, HeadIsFree
    <3>2. linked_names.links # {} =>
            /\ linked_names.at # 0
            /\ unpacked[linked_names.at] = LinkedNameMsg(linked_names.links)
      BY <1>1 DEF IInv, NoDangling
    <3> QED
      BY <1>1, <2>1, <3>1, <3>2
  <2>5. NoDangling' /\ HeadIsFree'
    BY <2>1, <2>3, <2>4 DEF NoDangling, HeadIsFree
  <2>6. Stored' = Stored
    BY <1>1 DEF Stored
  <2>7. PartsStored' /\ NamesUnique' /\ LinksResolve'
    BY <1>1, <2>6 DEF IInv, PartsStored, NamesUnique, LinksResolve, Known
  <2>8. \A type \in {"DATAMAP", "LINKED_NAME"} :
            KeptData(unpacked', type) = KeptData(unpacked, type)
    <3> DEFINE Z == Message \cup {NoMsg}
    <3>1. unpacked \in Seq(Z) /\ unpacked # <<>> /\ unpacked[Len(unpacked)] = NoMsg
      BY <1>1 DEF IInv, RTypeOK, HeadIsFree, HeadZone
    <3> HIDE DEF Z
    <3>2. unpacked' = [unpacked EXCEPT ![Len(unpacked)] = m]
      BY <2>1 DEF Unpack, HeadZone
    <3>3. ASSUME NEW type \in {"DATAMAP", "LINKED_NAME"}
          PROVE  KeptData([unpacked EXCEPT ![Len(unpacked)] = m], type)
                   = KeptData(unpacked, type)
      <4>1. type # "NONE" /\ m.type # type
        BY <1>1, <3>3
      <4>2. KeptData([unpacked EXCEPT ![Len(unpacked)] = m], type)
              = KeptData(unpacked, type) \cup (IF m.type = type THEN m.data ELSE {})
        BY <3>1, <4>1, KeptInHead
      <4> QED
        BY <4>1, <4>2
    <3> QED
      BY <3>2, <3>3
  <2>9. StoredIsKept'
    BY <1>1, <2>6, <2>8 DEF IInv, StoredIsKept
  <2>10. file'.state # "new"
    BY <1>3 DEF PartialFile
  <2> QED
    BY <2>2, <2>5, <2>7, <2>9, <2>10 DEF IInv, FileIsWhatWasKept, NotWrittenYet
<1> QED
  BY <1>2, <1>3

LEMMA WriteFileIInv == IInv /\ WriteFile => IInv'
<1> SUFFICES ASSUME IInv, WriteFile PROVE IInv'
  OBVIOUS
<1> USE DEF WriteFile
<1>1. /\ Live /\ file.state # "new"
      /\ UNCHANGED <<got_hello, dm_hashmap, linked_names, unpacked>>
      /\ result' \in {"finished", "error"} /\ ~Live'
  BY DEF Live, IInv, NotWrittenYet
<1>2. Stored \in SUBSET DataMap /\ linked_names.links \in LinkMaps \cup {{}}
  BY DEF IInv, RTypeOK, Stored
<1>3. FileTypeOK'
  BY <1>2 DEF IInv, RTypeOK, FileTypeOK
<1>4. RTypeOK'
  BY <1>1, <1>3 DEF IInv, RTypeOK, HeadZone
<1>5. FileIsWhatWasKept'
  <2>1. CASE file' = NewFile(Stored, linked_names.links)
    BY <1>1, <2>1 DEF FileIsWhatWasKept, NewFile, IInv, StoredIsKept
  <2>2. CASE UNCHANGED file
    BY <1>1, <2>2 DEF FileIsWhatWasKept
  <2> QED
    BY <2>1, <2>2
<1> QED
  BY <1>1, <1>4, <1>5 DEF IInv, NoDangling, PartsStored, NamesUnique,
        LinksResolve, HeadIsFree, StoredIsKept, NotWrittenYet, Live

LEMMA ReceiveIInv ==
    ASSUME IInv, NEW m \in Message, Receive(m)
    PROVE  IInv'
<1>1. /\ got_hello \in BOOLEAN
      /\ dm_hashmap \in SUBSET [dm : DataMap, at : 1..HeadZone]
      /\ linked_names \in [links : LinkMaps \cup {{}}, at : 0..HeadZone]
  BY DEF IInv, RTypeOK
<1>2. CASE RecvHello(m)
  BY <1>1, <1>2, ReuseZoneIInv DEF RecvHello, Expect
<1>3. CASE RecvLogInfo(m)
  BY <1>1, <1>3, ReuseZoneIInv DEF RecvLogInfo, Expect
<1>4. CASE RecvBeforeHello(m)
  BY <1>1, <1>4, FailIInv DEF RecvBeforeHello, Live
<1>5. CASE RecvBad(m)
  BY <1>1, <1>5, FailIInv DEF RecvBad, Expect, Live
<1>6. CASE RecvLogError(m)
  BY <1>1, <1>6, FailIInv DEF RecvLogError, Expect, Live
<1>7. CASE RecvDatamap(m)
  BY <1>7, RecvDatamapIInv
<1>8. CASE RecvDatamapFails(m)
  BY <1>8, RecvDatamapFailsIInv
<1>9. CASE RecvLinkedName(m)
  BY <1>9, RecvLinkedNameIInv
<1>10. CASE RecvLinkedNameFails(m)
  BY <1>1, <1>10, FailIInv DEF RecvLinkedNameFails, Expect, Live
<1>11. CASE RecvGoodbye(m)
  BY <1>11, RecvGoodbyeIInv
<1> QED
  BY <1>2, <1>3, <1>4, <1>5, <1>6, <1>7, <1>8, <1>9, <1>10, <1>11 DEF Receive

LEMMA StepIInv == IInv /\ [RNext]_rvars => IInv'
<1> SUFFICES ASSUME IInv, [RNext]_rvars PROVE IInv'
  OBVIOUS
<1>1. CASE WriteFile
  BY <1>1, WriteFileIInv
<1>2. ASSUME NEW m \in Message, Receive(m) PROVE IInv'
  BY <1>2, ReceiveIInv
<1>3. CASE UNCHANGED rvars
  BY <1>3 DEF rvars, IInv, RTypeOK, FileTypeOK, HeadZone, NoDangling,
        PartsStored, NamesUnique, LinksResolve, Known, FileIsWhatWasKept,
        HeadIsFree, StoredIsKept, NotWrittenYet, Live, Stored
<1> QED
  BY <1>1, <1>2, <1>3 DEF RNext
-----------------------------------------------------------------------------
\* The inductive invariant holds in every reachable state.
THEOREM ReceiverInductive == RSpec => []IInv
  BY InitIInv, StepIInv, PTL DEF RSpec

\* The context of ch_recv.c keeps its types whatever a client sends.
THEOREM ReceiverTypeCorrect == RSpec => []RTypeOK
<1>1. IInv => RTypeOK
  BY DEF IInv
<1> QED
  BY <1>1, ReceiverInductive, PTL

\* No msgpack zone that something stored refers to is reused.
THEOREM ZonesDoNotDangle == RSpec => []NoDangling
<1>1. IInv => NoDangling
  BY DEF IInv
<1> QED
  BY <1>1, ReceiverInductive, PTL

\* What a stored datamap refers to is stored: the lookups of the writer find it.
THEOREM PartsAreStored == RSpec => []PartsStored
<1>1. IInv => PartsStored
  BY DEF IInv
<1> QED
  BY <1>1, ReceiverInductive, PTL

\* A name is the name of one stored datamap.
THEOREM NamesAreUnique == RSpec => []NamesUnique
<1>1. IInv => NamesUnique
  BY DEF IInv
<1> QED
  BY <1>1, ReceiverInductive, PTL

\* Every kept linked name leads to a stored datamap.
THEOREM LinksAreResolved == RSpec => []LinksResolve
<1>1. IInv => LinksResolve
  BY DEF IInv
<1> QED
  BY <1>1, ReceiverInductive, PTL

\* A written collection is what the kept messages carried, no more or less.
THEOREM FileIsFaithful == RSpec => []FileIsWhatWasKept
<1>1. IInv => FileIsWhatWasKept
  BY DEF IInv
<1> QED
  BY <1>1, ReceiverInductive, PTL
-----------------------------------------------------------------------------
(* The session *)

\* What the pipe and the payload's variables may be.
STypeOK ==
    /\ pipe \in Pipe
    /\ mod \in 1..Len(ModSeq) /\ pos \in Nat \ {0}
    /\ found \in Searches
    /\ dict \in LinkMaps
    /\ stage \in Stages

\* The search finds datamaps, in the modules there are.
LEMMA FoundType ==
    ASSUME STypeOK
    PROVE  /\ found \in [GameModule -> Seq(DataMap)]
           /\ ModSeq \in Seq(GameModule) /\ Len(ModSeq) \in Nat /\ mod \in Nat
           /\ ModSeq[mod] \in GameModule
           /\ found[ModSeq[mod]] \in Seq(DataMap)
<1>1. ModSeq \in Seq(GameModule) /\ Len(ModSeq) \in Nat /\ mod \in Nat
  BY GraphAssumption DEF STypeOK
<1>2. ModSeq[mod] \in GameModule
  BY <1>1 DEF STypeOK
<1>3. found \in [GameModule -> Seq(DataMap)]
  BY PayloadAssumption DEF STypeOK
<1> QED
  BY <1>1, <1>2, <1>3

\* What the payload sends are messages.
LEMMA SentAreMessages ==
    ASSUME STypeOK
    PROVE  /\ {Hello, Goodbye, LogInfo, LogError} \subseteq Message
           /\ LinkedNameMsg(dict) \in Message
           /\ pos <= Len(found[ModSeq[mod]]) =>
                 /\ found[ModSeq[mod]][pos] \in DataMap
                 /\ DatamapMsg(found[ModSeq[mod]][pos]) \in Message
<1>1. {Hello, Goodbye, LogInfo, LogError} \subseteq Message
  BY DEF Message
<1>2. LinkedNameMsg(dict) \in Message
  BY DEF Message, STypeOK
<1>3. ASSUME pos <= Len(found[ModSeq[mod]])
      PROVE  found[ModSeq[mod]][pos] \in DataMap
  <2> DEFINE maps == found[ModSeq[mod]]
  <2>1. maps \in Seq(DataMap) /\ pos \in Nat \ {0} /\ pos <= Len(maps)
    BY <1>3, FoundType DEF STypeOK
  <2> HIDE DEF maps
  <2>2. pos \in 1..Len(maps)
    BY <2>1
  <2>3. maps[pos] \in DataMap
    BY <2>1, <2>2
  <2> QED
    BY <2>3 DEF maps
<1>4. ASSUME NEW d \in DataMap
      PROVE  DatamapMsg(d) \in Message
  BY DEF Message
<1> QED
  BY <1>1, <1>2, <1>3, <1>4

\* What a step can do to a pipe.
LEMMA PipeSteps ==
    ASSUME pipe \in Pipe
    PROVE  /\ Created \in Pipe /\ Connected \in Pipe
           /\ ClientClosed \in Pipe /\ ServerClosed \in Pipe
           /\ pipe.queue # <<>> => Read \in Pipe
           /\ \A m \in Message : Written(m) \in Pipe
<1>1. pipe.queue \in Seq(Message) /\ <<>> \in Seq(Message)
  BY DEF Pipe
<1>2. pipe.queue # <<>> => Tail(pipe.queue) \in Seq(Message)
  BY <1>1
<1>3. \A m \in Message : Append(pipe.queue, m) \in Seq(Message)
  BY <1>1
<1> QED
  BY <1>1, <1>2, <1>3 DEF Pipe, Created, Connected, ClientClosed, ServerClosed, Read, Written
-----------------------------------------------------------------------------
\* A step of the exe, as far as the pipe sees it.
LEMMA ExeStepPipe ==
    ASSUME IStep
    PROVE  /\ pipe' \in {pipe, Created, ServerClosed}
           /\ stage' \in Stages
<1>1. ASSUME NEW next \in Stages, Fails(next)
      PROVE  pipe' = pipe /\ stage' \in Stages
  BY <1>1 DEF Fails
<1>2. CASE CreatePipe
  BY <1>1, <1>2 DEF CreatePipe, Stages
<1>3. CASE Find(FStep)
  BY <1>3 DEF Find, own_vars, Stages
<1>4. CASE GameFound
  BY <1>4 DEF GameFound, Stages
<1>5. CASE VirtualAlloc \/ WritePath \/ StartThread
  BY <1>1, <1>5 DEF VirtualAlloc, WritePath, StartThread, Stages
<1>6. CASE HideAlloc
  BY <1>6 DEF HideAlloc, Stages
<1>7. CASE CreateEvent \/ ConnectPipe \/ AwaitConnect
  BY <1>1, <1>7 DEF CreateEvent, ConnectPipe, AwaitConnect, Stages
<1>8. CASE RestoreAlloc
  BY <1>8 DEF RestoreAlloc, Stages
<1>9. CASE FreeAlloc \/ ClosePipe
  BY <1>9 DEF FreeAlloc, ClosePipe, Stages
<1> QED
  BY <1>2, <1>3, <1>4, <1>5, <1>6, <1>7, <1>8, <1>9 DEF IStep
-----------------------------------------------------------------------------
\* A call of the payload that sends may write, or finds that the exe has gone.
LEMMA SendType ==
    ASSUME STypeOK, NEW m \in Message, NEW next, NEW nmod \in 1..Len(ModSeq),
           NEW npos \in Nat \ {0}, Send(m, next, nmod, npos)
    PROVE  /\ pipe' \in Pipe
           /\ mod' \in 1..Len(ModSeq) /\ pos' \in Nat \ {0}
           /\ UNCHANGED <<found, dict>>
  BY PipeSteps DEF Send, CleanExit, Goto, STypeOK

LEMMA PayloadType ==
    ASSUME STypeOK, PStep
    PROVE  /\ pipe' \in Pipe
           /\ mod' \in 1..Len(ModSeq) /\ pos' \in Nat \ {0}
           /\ UNCHANGED <<found, dict>>
<1> DEFINE OK == /\ pipe' \in Pipe
                 /\ mod' \in 1..Len(ModSeq) /\ pos' \in Nat \ {0}
                 /\ UNCHANGED <<found, dict>>
<1>0. /\ mod \in 1..Len(ModSeq) /\ pos \in Nat \ {0} /\ pipe \in Pipe
      /\ 1 \in Nat \ {0} /\ 2 \in Nat \ {0} /\ pos + 1 \in Nat \ {0}
      /\ 1 \in 1..Len(ModSeq) /\ (mod < Len(ModSeq) => mod + 1 \in 1..Len(ModSeq))
  <2>1. Len(ModSeq) \in Nat /\ Len(ModSeq) > 0
    BY FoundType, PayloadAssumption
  <2> QED
    BY <2>1 DEF STypeOK
<1>1. ASSUME NEW m \in Message, NEW next, NEW nmod \in 1..Len(ModSeq),
             NEW npos \in Nat \ {0}, Send(m, next, nmod, npos)
      PROVE  OK
  BY <1>1, SendType
<1>2. ASSUME NEW next, NEW nmod \in 1..Len(ModSeq), NEW npos \in Nat \ {0},
             Goto(next, nmod, npos), pipe' \in Pipe
      PROVE  OK
  BY <1>2 DEF Goto
<1>3. SendErrAndExit => OK
  BY <1>0, <1>1, SentAreMessages DEF SendErrAndExit
<1> SUFFICES OK
  OBVIOUS
<1> HIDE DEF OK
<1>4. CASE WaitPipe
  BY <1>0, <1>2, <1>4 DEF WaitPipe, CleanExit
<1>5. CASE OpenPipe
  BY <1>0, <1>2, <1>5, PipeSteps DEF OpenPipe, CleanExit
<1>6. CASE SendHello \/ SendGoodbye
  BY <1>0, <1>1, <1>6, SentAreMessages DEF SendHello, SendGoodbye
<1>7. CASE GetModuleInfo
  BY <1>0, <1>2, <1>3, <1>7 DEF GetModuleInfo
<1>8. CASE FindStaticInits
  BY <1>0, <1>1, <1>3, <1>8, SentAreMessages DEF FindStaticInits
<1>9. CASE SendDatamap
  BY <1>0, <1>1, <1>9, SentAreMessages DEF SendDatamap
<1>10. CASE EndOfModule
  BY <1>0, <1>2, <1>3, <1>10 DEF EndOfModule
<1>11. CASE FindEntFactoryDict
  BY <1>0, <1>1, <1>3, <1>11, SentAreMessages DEF FindEntFactoryDict
<1>12. CASE SendEntFactoryKv
  BY <1>0, <1>1, <1>3, <1>12, SentAreMessages DEF SendEntFactoryKv
<1>13. CASE Exit
  BY <1>0, <1>2, <1>13, PipeSteps DEF Exit
<1> QED
  BY <1>4, <1>5, <1>6, <1>7, <1>8, <1>9, <1>10, <1>11, <1>12, <1>13 DEF PStep

LEMMA InitSType == Init => STypeOK
<1> SUFFICES ASSUME Init PROVE STypeOK
  OBVIOUS
<1>1. pipe \in Pipe
  BY DEF Init, IInit, NoPipe, Pipe
<1>2. 1 \in 1..Len(ModSeq)
  BY GraphAssumption, PayloadAssumption
<1> QED
  BY <1>1, <1>2 DEF Init, IInit, PInit, STypeOK, Stages

LEMMA StepSType == STypeOK /\ [Next]_vars => STypeOK'
<1> SUFFICES ASSUME STypeOK, [Next]_vars PROVE STypeOK'
  OBVIOUS
<1>1. ASSUME pipe' \in Pipe, stage' \in Stages, UNCHANGED pvars
      PROVE  STypeOK'
  BY <1>1 DEF STypeOK, pvars
<1>2. pipe \in Pipe /\ stage \in Stages
  BY DEF STypeOK
<1>3. CASE Prepare
  BY <1>1, <1>2, <1>3, ExeStepPipe, PipeSteps DEF Prepare
<1>4. CASE UserAnswers
  BY <1>1, <1>2, <1>4 DEF UserAnswers, Find, own_vars
<1>5. CASE PrepareFails \/ ReadFails \/ ReadBrokenPipe
  BY <1>1, <1>2, <1>5
     DEF PrepareFails, AwaitFails, ReadFails, ReadBrokenPipe, LoopFails, Fails, Stages
<1>6. CASE AllocMsgCtx \/ WriteCollection \/ LeaveLoop
  BY <1>1, <1>2, <1>6
     DEF AllocMsgCtx, WriteCollection, LeaveLoop, LoopFails, Fails, Proceed, Stages
<1>7. CASE ReadMessage
  BY <1>1, <1>2, <1>7, PipeSteps DEF ReadMessage, Proceed, Stages
<1>8. CASE LoadPayload
  BY <1>8 DEF LoadPayload, StartMain, ivars, own_vars, STypeOK
<1>9. CASE LoadFails
  BY <1>1, <1>2, <1>9 DEF LoadFails, ivars, own_vars
<1>10. CASE PayloadStep
  BY <1>2, <1>10, PayloadType DEF PayloadStep, ivars, own_vars, STypeOK
<1>11. CASE PayloadFails
  BY <1>11 DEF PayloadFails, PackFails, CleanExit, Goto, ivars, own_vars, STypeOK
<1>12. CASE LoadFaults \/ GameDies
  BY <1>2, <1>12, PipeSteps DEF LoadFaults, GameDies, Die, ivars, own_vars, STypeOK
<1>13. CASE ExeDies
  BY <1>1, <1>2, <1>13, PipeSteps DEF ExeDies, Stages
<1>14. CASE UNCHANGED vars
  BY <1>1, <1>2, <1>14 DEF vars, ivars, own_vars
<1> QED
  BY <1>3, <1>4, <1>5, <1>6, <1>7, <1>8, <1>9, <1>10, <1>11, <1>12, <1>13, <1>14
     DEF Next, Exe

\* The pipe, the payload's variables and the exe's place keep their types.
THEOREM SessionTypeCorrect == Spec => []STypeOK
  BY InitSType, StepSType, PTL DEF Spec
-----------------------------------------------------------------------------
\* What the message context sees of a session is a client of its own.
LEMMA StepIsReceiver == STypeOK /\ [Next]_vars => [RNext]_rvars
<1> SUFFICES ASSUME STypeOK, [Next]_vars PROVE RNext \/ UNCHANGED rvars
  OBVIOUS
<1>1. CASE ReadMessage
  <2>1. Head(pipe.queue) \in Message
    BY <1>1 DEF ReadMessage, STypeOK, Pipe
  <2> QED
    BY <1>1, <2>1 DEF ReadMessage, RNext
<1>2. CASE WriteCollection
  BY <1>2 DEF WriteCollection, RNext
<1>3. CASE Prepare \/ AllocMsgCtx \/ ReadBrokenPipe \/ LeaveLoop \/ UserAnswers
           \/ PrepareFails \/ ReadFails
  BY <1>3 DEF Prepare, AllocMsgCtx, ReadBrokenPipe, LeaveLoop, UserAnswers,
     PrepareFails, ReadFails, LoopFails
<1>4. CASE LoadPayload \/ LoadFails \/ LoadFaults \/ PayloadStep \/ PayloadFails
           \/ GameDies \/ ExeDies
  BY <1>4 DEF LoadPayload, LoadFails, LoadFaults, PayloadStep, PayloadFails, GameDies,
     ExeDies, Die
<1>5. CASE UNCHANGED vars
  BY <1>5 DEF vars
<1> QED
  BY <1>1, <1>2, <1>3, <1>4, <1>5 DEF Next, Exe

\* In every session the message context (ch_recv.c) behaves as Receiver says, so
\* that all that is proved of Receiver holds: the payload, alive or dead, is one of
\* the clients there.
THEOREM SessionIsReceiver == Spec => RSpec
<1>1. Init => RInit
  BY DEF Init
<1> QED
  BY <1>1, StepIsReceiver, SessionTypeCorrect, PTL DEF Spec, RSpec

\* Its inductive invariant, then, is one of a session.
THEOREM SessionKeepsIInv == Spec => []IInv
  BY SessionIsReceiver, ReceiverInductive, PTL
-----------------------------------------------------------------------------
\* What the messages of a queue carry, when one is written ...
LEMMA CarriedWhenWritten ==
    ASSUME NEW Z, NEW q \in Seq(Z), NEW m, NEW type
    PROVE  KeptData(Append(q, m), type) =
               KeptData(q, type) \cup (IF m.type = type THEN m.data ELSE {})
<1> DEFINE r == Append(q, m)
<1>1. /\ DOMAIN r = DOMAIN q \cup {Len(q) + 1} /\ Len(q) + 1 \notin DOMAIN q
      /\ r[Len(q) + 1] = m /\ \A i \in DOMAIN q : r[i] = q[i]
  OBVIOUS
<1> HIDE DEF r
<1>2. ASSUME NEW x \in KeptData(r, type)
      PROVE  x \in KeptData(q, type) \cup (IF m.type = type THEN m.data ELSE {})
  <2>1. PICK i \in DOMAIN r : r[i].type = type /\ x \in r[i].data
    BY <1>2 DEF KeptData
  <2> QED
    BY <1>1, <2>1 DEF KeptData
<1>3. ASSUME NEW x \in KeptData(q, type)
      PROVE  x \in KeptData(r, type)
  <2>1. PICK i \in DOMAIN q : q[i].type = type /\ x \in q[i].data
    BY <1>3 DEF KeptData
  <2> QED
    BY <1>1, <2>1 DEF KeptData
<1>4. ASSUME m.type = type, NEW x \in m.data
      PROVE  x \in KeptData(r, type)
  BY <1>1, <1>4 DEF KeptData
<1> QED
  BY <1>2, <1>3, <1>4 DEF r

\* ... and when the first one is read.
LEMMA CarriedWhenRead ==
    ASSUME NEW Z, NEW q \in Seq(Z), q # <<>>, NEW type
    PROVE  KeptData(q, type) =
               (IF Head(q).type = type THEN Head(q).data ELSE {}) \cup KeptData(Tail(q), type)
<1> DEFINE t == Tail(q)
<1>1. /\ 1 \in DOMAIN q /\ Head(q) = q[1]
      /\ \A i \in DOMAIN t : i + 1 \in DOMAIN q /\ t[i] = q[i + 1]
      /\ \A i \in DOMAIN q : i # 1 => i - 1 \in DOMAIN t /\ t[i - 1] = q[i]
  OBVIOUS
<1> HIDE DEF t
<1>2. ASSUME NEW x \in KeptData(q, type)
      PROVE  x \in (IF Head(q).type = type THEN Head(q).data ELSE {}) \cup KeptData(t, type)
  <2>1. PICK i \in DOMAIN q : q[i].type = type /\ x \in q[i].data
    BY <1>2 DEF KeptData
  <2>2. CASE i = 1
    BY <1>1, <2>1, <2>2
  <2>3. CASE i # 1
    <3>1. i - 1 \in DOMAIN t /\ t[i - 1].type = type /\ x \in t[i - 1].data
      BY <1>1, <2>1, <2>3
    <3> QED
      BY <3>1 DEF KeptData
  <2> QED
    BY <2>2, <2>3
<1>3. ASSUME NEW x \in KeptData(t, type)
      PROVE  x \in KeptData(q, type)
  <2>1. PICK i \in DOMAIN t : t[i].type = type /\ x \in t[i].data
    BY <1>3 DEF KeptData
  <2> QED
    BY <1>1, <2>1 DEF KeptData
<1>4. ASSUME Head(q).type = type, NEW x \in Head(q).data
      PROVE  x \in KeptData(q, type)
  BY <1>1, <1>4 DEF KeptData
<1> QED
  BY <1>2, <1>3, <1>4 DEF t

LEMMA CarriedByNone == \A type : KeptData(<<>>, type) = {}
  BY DEF KeptData

LEMMA InPipeIsCarried == \A type : InPipe(type) = KeptData(pipe.queue, type)
  BY DEF InPipe, KeptData
-----------------------------------------------------------------------------
\* What is stored, and what is on its way.
Coming == Stored \cup KeptData(pipe.queue, "DATAMAP")
NamesComing == linked_names.links \cup KeptData(pipe.queue, "LINKED_NAME")

\* Reading a message moves what it carries from the pipe to the context, or the
\* context is given up.
LEMMA ReadKeepsComing ==
    ASSUME STypeOK, ReadMessage, result' \in {"ok", "writing"}
    PROVE  Coming' = Coming /\ NamesComing' = NamesComing
<1> DEFINE m == Head(pipe.queue)
           rest(type) == KeptData(Tail(pipe.queue), type)
<1>1. pipe.queue \in Seq(Message) /\ pipe.queue # <<>> /\ pipe'.queue = Tail(pipe.queue)
  BY DEF ReadMessage, Read, STypeOK, Pipe
<1>2. \A type : KeptData(pipe.queue, type) =
                   (IF m.type = type THEN m.data ELSE {}) \cup rest(type)
  BY <1>1, CarriedWhenRead
<1>3. /\ Coming = Stored \cup (IF m.type = "DATAMAP" THEN m.data ELSE {}) \cup rest("DATAMAP")
      /\ Coming' = Stored' \cup rest("DATAMAP")
      /\ NamesComing = linked_names.links \cup (IF m.type = "LINKED_NAME" THEN m.data ELSE {})
                          \cup rest("LINKED_NAME")
      /\ NamesComing' = linked_names'.links \cup rest("LINKED_NAME")
  BY <1>1, <1>2 DEF Coming, NamesComing
<1>4. Receive(m)
  BY DEF ReadMessage
<1> HIDE DEF m
<1>5. \A why : why \notin {"ok", "writing"} => ~Fail(m, why)
  BY DEF Fail
<1>6. UNCHANGED dm_hashmap => Stored' = Stored
  BY DEF Stored
<1> HIDE DEF rest
<1>7. CASE RecvHello(m) \/ RecvLogInfo(m)
  BY <1>3, <1>6, <1>7 DEF RecvHello, RecvLogInfo, Expect
<1>8. CASE RecvBeforeHello(m) \/ RecvBad(m) \/ RecvLogError(m) \/ RecvDatamapFails(m)
           \/ RecvLinkedNameFails(m)
  BY <1>5, <1>8 DEF RecvBeforeHello, RecvBad, RecvLogError, RecvDatamapFails, RecvLinkedNameFails
<1>9. CASE RecvDatamap(m)
  <2>1. Stored' = Stored \cup m.data
    BY <1>9, NewInAdds, StoredWithEntries DEF RecvDatamap, Stored
  <2> QED
    BY <1>3, <1>9, <2>1 DEF RecvDatamap, Expect
<1>10. CASE RecvLinkedName(m)
  BY <1>3, <1>6, <1>10 DEF RecvLinkedName, Expect
<1>11. CASE RecvGoodbye(m)
  BY <1>3, <1>6, <1>11 DEF RecvGoodbye, Expect
<1> QED
  BY <1>4, <1>7, <1>8, <1>9, <1>10, <1>11 DEF Receive
-----------------------------------------------------------------------------
\* As long as nothing has failed the pipe is there until the clean-up; what has not
\* been created holds nothing.
Early == {"create_pipe", "find_game", "virtual_alloc", "write_path", "start_thread", "create_event",
          "connect", "await", "msg_ctx", "read"}
CleanUp == {"free_alloc", "close_pipe", "done", "crashed"}

ServerListens ==
    /\ stage \in Early => ok
    /\ ok /\ stage \notin CleanUp \cup {"create_pipe"} => pipe.server = "open"
    /\ pipe.server = "none" => pipe.queue = <<>>

LEMMA InitListens == Init => ServerListens
  BY DEF Init, IInit, NoPipe, ServerListens, Early, CleanUp

\* What becomes of the pipe's server and of what is in it.
LEMMA PayloadPipe ==
    ASSUME STypeOK, PStep
    PROVE  /\ pipe'.server = pipe.server
           /\ pipe.server # "open" => pipe'.queue = pipe.queue
<1> DEFINE OK == /\ pipe'.server = pipe.server
                 /\ pipe.server # "open" => pipe'.queue = pipe.queue
<1> SUFFICES OK
  OBVIOUS
<1>1. ASSUME NEW m, NEW next, NEW nmod, NEW npos, Send(m, next, nmod, npos)
      PROVE  OK
  BY <1>1 DEF Send, Written, STypeOK, Pipe
<1>2. /\ Connected.server = pipe.server /\ Connected.queue = pipe.queue
      /\ ClientClosed.server = pipe.server /\ ClientClosed.queue = pipe.queue
  BY DEF Connected, ClientClosed, STypeOK, Pipe
<1>3. pipe' \in {pipe, Connected, ClientClosed} => OK
  BY <1>2
<1> HIDE DEF OK
<1>4. SendErrAndExit => OK
  BY <1>1 DEF SendErrAndExit
<1>5. CASE WaitPipe \/ OpenPipe \/ Exit \/ EndOfModule \/ GetModuleInfo
  BY <1>3, <1>4, <1>5 DEF WaitPipe, OpenPipe, Exit, EndOfModule, GetModuleInfo
<1>6. CASE SendHello \/ SendGoodbye \/ SendDatamap \/ FindStaticInits
  BY <1>1, <1>4, <1>6 DEF SendHello, SendGoodbye, SendDatamap, FindStaticInits
<1>7. CASE FindEntFactoryDict \/ SendEntFactoryKv
  BY <1>1, <1>4, <1>7 DEF FindEntFactoryDict, SendEntFactoryKv
<1> QED
  BY <1>5, <1>6, <1>7 DEF PStep

\* The ends of a pipe that is closed.
LEMMA ClosedPipe ==
    ASSUME pipe \in Pipe
    PROVE  /\ ServerClosed.server # "open" /\ ServerClosed.queue = <<>>
           /\ ServerClosed.server = "none" <=> pipe.server = "none"
           /\ Created.server = "open" /\ Created.queue = pipe.queue
           /\ ClientClosed.server = pipe.server /\ ClientClosed.queue = pipe.queue
           /\ Read.server = pipe.server /\ Read.queue = Tail(pipe.queue)
  BY DEF Pipe, ServerClosed, Created, ClientClosed, Read

LEMMA ExeKeepsListens ==
    ASSUME STypeOK, ServerListens, IStep
    PROVE  ServerListens'
<1> USE DEF Early, CleanUp
<1>0. pipe \in Pipe
  BY DEF STypeOK
<1>1. ASSUME NEW next, Fails(next), next \in {"hide_alloc", "restore_alloc"}
      PROVE  ServerListens'
  BY <1>1 DEF Fails, ServerListens
<1>2. CASE CreatePipe
  BY <1>0, <1>1, <1>2, ClosedPipe DEF CreatePipe, ServerListens
<1>3. CASE Find(FStep)
  BY <1>3 DEF Find, own_vars, ServerListens
<1>4. CASE GameFound
  BY <1>4 DEF GameFound, ServerListens
<1>5. CASE VirtualAlloc \/ WritePath \/ StartThread
  BY <1>1, <1>5 DEF VirtualAlloc, WritePath, StartThread, ServerListens
<1>6. CASE HideAlloc
  BY <1>6 DEF HideAlloc, ServerListens
<1>7. CASE CreateEvent \/ ConnectPipe \/ AwaitConnect
  BY <1>1, <1>7 DEF CreateEvent, ConnectPipe, AwaitConnect, ServerListens
<1>8. CASE RestoreAlloc \/ FreeAlloc
  BY <1>8 DEF RestoreAlloc, FreeAlloc, ServerListens
<1>9. CASE ClosePipe
  BY <1>0, <1>9, ClosedPipe DEF ClosePipe, ServerListens
<1> QED
  BY <1>2, <1>3, <1>4, <1>5, <1>6, <1>7, <1>8, <1>9 DEF IStep

LEMMA StepListens == STypeOK /\ ServerListens /\ [Next]_vars => ServerListens'
<1> SUFFICES ASSUME STypeOK, ServerListens, [Next]_vars PROVE ServerListens'
  OBVIOUS
<1> USE DEF Early, CleanUp
<1>0. pipe \in Pipe
  BY DEF STypeOK
<1>1. CASE Prepare
  BY <1>1, ExeKeepsListens DEF Prepare
<1>2. CASE PrepareFails \/ ReadFails \/ ReadBrokenPipe
  BY <1>2 DEF PrepareFails, AwaitFails, ReadFails, ReadBrokenPipe, LoopFails, Fails, ServerListens
<1>3. CASE AllocMsgCtx \/ WriteCollection \/ LeaveLoop \/ UserAnswers
  BY <1>3 DEF AllocMsgCtx, WriteCollection, LeaveLoop, UserAnswers, Find, own_vars, LoopFails,
              Fails, Proceed, ServerListens
<1>4. CASE ReadMessage
  BY <1>0, <1>4, ClosedPipe DEF ReadMessage, Proceed, ServerListens
<1>5. CASE LoadPayload \/ LoadFails \/ PayloadFails \/ UNCHANGED vars
  BY <1>5 DEF LoadPayload, LoadFails, PayloadFails, PackFails, ivars, own_vars, vars, ServerListens
<1>6. CASE PayloadStep
  BY <1>6, PayloadPipe DEF PayloadStep, ivars, own_vars, ServerListens
<1>7. CASE LoadFaults \/ GameDies
  BY <1>0, <1>7, ClosedPipe DEF LoadFaults, GameDies, Die, ivars, own_vars, ServerListens
<1>8. CASE ExeDies
  BY <1>0, <1>8, ClosedPipe DEF ExeDies, ServerListens
<1> QED
  BY <1>1, <1>2, <1>3, <1>4, <1>5, <1>6, <1>7, <1>8 DEF Next, Exe
-----------------------------------------------------------------------------
\* The datamaps that main has gone through when it is at place and the search at p
\* in module m.
Gone(f, m, place, p) ==
    {d \in DataMap : \E i \in 1..m : \E j \in DOMAIN f[ModSeq[i]] :
                        (i < m \/ place # "iterate" \/ j < p) /\ d = f[ModSeq[i]][j]}

LEMMA SearchType ==
    ASSUME NEW f \in Searches, NEW i \in 1..Len(ModSeq)
    PROVE  /\ Len(ModSeq) \in Nat /\ ModSeq[i] \in GameModule
           /\ f[ModSeq[i]] \in Seq(DataMap)
           /\ Len(f[ModSeq[i]]) \in Nat /\ DOMAIN f[ModSeq[i]] = 1..Len(f[ModSeq[i]])
           /\ \A j \in DOMAIN f[ModSeq[i]] : f[ModSeq[i]][j] \in DataMap
<1>1. Len(ModSeq) \in Nat /\ ModSeq[i] \in GameModule
  BY GraphAssumption
<1>2. f \in [GameModule -> Seq(DataMap)]
  BY PayloadAssumption
<1>3. f[ModSeq[i]] \in Seq(DataMap)
  BY <1>1, <1>2
<1> DEFINE maps == f[ModSeq[i]]
<1> HIDE DEF maps
<1>4. ASSUME maps \in Seq(DataMap)
      PROVE  /\ Len(maps) \in Nat /\ DOMAIN maps = 1..Len(maps)
             /\ \A j \in DOMAIN maps : maps[j] \in DataMap
  BY <1>4
<1> QED
  BY <1>1, <1>3, <1>4 DEF maps

\* Nothing has been gone through at the beginning, ...
LEMMA GoneAtStart ==
    ASSUME NEW f \in Searches
    PROVE  Gone(f, 1, "iterate", 1) = {}
<1>1. 1 \in 1..Len(ModSeq)
  BY GraphAssumption, PayloadAssumption
<1>2. DOMAIN f[ModSeq[1]] \subseteq Nat \ {0}
  BY <1>1, SearchType
<1> QED
  BY <1>2 DEF Gone

\* ... then one more, ...
LEMMA GoneOneMore ==
    ASSUME NEW f \in Searches, NEW m \in 1..Len(ModSeq), NEW p \in DOMAIN f[ModSeq[m]]
    PROVE  Gone(f, m, "iterate", p + 1) = Gone(f, m, "iterate", p) \cup {f[ModSeq[m]][p]}
<1>1. f[ModSeq[m]][p] \in DataMap /\ p \in Nat /\ m \in Nat /\ m \in 1..m
  BY SearchType
<1>2. \A j \in DOMAIN f[ModSeq[m]] : j \in Nat
  BY SearchType
<1>3. ASSUME NEW d \in Gone(f, m, "iterate", p + 1), d # f[ModSeq[m]][p]
      PROVE  d \in Gone(f, m, "iterate", p)
  <2>1. PICK i \in 1..m : \E j \in DOMAIN f[ModSeq[i]] :
                (i < m \/ j < p + 1) /\ d = f[ModSeq[i]][j]
    BY <1>3 DEF Gone
  <2>2. PICK j \in DOMAIN f[ModSeq[i]] : (i < m \/ j < p + 1) /\ d = f[ModSeq[i]][j]
    BY <2>1
  <2>3. i < m \/ j < p
    <3>1. CASE i < m
      BY <3>1
    <3>2. CASE ~(i < m)
      <4>1. i = m
        BY <1>1, <3>2
      <4>2. j \in Nat /\ j < p + 1 /\ j # p
        BY <1>2, <1>3, <2>2, <3>2, <4>1
      <4> QED
        BY <1>1, <4>2
    <3> QED
      BY <3>1, <3>2
  <2> QED
    BY <1>3, <2>2, <2>3 DEF Gone
<1>4. ASSUME NEW d \in Gone(f, m, "iterate", p)
      PROVE  d \in Gone(f, m, "iterate", p + 1)
  <2>1. PICK i \in 1..m : \E j \in DOMAIN f[ModSeq[i]] :
                (i < m \/ j < p) /\ d = f[ModSeq[i]][j]
    BY <1>4 DEF Gone
  <2>2. PICK j \in DOMAIN f[ModSeq[i]] : (i < m \/ j < p) /\ d = f[ModSeq[i]][j]
    BY <2>1
  <2>3. i < m \/ j < p + 1
    <3>1. i \in Nat /\ j \in Nat
      <4>1. i \in 1..Len(ModSeq)
        BY <1>1, SearchType
      <4> QED
        BY <4>1, <2>2, SearchType
    <3> QED
      BY <1>1, <2>2, <3>1
  <2> QED
    BY <1>4, <2>2, <2>3 DEF Gone
<1>5. f[ModSeq[m]][p] \in Gone(f, m, "iterate", p + 1)
  <2>1. p < p + 1
    BY <1>1
  <2> QED
    BY <1>1, <2>1 DEF Gone
<1> QED
  BY <1>3, <1>4, <1>5

\* ... until the end of the module, ...
LEMMA GoneToTheEnd ==
    ASSUME NEW f \in Searches, NEW m \in 1..Len(ModSeq), NEW p \in Nat,
           p > Len(f[ModSeq[m]]), NEW q
    PROVE  Gone(f, m, "iterate", p) = Gone(f, m, "find_dict", q)
<1>1. ASSUME NEW i \in 1..m, NEW j \in DOMAIN f[ModSeq[i]]
      PROVE  i < m \/ j < p
  <2>1. CASE i = m
    <3>1. j \in 1..Len(f[ModSeq[m]]) /\ Len(f[ModSeq[m]]) \in Nat
      BY <2>1, SearchType
    <3> QED
      BY <3>1
  <2>2. CASE i # m
    BY <2>2
  <2> QED
    BY <2>1, <2>2
<1> QED
  BY <1>1 DEF Gone

\* ... which is the beginning of the next one.
LEMMA GoneToTheNext ==
    ASSUME NEW f \in Searches, NEW m \in 1..Len(ModSeq), m < Len(ModSeq), NEW q
    PROVE  Gone(f, m + 1, "iterate", 1) = Gone(f, m, "find_dict", q)
<1>1. m \in Nat /\ Len(ModSeq) \in Nat
  BY SearchType
<1>2. ASSUME NEW i \in 1..(m + 1), NEW j \in DOMAIN f[ModSeq[i]], i < m + 1 \/ j < 1
      PROVE  i \in 1..m
  <2>1. i \in 1..Len(ModSeq)
    BY <1>1
  <2>2. j \in Nat \ {0}
    BY <2>1, SearchType
  <2> QED
    BY <1>1, <1>2, <2>2
<1>3. \A i \in 1..m : i \in 1..(m + 1) /\ i < m + 1
  BY <1>1
<1>4. ASSUME NEW d \in Gone(f, m + 1, "iterate", 1)
      PROVE  d \in Gone(f, m, "find_dict", q)
  BY <1>2, <1>4 DEF Gone
<1>5. ASSUME NEW d \in Gone(f, m, "find_dict", q)
      PROVE  d \in Gone(f, m + 1, "iterate", 1)
  BY <1>3, <1>5 DEF Gone
<1> QED
  BY <1>4, <1>5

\* All of the last module is everything.
LEMMA GoneIsAll ==
    ASSUME NEW f \in Searches, NEW q
    PROVE  Gone(f, Len(ModSeq), "find_dict", q)
               = UNION {{f[g][i] : i \in DOMAIN f[g]} : g \in GameModule}
<1>1. \A i \in 1..Len(ModSeq) : \A j \in DOMAIN f[ModSeq[i]] : f[ModSeq[i]][j] \in DataMap
  BY SearchType
<1>2. DOMAIN ModSeq = 1..Len(ModSeq)
  BY GraphAssumption
<1> DEFINE all == UNION {{f[g][i] : i \in DOMAIN f[g]} : g \in GameModule}
<1>3. ASSUME NEW d \in Gone(f, Len(ModSeq), "find_dict", q)
      PROVE  d \in all
  BY <1>2, <1>3 DEF Gone, GameModule
<1>4. ASSUME NEW d \in all
      PROVE  d \in Gone(f, Len(ModSeq), "find_dict", q)
  <2>1. PICK i \in 1..Len(ModSeq) : d \in {f[ModSeq[i]][j] : j \in DOMAIN f[ModSeq[i]]}
    BY <1>2, <1>4 DEF GameModule
  <2>2. PICK j \in DOMAIN f[ModSeq[i]] : d = f[ModSeq[i]][j]
    BY <2>1
  <2> QED
    BY <1>1, <2>1, <2>2 DEF Gone
<1> QED
  BY <1>3, <1>4

LEMMA IteratedIsGone ==
    ASSUME NEW f \in Searches, NEW m \in 1..Len(ModSeq), NEW place, NEW p
    PROVE  UNION {{f[ModSeq[i]][j] : j \in {k \in DOMAIN f[ModSeq[i]] : i < m \/ place # "iterate" \/ k < p}} :
                        i \in 1..m} = Gone(f, m, place, p)
<1>1. \A i \in 1..m : \A j \in DOMAIN f[ModSeq[i]] : f[ModSeq[i]][j] \in DataMap
  <2>1. Len(ModSeq) \in Nat /\ m \in Nat
    BY SearchType
  <2>2. 1..m \subseteq 1..Len(ModSeq)
    BY <2>1
  <2> QED
    BY <2>2, SearchType
<1> DEFINE some == UNION {{f[ModSeq[i]][j] :
                j \in {k \in DOMAIN f[ModSeq[i]] : i < m \/ place # "iterate" \/ k < p}} : i \in 1..m}
<1>2. ASSUME NEW d \in some
      PROVE  d \in Gone(f, m, place, p)
  <2>1. PICK i \in 1..m : d \in {f[ModSeq[i]][j] :
                j \in {k \in DOMAIN f[ModSeq[i]] : i < m \/ place # "iterate" \/ k < p}}
    BY <1>2
  <2>2. PICK j \in DOMAIN f[ModSeq[i]] : (i < m \/ place # "iterate" \/ j < p) /\ d = f[ModSeq[i]][j]
    BY <2>1
  <2> QED
    BY <1>1, <2>2 DEF Gone
<1>3. ASSUME NEW d \in Gone(f, m, place, p)
      PROVE  d \in some
  <2> DEFINE of(i) == {f[ModSeq[i]][j] :
                j \in {k \in DOMAIN f[ModSeq[i]] : i < m \/ place # "iterate" \/ k < p}}
  <2>1. PICK i \in 1..m : \E j \in DOMAIN f[ModSeq[i]] :
                (i < m \/ place # "iterate" \/ j < p) /\ d = f[ModSeq[i]][j]
    BY <1>3 DEF Gone
  <2>2. d \in of(i)
    BY <2>1
  <2> HIDE DEF of
  <2>3. some = UNION {of(k) : k \in 1..m}
    BY DEF of
  <2> QED
    BY <2>2, <2>3
<1> QED
  BY <1>2, <1>3
-----------------------------------------------------------------------------
\* main is past the point where it can send.
Leaving == pc \in {"exiting", "exited"}
Starting == {"unloaded", "wait_pipe", "open_pipe", "hello", "module_info", "static_inits"}

\* What the payload has gone through, at each place of main.
LEMMA GoneAfter ==
    ASSUME NEW f, NEW m, NEW place, place # "iterate", NEW p
    PROVE  Gone(f, m, place, p) = Gone(f, m, "find_dict", 0)
  BY DEF Gone

LEMMA IteratedThen ==
    ASSUME STypeOK
    PROVE  /\ pc \in Starting => Iterated = {}
           /\ pc = "iterate" => Iterated = VisitedFrom(Gone(found, mod, "iterate", pos))
           /\ pc \notin Starting \cup {"iterate"} =>
                  Iterated = VisitedFrom(Gone(found, mod, "find_dict", 0))
<1> DEFINE maps == UNION {{found[ModSeq[i]][j] :
                j \in {k \in DOMAIN found[ModSeq[i]] : i < mod \/ pc # "iterate" \/ k < pos}} :
                    i \in 1..mod}
<1>1. maps = Gone(found, mod, pc, pos)
  BY IteratedIsGone DEF STypeOK
<1>2. Iterated = IF pc \in Starting THEN {} ELSE VisitedFrom(maps)
  BY DEF Iterated, Starting
<1> HIDE DEF maps
<1>3. pc # "iterate" => Gone(found, mod, pc, pos) = Gone(found, mod, "find_dict", 0)
  BY GoneAfter
<1> QED
  BY <1>1, <1>2, <1>3 DEF Starting

\* The same of the next state.
LEMMA IteratedThen2 ==
    ASSUME STypeOK'
    PROVE  /\ pc' \in Starting => Iterated' = {}
           /\ pc' = "iterate" => Iterated' = VisitedFrom(Gone(found', mod', "iterate", pos'))
           /\ pc' \notin Starting \cup {"iterate"} =>
                  Iterated' = VisitedFrom(Gone(found', mod', "find_dict", 0))
<1> DEFINE maps == UNION {{found'[ModSeq[i]][j] :
                j \in {k \in DOMAIN found'[ModSeq[i]] : i < mod' \/ pc' # "iterate" \/ k < pos'}} :
                    i \in 1..mod'}
<1>1. maps = Gone(found', mod', pc', pos')
  BY IteratedIsGone DEF STypeOK
<1>2. Iterated' = IF pc' \in Starting THEN {} ELSE VisitedFrom(maps)
  BY DEF Iterated, Starting
<1> HIDE DEF maps
<1>3. pc' # "iterate" => Gone(found', mod', pc', pos') = Gone(found', mod', "find_dict", 0)
  BY GoneAfter
<1> QED
  BY <1>1, <1>2, <1>3 DEF Starting

LEMMA VisitedOneMore ==
    ASSUME NEW S, NEW d
    PROVE  VisitedFrom(S \cup {d}) = VisitedFrom(S) \cup Visited[d]
  BY DEF VisitedFrom

\* A step of the payload that writes nothing, ...
Quiet == /\ pipe'.queue = pipe.queue
         /\ Leaving' \/ (Iterated' = Iterated /\ pc' # "goodbye")

\* ... that writes what carries nothing, ...
Talks == /\ \E m \in {Hello, LogInfo, LogError} : pipe'.queue = Append(pipe.queue, m)
         /\ Leaving' \/ (Iterated' = Iterated /\ pc' # "goodbye")

\* ... a datamap that it has come to, the dictionary, and the last message.
SendsDatamap == \E d \in DataMap : /\ pipe'.queue = Append(pipe.queue, DatamapMsg(d))
                                   /\ Iterated' = Iterated \cup Visited[d]
                                   /\ pc' = "iterate"
SendsDict == /\ pipe'.queue = Append(pipe.queue, LinkedNameMsg(dict))
             /\ Iterated' = Iterated /\ pc = "send_dict" /\ pc' = "goodbye"
SendsGoodbye == /\ pipe'.queue = Append(pipe.queue, Goodbye)
                /\ pc = "goodbye" /\ pc' = "exiting"

\* From the search for the dictionary on, all modules have been gone through.
AllSearched == pc \in {"find_dict", "send_dict", "goodbye"} => mod = Len(ModSeq)

LEMMA PayloadDoes ==
    ASSUME STypeOK, STypeOK', AllSearched, PStep
    PROVE  /\ Quiet \/ Talks \/ SendsDatamap \/ SendsDict \/ SendsGoodbye
           /\ AllSearched'
           /\ pc # "exited" /\ (Leaving => Leaving' /\ Quiet)
           /\ pc = "goodbye" => Leaving'
           /\ UNCHANGED <<found, dict>>
<1> DEFINE OK == /\ Quiet \/ Talks \/ SendsDatamap \/ SendsDict \/ SendsGoodbye
                 /\ AllSearched'
                 /\ pc # "exited" /\ (Leaving => Leaving' /\ Quiet)
                 /\ pc = "goodbye" => Leaving'
<1>0. UNCHANGED <<found, dict>>
  BY PayloadType
<1> SUFFICES OK
  BY <1>0
<1>1. ASSUME NEW m, NEW next, NEW nmod, NEW npos, Send(m, next, nmod, npos)
      PROVE  \/ pipe'.queue = pipe.queue /\ Leaving'
             \/ /\ pipe'.queue = Append(pipe.queue, m)
                /\ pc' = next /\ mod' = nmod /\ pos' = npos
  BY <1>1 DEF Send, Written, CleanExit, Goto, STypeOK, Pipe, Leaving
<1>2. /\ Connected.queue = pipe.queue /\ ClientClosed.queue = pipe.queue
  BY DEF Connected, ClientClosed, STypeOK, Pipe
<1>3. pipe'.queue = pipe.queue /\ Leaving' /\ pc \notin {"exited"} => OK
  BY DEF Quiet, Leaving, AllSearched
<1>4. SendErrAndExit /\ ~Leaving => OK
  <2>1. SUFFICES ASSUME SendErrAndExit, ~Leaving PROVE OK
    OBVIOUS
  <2>2. \/ pipe'.queue = pipe.queue /\ Leaving'
        \/ pipe'.queue = Append(pipe.queue, LogError) /\ Leaving'
    BY <1>1, <2>1 DEF SendErrAndExit, Leaving
  <2> QED
    BY <1>3, <2>1, <2>2 DEF Talks, Leaving, AllSearched
<1>5. ASSUME Leaving', pc' = "exited" \/ pc' = "exiting", pc # "exited", pipe'.queue = pipe.queue
      PROVE  OK
  BY <1>3, <1>5
<1>6. CASE WaitPipe \/ OpenPipe
  <2>1. pc \in Starting /\ (Leaving' \/ pc' \in Starting) /\ pipe'.queue = pipe.queue
    BY <1>2, <1>6 DEF WaitPipe, OpenPipe, Starting, CleanExit, Goto, Leaving
  <2> QED
    BY <2>1, IteratedThen, IteratedThen2 DEF Quiet, Leaving, AllSearched, Starting
<1>7. CASE SendHello
  <2>1. \/ pipe'.queue = pipe.queue /\ Leaving'
        \/ pipe'.queue = Append(pipe.queue, Hello) /\ pc' = "module_info"
    BY <1>1, <1>7 DEF SendHello
  <2> QED
    BY <1>7, <2>1, IteratedThen, IteratedThen2
       DEF SendHello, Quiet, Talks, Leaving, AllSearched, Starting
<1>8. CASE GetModuleInfo
  <2>1. CASE SendErrAndExit
    BY <1>4, <1>8, <2>1 DEF GetModuleInfo, Leaving
  <2>2. CASE Goto("static_inits", 1, 1) /\ UNCHANGED pipe
    BY <1>8, <2>2, IteratedThen, IteratedThen2
       DEF GetModuleInfo, Goto, Quiet, Leaving, AllSearched, Starting
  <2> QED
    BY <1>8, <2>1, <2>2 DEF GetModuleInfo
<1>9. CASE FindStaticInits
  <2>1. CASE SendErrAndExit
    BY <1>4, <1>9, <2>1 DEF FindStaticInits, Leaving
  <2>2. CASE ~SendErrAndExit
    <3>1. \/ pipe'.queue = pipe.queue /\ Leaving'
          \/ pipe'.queue = Append(pipe.queue, LogInfo) /\ pc' = "static_inits"
          \/ pipe'.queue = Append(pipe.queue, LogInfo) /\ pc' = "iterate" /\ mod' = 1 /\ pos' = 1
      BY <1>1, <1>9, <2>2 DEF FindStaticInits
    <3>2. pc' = "iterate" /\ mod' = 1 /\ pos' = 1 => Iterated' = {}
      BY IteratedThen2, GoneAtStart DEF STypeOK, VisitedFrom
    <3> QED
      BY <1>9, <3>1, <3>2, IteratedThen, IteratedThen2
         DEF FindStaticInits, Quiet, Talks, Leaving, AllSearched, Starting
  <2> QED
    BY <2>1, <2>2
<1>10. CASE SendDatamap
  <2> DEFINE d == found[ModSeq[mod]][pos]
  <2>1. pc = "iterate" /\ d \in DataMap /\ pos \in DOMAIN found[ModSeq[mod]]
    BY <1>10, SentAreMessages, SearchType DEF SendDatamap, STypeOK
  <2>2. \/ pipe'.queue = pipe.queue /\ Leaving'
        \/ /\ pipe'.queue = Append(pipe.queue, DatamapMsg(d))
           /\ pc' = "iterate" /\ mod' = mod /\ pos' = pos + 1
    BY <1>1, <1>10 DEF SendDatamap
  <2>3. Gone(found, mod, "iterate", pos + 1) = Gone(found, mod, "iterate", pos) \cup {d}
    BY <2>1, GoneOneMore DEF STypeOK
  <2> HIDE DEF d
  <2>4. pc' = "iterate" /\ mod' = mod /\ pos' = pos + 1 => Iterated' = Iterated \cup Visited[d]
    <3>1. Iterated = VisitedFrom(Gone(found, mod, "iterate", pos))
      BY <2>1, IteratedThen
    <3>2. pc' = "iterate" /\ mod' = mod /\ pos' = pos + 1 =>
              Iterated' = VisitedFrom(Gone(found, mod, "iterate", pos + 1))
      BY <1>0, IteratedThen2
    <3> QED
      BY <2>3, <3>1, <3>2, VisitedOneMore
  <2> QED
    BY <2>1, <2>2, <2>4 DEF SendsDatamap, Quiet, Leaving, AllSearched
<1>11. CASE EndOfModule
  <2>1. pc = "iterate" /\ pos > Len(found[ModSeq[mod]]) /\ pos \in Nat
    BY <1>11 DEF EndOfModule, STypeOK
  <2>2. CASE SendErrAndExit
    BY <1>4, <2>1, <2>2 DEF Leaving
  <2>3. CASE ~SendErrAndExit
    <3>1. /\ pipe' = pipe
          /\ \/ mod < Len(ModSeq) /\ pc' = "iterate" /\ mod' = mod + 1 /\ pos' = 1
             \/ ~(mod < Len(ModSeq)) /\ pc' = "find_dict" /\ mod' = mod
      BY <1>11, <2>3 DEF EndOfModule, Goto
    <3>2. Gone(found, mod, "iterate", pos) = Gone(found, mod, "find_dict", 0)
      BY <2>1, GoneToTheEnd DEF STypeOK
    <3>3. mod < Len(ModSeq) => Gone(found, mod + 1, "iterate", 1) = Gone(found, mod, "find_dict", 0)
      BY GoneToTheNext DEF STypeOK
    <3>4. Iterated' = Iterated
      <4>1. Iterated = VisitedFrom(Gone(found, mod, "find_dict", 0))
        BY <2>1, <3>2, IteratedThen
      <4>2. CASE mod < Len(ModSeq) /\ pc' = "iterate" /\ mod' = mod + 1 /\ pos' = 1
        BY <1>0, <3>3, <4>1, <4>2, IteratedThen2
      <4>3. CASE pc' = "find_dict" /\ mod' = mod
        BY <1>0, <4>1, <4>3, IteratedThen2 DEF Starting
      <4> QED
        BY <3>1, <4>2, <4>3
    <3>5. ~(mod < Len(ModSeq)) => mod = Len(ModSeq)
      BY FoundType DEF STypeOK
    <3> QED
      BY <2>1, <3>1, <3>4, <3>5 DEF Quiet, Leaving, AllSearched
  <2> QED
    BY <2>2, <2>3
<1>12. CASE FindEntFactoryDict
  <2>1. CASE SendErrAndExit
    BY <1>4, <1>12, <2>1 DEF FindEntFactoryDict, Leaving
  <2>2. CASE ~SendErrAndExit
    <3>1. \/ pipe'.queue = pipe.queue /\ Leaving'
          \/ /\ pipe'.queue = Append(pipe.queue, LogInfo)
             /\ pc' \in {"find_dict", "send_dict"} /\ mod' = mod
      BY <1>1, <1>12, <2>2 DEF FindEntFactoryDict
    <3> QED
      BY <1>0, <1>12, <3>1, IteratedThen, IteratedThen2
         DEF FindEntFactoryDict, Quiet, Talks, Leaving, AllSearched, Starting
  <2> QED
    BY <2>1, <2>2
<1>13. CASE SendEntFactoryKv
  <2>1. CASE SendErrAndExit
    BY <1>4, <1>13, <2>1 DEF SendEntFactoryKv, Leaving
  <2>2. CASE ~SendErrAndExit
    <3>1. \/ pipe'.queue = pipe.queue /\ Leaving'
          \/ /\ pipe'.queue = Append(pipe.queue, LinkedNameMsg(dict))
             /\ pc' = "goodbye" /\ mod' = mod
      BY <1>1, <1>13, <2>2 DEF SendEntFactoryKv
    <3> QED
      BY <1>0, <1>13, <3>1, IteratedThen, IteratedThen2
         DEF SendEntFactoryKv, Quiet, SendsDict, Leaving, AllSearched, Starting
  <2> QED
    BY <2>1, <2>2
<1>14. CASE SendGoodbye
  <2>1. \/ pipe'.queue = pipe.queue /\ Leaving'
        \/ pipe'.queue = Append(pipe.queue, Goodbye) /\ pc' = "exiting"
    BY <1>1, <1>14 DEF SendGoodbye
  <2> QED
    BY <1>14, <2>1 DEF SendGoodbye, SendsGoodbye, Quiet, Leaving, AllSearched
<1>15. CASE Exit
  <2>1. pipe'.queue = pipe.queue /\ pc' = "exited" /\ pc = "exiting"
    BY <1>2, <1>15 DEF Exit, Goto
  <2> QED
    BY <2>1 DEF Quiet, Leaving, AllSearched
<1> QED
  BY <1>6, <1>7, <1>8, <1>9, <1>10, <1>11, <1>12, <1>13, <1>14, <1>15 DEF PStep
-----------------------------------------------------------------------------
\* GOODBYE is the last thing that the payload writes, and when it does everything
\* has been stored or is on its way.
GoodbyeIsLast ==
    \A i \in DOMAIN pipe.queue : pipe.queue[i].type = "GOODBYE" =>
        /\ i = Len(pipe.queue)
        /\ Leaving
        /\ Live => Coming = Everything /\ NamesComing = dict

\* Until then what is stored or on its way is what has been gone through.
AllComing ==
    Live /\ pipe.server # "closed" /\ ~Leaving =>
        /\ Coming = Iterated
        /\ NamesComing = IF pc = "goodbye" THEN dict ELSE {}

\* The file is opened when everything has been stored.
FileFollows ==
    /\ result = "ok" => file = OldFile
    /\ result = "writing" => /\ file = PartialFile
                             /\ Stored = Everything /\ linked_names.links = dict

SentInv ==
    /\ AllSearched
    /\ GoodbyeIsLast
    /\ AllComing
    /\ FileFollows
    /\ stage = "create_pipe" => pipe.server = "none"

LEMMA InitSent == Init => SentInv
<1> SUFFICES ASSUME Init PROVE SentInv
  OBVIOUS
<1>1. pipe.queue = <<>> /\ pipe.server = "none" /\ pc = "unloaded" /\ file = OldFile
      /\ result = "ok" /\ dm_hashmap = {} /\ linked_names.links = {}
  BY DEF Init, IInit, NoPipe, PInit, RInit
<1>2. Coming = {} /\ NamesComing = {} /\ Iterated = {}
  BY <1>1, CarriedByNone DEF Coming, NamesComing, Iterated, Stored
<1> QED
  BY <1>1, <1>2 DEF SentInv, AllSearched, GoodbyeIsLast, AllComing, FileFollows

\* Everything depends on what is found only.
LEMMA SameEverything == UNCHANGED found => Everything' = Everything
  BY DEF Everything

LEMMA SameContext ==
    UNCHANGED rvars => /\ Stored' = Stored /\ linked_names'.links = linked_names.links
                       /\ Live' = Live /\ result' = result /\ file' = file
  BY DEF rvars, Stored, Live

\* A step after which nothing is on its way that was not, and nothing is lost.
LEMMA SameSent ==
    ASSUME SentInv, UNCHANGED <<rvars, found, dict>>,
           pipe'.queue = pipe.queue, pipe'.server # "closed" => pipe.server # "closed",
           AllSearched', Leaving => Leaving',
           Leaving' \/ (Iterated' = Iterated /\ (pc' = "goodbye" <=> pc = "goodbye")),
           stage' = "create_pipe" => pipe'.server = "none"
    PROVE  SentInv'
<1>1. Coming' = Coming /\ NamesComing' = NamesComing
  BY SameContext DEF Coming, NamesComing
<1>2. Everything' = Everything
  BY SameEverything
<1>3. GoodbyeIsLast'
  BY <1>1, <1>2, SameContext DEF SentInv, GoodbyeIsLast
<1>4. AllComing'
  BY <1>1, SameContext DEF SentInv, AllComing
<1>5. FileFollows'
  BY <1>2, SameContext DEF SentInv, FileFollows
<1> QED
  BY <1>3, <1>4, <1>5 DEF SentInv

\* The exe closes its end of the pipe.
LEMMA ClosedSent ==
    ASSUME STypeOK, ServerListens, SentInv, UNCHANGED <<rvars, pvars>>, pipe' = ServerClosed,
           stage' # "create_pipe"
    PROVE  SentInv'
<1>1. pipe'.queue = <<>> /\ pipe'.server # "open" /\ (pipe'.server = "none" <=> pipe.server = "none")
  BY ClosedPipe DEF STypeOK
<1>2. /\ UNCHANGED <<pc, mod, pos, found, dict>>
      /\ Iterated' = Iterated /\ Leaving' = Leaving /\ AllSearched'
  BY DEF pvars, Iterated, Leaving, SentInv, AllSearched
<1>3. CASE pipe.server = "none"
  <2>1. pipe'.queue = pipe.queue
    BY <1>1, <1>3 DEF ServerListens
  <2> QED
    BY <1>1, <1>2, <1>3, <2>1, SameSent
<1>4. CASE pipe.server # "none"
  <2>1. pipe'.server = "closed"
    BY <1>1, <1>4, ClosedPipe DEF STypeOK, Pipe, ServerClosed
  <2>2. GoodbyeIsLast' /\ AllComing'
    BY <1>1, <2>1 DEF GoodbyeIsLast, AllComing
  <2>3. FileFollows'
    BY <1>2, SameEverything, SameContext DEF SentInv, FileFollows
  <2> QED
    BY <1>2, <2>2, <2>3 DEF SentInv
<1> QED
  BY <1>3, <1>4

\* main writes a message that it writes while there is more to come.
LEMMA WrittenSent ==
    ASSUME STypeOK, SentInv, ~Leaving, UNCHANGED <<rvars, found, dict, stage>>,
           pipe'.server = pipe.server,
           NEW m, m.type # "GOODBYE", pipe'.queue = Append(pipe.queue, m), AllSearched',
           pc # "goodbye",
           Leaving' \/ (IF m.type = "LINKED_NAME" THEN m.data ELSE {}) =
                            (IF pc' = "goodbye" THEN dict ELSE {}),
           Leaving' \/ Iterated' = Iterated \cup (IF m.type = "DATAMAP" THEN m.data ELSE {})
    PROVE  SentInv'
<1>1. pipe.queue \in Seq(Message)
  BY DEF STypeOK, Pipe
<1>2. \A type : KeptData(pipe'.queue, type) =
                   KeptData(pipe.queue, type) \cup (IF m.type = type THEN m.data ELSE {})
  BY <1>1, CarriedWhenWritten
<1>3. /\ Coming' = Coming \cup (IF m.type = "DATAMAP" THEN m.data ELSE {})
      /\ NamesComing' = NamesComing \cup (IF m.type = "LINKED_NAME" THEN m.data ELSE {})
  BY <1>2, SameContext DEF Coming, NamesComing
<1>4. \A i \in DOMAIN pipe.queue : pipe.queue[i].type # "GOODBYE"
  BY DEF SentInv, GoodbyeIsLast
<1>5. \A i \in DOMAIN pipe'.queue : pipe'.queue[i].type # "GOODBYE"
  <2>1. ASSUME NEW i \in DOMAIN pipe'.queue
        PROVE  pipe'.queue[i] = m \/ (i \in DOMAIN pipe.queue /\ pipe'.queue[i] = pipe.queue[i])
    BY <1>1, <2>1
  <2> QED
    BY <1>4, <2>1
<1>6. AllComing'
  BY <1>3, SameContext DEF SentInv, AllComing
<1>7. FileFollows'
  BY SameEverything, SameContext DEF SentInv, FileFollows
<1> QED
  BY <1>5, <1>6, <1>7 DEF SentInv, GoodbyeIsLast
LEMMA PayloadSent ==
    ASSUME STypeOK, STypeOK', ServerListens, SentInv, PStep, UNCHANGED <<rvars, stage>>
    PROVE  SentInv'
<1>1. /\ Quiet \/ Talks \/ SendsDatamap \/ SendsDict \/ SendsGoodbye
      /\ AllSearched'
      /\ pc # "exited" /\ (Leaving => Leaving' /\ Quiet)
      /\ pc = "goodbye" => Leaving'
      /\ UNCHANGED <<found, dict>>
  BY PayloadDoes DEF SentInv
<1>2. /\ pipe'.server = pipe.server /\ (pipe.server # "open" => pipe'.queue = pipe.queue)
      /\ stage' = "create_pipe" => pipe'.server = "none"
  BY PayloadPipe DEF SentInv
<1>3. pipe.queue \in Seq(Message)
  BY DEF STypeOK, Pipe
<1>4. \A m : Append(pipe.queue, m) # pipe.queue
  BY <1>3
<1>5. CASE Quiet
  BY <1>1, <1>2, <1>5, SameSent DEF Quiet, Leaving
<1>6. CASE ~Quiet
  <2>1. ~Leaving
    BY <1>1, <1>6
  <2>2. CASE Talks /\ pc # "goodbye"
    <3>1. PICK m \in {Hello, LogInfo, LogError} : pipe'.queue = Append(pipe.queue, m)
      BY <2>2 DEF Talks
    <3>2. m.type \notin {"GOODBYE", "DATAMAP", "LINKED_NAME"}
      BY DEF Hello, LogInfo, LogError
    <3>3. Leaving' \/ (Iterated' = Iterated /\ pc' # "goodbye")
      BY <2>2 DEF Talks
    <3>4. AllSearched' /\ UNCHANGED <<rvars, found, dict, stage>> /\ pipe'.server = pipe.server
      BY <1>1, <1>2
    <3> QED
      BY <2>1, <2>2, <3>1, <3>2, <3>3, <3>4, WrittenSent
  <2>3. CASE SendsDatamap /\ pc # "goodbye"
    <3>1. PICK d \in DataMap : /\ pipe'.queue = Append(pipe.queue, DatamapMsg(d))
                               /\ Iterated' = Iterated \cup Visited[d]
                               /\ pc' = "iterate"
      BY <2>3 DEF SendsDatamap
    <3> DEFINE m == DatamapMsg(d)
    <3>2. m.type = "DATAMAP" /\ m.data = Visited[d]
      BY DEF DatamapMsg
    <3>3. AllSearched' /\ UNCHANGED <<rvars, found, dict, stage>> /\ pipe'.server = pipe.server
      BY <1>1, <1>2
    <3>4. pipe'.queue = Append(pipe.queue, m)
      BY <3>1
    <3> HIDE DEF m
    <3> QED
      BY <2>1, <2>3, <3>1, <3>2, <3>3, <3>4, WrittenSent
  <2>4. CASE SendsDict
    <3> DEFINE m == LinkedNameMsg(dict)
    <3>1. m.type = "LINKED_NAME" /\ m.data = dict
      BY DEF LinkedNameMsg
    <3>2. AllSearched' /\ UNCHANGED <<rvars, found, dict, stage>> /\ pipe'.server = pipe.server
      BY <1>1, <1>2
    <3>3. /\ pipe'.queue = Append(pipe.queue, m)
          /\ Iterated' = Iterated /\ pc # "goodbye" /\ pc' = "goodbye"
      BY <2>4 DEF SendsDict
    <3> HIDE DEF m
    <3> QED
      BY <2>1, <3>1, <3>2, <3>3, WrittenSent
  <2>5. CASE SendsGoodbye
    <3>1. /\ pipe'.queue = Append(pipe.queue, Goodbye)
          /\ pc = "goodbye" /\ pc' = "exiting" /\ Leaving'
      BY <2>5 DEF SendsGoodbye, Leaving
    <3>2. pipe.server = "open"
      BY <1>2, <1>4, <3>1
    <3> DEFINE m == Goodbye
    <3>3. ASSUME NEW type, type # "GOODBYE"
          PROVE  KeptData(pipe'.queue, type) = KeptData(pipe.queue, type)
      <4>1. m.type = "GOODBYE" /\ pipe'.queue = Append(pipe.queue, m)
        BY <3>1 DEF Goodbye
      <4> HIDE DEF m
      <4>2. KeptData(Append(pipe.queue, m), type) =
                KeptData(pipe.queue, type) \cup (IF m.type = type THEN m.data ELSE {})
        BY <1>3, CarriedWhenWritten
      <4> QED
        BY <3>3, <4>1, <4>2
    <3>4. Coming' = Coming /\ NamesComing' = NamesComing
      BY <3>3, SameContext DEF Coming, NamesComing
    <3>5. Iterated = Everything
      <4>1. Iterated = VisitedFrom(Gone(found, mod, "find_dict", 0))
        BY <3>1, IteratedThen DEF Starting
      <4>2. mod = Len(ModSeq)
        BY <3>1 DEF SentInv, AllSearched
      <4> QED
        BY <4>1, <4>2, GoneIsAll DEF Everything, STypeOK
    <3>6. Live' => Coming' = Everything' /\ NamesComing' = dict'
      BY <1>1, <2>1, <3>1, <3>2, <3>4, <3>5, SameContext, SameEverything DEF SentInv, AllComing
    <3>7. ASSUME NEW i \in DOMAIN pipe'.queue, pipe'.queue[i].type = "GOODBYE"
          PROVE  i = Len(pipe'.queue)
      <4>1. i = Len(pipe'.queue) \/ (i \in DOMAIN pipe.queue /\ pipe'.queue[i] = pipe.queue[i])
        BY <1>3, <3>1, <3>7
      <4> QED
        BY <2>1, <3>7, <4>1 DEF SentInv, GoodbyeIsLast
    <3>8. GoodbyeIsLast'
      BY <3>1, <3>6, <3>7 DEF GoodbyeIsLast
    <3>9. FileFollows'
      BY <1>1, SameEverything, SameContext DEF SentInv, FileFollows
    <3> QED
      BY <1>1, <1>2, <3>1, <3>8, <3>9 DEF SentInv, AllComing
  <2>6. pc = "goodbye" => ~Talks /\ ~SendsDatamap
    <3>1. ASSUME pc = "goodbye", PStep PROVE SendGoodbye
      BY <3>1 DEF PStep, WaitPipe, OpenPipe, SendHello, GetModuleInfo, FindStaticInits,
         SendDatamap, EndOfModule, FindEntFactoryDict, SendEntFactoryKv, Exit
    <3>2. ASSUME pc = "goodbye", SendGoodbye
          PROVE  pipe'.queue = pipe.queue \/ pipe'.queue = Append(pipe.queue, Goodbye)
      BY <3>2 DEF SendGoodbye, Send, Written, STypeOK, Pipe
    <3>3. \A m, n : m # n => Append(pipe.queue, m) # Append(pipe.queue, n)
      BY <1>3
    <3>4. Goodbye \notin {Hello, LogInfo, LogError} /\ \A d \in DataMap : DatamapMsg(d) # Goodbye
      BY DEF Goodbye, Hello, LogInfo, LogError, DatamapMsg
    <3>5. ASSUME pc = "goodbye", NEW m, m # Goodbye
          PROVE  pipe'.queue # Append(pipe.queue, m)
      BY <1>4, <3>1, <3>2, <3>3, <3>5
    <3>6. pc = "goodbye" => ~Talks
      BY <3>4, <3>5 DEF Talks
    <3>7. pc = "goodbye" => ~SendsDatamap
      BY <3>4, <3>5 DEF SendsDatamap
    <3> QED
      BY <3>6, <3>7
  <2> QED
    BY <1>1, <1>6, <2>2, <2>3, <2>4, <2>5, <2>6
<1> QED
  BY <1>5, <1>6
\* A message is read.
LEMMA ReadSent ==
    ASSUME STypeOK, SentInv, ReadMessage
    PROVE  SentInv'
<1> DEFINE m == Head(pipe.queue)
<1>1. /\ pipe.queue \in Seq(Message) /\ pipe.queue # <<>>
      /\ pipe'.queue = Tail(pipe.queue) /\ pipe'.server = pipe.server
      /\ UNCHANGED <<pc, mod, pos, found, dict>> /\ stage' = "read" /\ result = "ok"
  BY DEF ReadMessage, Read, STypeOK, Pipe, Proceed, pvars
<1>2. /\ Iterated' = Iterated /\ Leaving' = Leaving /\ AllSearched' /\ Everything' = Everything
  BY <1>1, SameEverything DEF Iterated, Leaving, SentInv, AllSearched
<1>3. Live' => Coming' = Coming /\ NamesComing' = NamesComing
  BY ReadKeepsComing DEF Live
<1>4. Live
  BY <1>1 DEF Live
<1>5. GoodbyeIsLast'
  <2>1. ASSUME NEW i \in DOMAIN pipe'.queue, pipe'.queue[i].type = "GOODBYE"
        PROVE  /\ i + 1 \in DOMAIN pipe.queue /\ pipe.queue[i + 1].type = "GOODBYE"
               /\ i + 1 = Len(pipe.queue) => i = Len(pipe'.queue)
    BY <1>1, <2>1
  <2>2. ASSUME NEW i \in DOMAIN pipe'.queue, pipe'.queue[i].type = "GOODBYE"
        PROVE  i = Len(pipe'.queue) /\ Leaving' /\ (Live' => Coming' = Everything' /\ NamesComing' = dict')
    BY <1>1, <1>2, <1>3, <1>4, <2>1, <2>2 DEF SentInv, GoodbyeIsLast
  <2> QED
    BY <2>2 DEF GoodbyeIsLast
<1>6. AllComing'
  BY <1>1, <1>2, <1>3, <1>4 DEF SentInv, AllComing
<1>7. FileFollows'
  <2>1. Receive(m)
    BY DEF ReadMessage
  <2> HIDE DEF m
  <2>2. CASE ~RecvGoodbye(m)
    <3>1. file' = file /\ result' # "writing"
      BY <1>1, <2>1, <2>2
         DEF Receive, RecvHello, RecvBeforeHello, RecvBad, RecvLogInfo, RecvLogError, RecvDatamap,
             RecvDatamapFails, RecvLinkedName, RecvLinkedNameFails, Fail, KeepZone, ReuseZone
    <3> QED
      BY <1>1, <3>1 DEF SentInv, FileFollows
  <2>3. CASE RecvGoodbye(m)
    <3>1. m.type = "GOODBYE" /\ UNCHANGED <<dm_hashmap, linked_names>>
      BY <2>3 DEF RecvGoodbye, Expect
    <3>2. 1 \in DOMAIN pipe.queue /\ pipe.queue[1] = m
      BY <1>1 DEF m
    <3>3. 1 = Len(pipe.queue) /\ Coming = Everything /\ NamesComing = dict
      BY <1>4, <3>1, <3>2 DEF SentInv, GoodbyeIsLast
    <3>4. DOMAIN Tail(pipe.queue) = {}
      <4> DEFINE t == Tail(pipe.queue)
      <4>1. t \in Seq(Message) /\ Len(t) = 0
        BY <1>1, <3>3
      <4> HIDE DEF t
      <4>2. DOMAIN t = 1..0
        BY <4>1
      <4> QED
        BY <4>2 DEF t
    <3>5. Coming' = Stored' /\ NamesComing' = linked_names'.links
      BY <1>1, <3>4 DEF Coming, NamesComing, KeptData
    <3>6. result' = "writing" => Stored' = Everything' /\ linked_names'.links = dict'
      BY <1>1, <1>2, <1>3, <3>3, <3>5 DEF Live
    <3>7. result' # "ok" /\ (result' = "writing" => file' = PartialFile)
      BY <2>3 DEF RecvGoodbye, Fail
    <3> QED
      BY <3>6, <3>7 DEF FileFollows
  <2> QED
    BY <2>2, <2>3
<1> QED
  BY <1>1, <1>2, <1>5, <1>6, <1>7 DEF SentInv

LEMMA StepSent == STypeOK /\ STypeOK' /\ ServerListens /\ SentInv /\ [Next]_vars => SentInv'
<1> SUFFICES ASSUME STypeOK, STypeOK', ServerListens, SentInv, [Next]_vars PROVE SentInv'
  OBVIOUS
<1>0. pipe \in Pipe
  BY DEF STypeOK
<1>1. ASSUME UNCHANGED <<rvars, pvars>>, pipe'.queue = pipe.queue,
             pipe'.server # "closed" => pipe.server # "closed",
             stage' = "create_pipe" => pipe'.server = "none"
      PROVE  SentInv'
  <2>1. /\ UNCHANGED <<pc, found, dict>>
        /\ Iterated' = Iterated /\ Leaving' = Leaving /\ AllSearched'
    BY <1>1 DEF pvars, Iterated, Leaving, SentInv, AllSearched
  <2> QED
    BY <1>1, <2>1, SameSent
<1>2. ASSUME UNCHANGED <<rvars, pvars, pipe>>, stage' = "create_pipe" => stage = "create_pipe"
      PROVE  SentInv'
  BY <1>1, <1>2 DEF SentInv
<1>3. CASE Prepare /\ ~CreatePipe /\ ~ClosePipe
  BY <1>2, <1>3
     DEF Prepare, IStep, Find, own_vars, GameFound, VirtualAlloc, WritePath, StartThread, HideAlloc,
         CreateEvent, ConnectPipe, AwaitConnect, RestoreAlloc, FreeAlloc, Fails
<1>4. CASE Prepare /\ CreatePipe
  <2>1. CASE Fails("hide_alloc")
    BY <1>2, <1>4, <2>1 DEF Prepare, Fails
  <2>2. CASE pipe' = Created /\ stage' = "find_game"
    <3>1. pipe'.queue = pipe.queue /\ pipe.server # "closed"
      BY <1>0, <1>4, <2>2, ClosedPipe DEF CreatePipe, SentInv
    <3> QED
      BY <1>1, <1>4, <2>2, <3>1 DEF Prepare
  <2> QED
    BY <1>4, <2>1, <2>2 DEF CreatePipe
<1>5. CASE Prepare /\ ClosePipe
  BY <1>5, ClosedSent DEF Prepare, ClosePipe
<1>6. CASE PrepareFails \/ ReadFails \/ ReadBrokenPipe \/ AllocMsgCtx \/ LeaveLoop \/ UserAnswers
  BY <1>2, <1>6 DEF PrepareFails, AwaitFails, ReadFails, ReadBrokenPipe, LoopFails, Fails,
     AllocMsgCtx, LeaveLoop, Proceed, UserAnswers, Find, own_vars
<1>7. CASE ReadMessage
  BY <1>7, ReadSent
<1>8. CASE WriteCollection
  <2>1. /\ UNCHANGED <<pipe, pvars>> /\ stage' = "read" /\ ~Live'
        /\ result' \notin {"ok", "writing"}
    BY <1>8 DEF WriteCollection, WriteFile, Proceed, Live
  <2>2. AllSearched' /\ Leaving' = Leaving
    BY <2>1 DEF pvars, SentInv, AllSearched, Leaving
  <2> QED
    BY <2>1, <2>2 DEF SentInv, GoodbyeIsLast, AllComing, FileFollows
<1>9. CASE LoadPayload
  <2>1. pc = "unloaded" /\ pc' = "wait_pipe" /\ UNCHANGED <<rvars, found, dict, pipe, stage>>
    BY <1>9 DEF LoadPayload, StartMain, ivars, own_vars
  <2>2. Iterated' = Iterated /\ AllSearched' /\ Leaving' = Leaving
    BY <2>1 DEF Iterated, AllSearched, Leaving
  <2> QED
    BY <2>1, <2>2, SameSent DEF SentInv
<1>10. CASE LoadFails \/ UNCHANGED vars
  BY <1>2, <1>10 DEF LoadFails, ivars, own_vars, vars
<1>11. CASE PayloadStep
  BY <1>11, PayloadSent DEF PayloadStep, ivars, own_vars
<1>12. CASE PayloadFails
  <2>1. /\ pc' = "exiting" /\ UNCHANGED <<rvars, found, dict, pipe, stage>>
    BY <1>12 DEF PayloadFails, PackFails, CleanExit, Goto, ivars, own_vars
  <2>2. AllSearched' /\ Leaving'
    BY <2>1 DEF AllSearched, Leaving
  <2> QED
    BY <2>1, <2>2, SameSent DEF SentInv
<1>13. CASE LoadFaults \/ GameDies
  <2>1. /\ pc' = IF pc = "unloaded" THEN pc ELSE "exited"
        /\ pipe'.queue = pipe.queue /\ pipe'.server = pipe.server
        /\ UNCHANGED <<rvars, mod, pos, found, dict, stage>>
    BY <1>0, <1>13, ClosedPipe DEF LoadFaults, GameDies, Die, ivars, own_vars
  <2>2. CASE pc = "unloaded"
    BY <1>1, <2>1, <2>2 DEF pvars, SentInv
  <2>3. CASE pc # "unloaded"
    <3>1. AllSearched' /\ Leaving'
      BY <2>1, <2>3 DEF AllSearched, Leaving
    <3> QED
      BY <2>1, <3>1, SameSent DEF SentInv
  <2> QED
    BY <2>2, <2>3
<1>14. CASE ExeDies
  BY <1>14, ClosedSent DEF ExeDies
<1> QED
  BY <1>3, <1>4, <1>5, <1>6, <1>7, <1>8, <1>9, <1>10, <1>11, <1>12, <1>13, <1>14 DEF Next, Exe

LEMMA SessionSends == Spec => [](STypeOK /\ ServerListens /\ SentInv)
  BY InitSType, StepSType, InitListens, StepListens, InitSent, StepSent, PTL DEF Spec

\* As long as the loop reads and the payload sends (dll_main.c, ch_send.c), what the
\* exe has stored and what is still in the pipe is what main has gone through, for
\* every game, pipe and search.
THEOREM NothingIsLost == Spec => []NothingLost
<1>1. STypeOK /\ ServerListens /\ SentInv => NothingLost
  <2> SUFFICES ASSUME ServerListens, SentInv, stage = "read", Live, ~PayloadGone, pc # "exiting"
               PROVE  Stored \cup InPipe("DATAMAP") = Iterated
    BY DEF NothingLost
  <2>1. pipe.server = "open"
    BY DEF ServerListens, Early, CleanUp
  <2>2. ~Leaving
    BY DEF Leaving, PayloadGone
  <2> QED
    BY <2>1, <2>2, InPipeIsCarried DEF SentInv, AllComing, Coming
<1> QED
  BY <1>1, SessionSends, PTL
-----------------------------------------------------------------------------
LEMMA StepReplaces ==
    STypeOK /\ SentInv /\ [Next]_vars => [Promise!Truncate \/ Promise!Replace]_<<file, NewFile(Everything, dict)>>
<1> SUFFICES ASSUME STypeOK, SentInv, [Next]_vars
             PROVE  \/ Promise!Truncate \/ Promise!Replace
                    \/ UNCHANGED <<file, NewFile(Everything, dict)>>
  OBVIOUS
<1> DEFINE coll == NewFile(Everything, dict)
<1>1. UNCHANGED <<found, dict>>
  <2>1. CASE PayloadStep
    BY <2>1, PayloadType DEF PayloadStep
  <2>2. CASE ~PayloadStep
    BY <2>2 DEF Next, Exe, vars, pvars, Prepare, PrepareFails, AwaitFails, ReadFails, ReadBrokenPipe,
       LoopFails, AllocMsgCtx, LeaveLoop, UserAnswers, ReadMessage, WriteCollection, LoadPayload,
       StartMain, LoadFails, LoadFaults, GameDies, Die, ExeDies, PayloadFails, PackFails, CleanExit, Goto
  <2> QED
    BY <2>1, <2>2
<1>2. coll' = coll
  BY <1>1, SameEverything DEF NewFile
<1>3. [RNext]_rvars
  BY StepIsReceiver
<1>4. CASE file' = file
  BY <1>2, <1>4
<1>5. CASE WriteFile /\ file' # file
  <2>1. file = PartialFile /\ file' = coll
    BY <1>5 DEF WriteFile, SentInv, FileFollows
  <2> QED
    BY <1>2, <2>1 DEF Promise!Replace
<1>6. CASE file' # file /\ \E m \in Message : Receive(m)
  <2>1. file = OldFile /\ file' = PartialFile
    BY <1>6 DEF Receive, RecvHello, RecvBeforeHello, RecvBad, RecvLogInfo, RecvLogError, RecvDatamap,
             RecvDatamapFails, RecvLinkedName, RecvLinkedNameFails, RecvGoodbye, Expect, SentInv,
             FileFollows
  <2> QED
    BY <1>2, <2>1 DEF Promise!Truncate
<1> QED
  BY <1>3, <1>4, <1>5, <1>6 DEF RNext, rvars

\* A session, whatever fails and whoever dies, replaces the collection file once and
\* by everything the search found, or leaves it as it was, or, when GOODBYE came but
\* the disk is full, leaves it opened and not fully written (ch_recv.c,
\* ch_write_all_to_file).
THEOREM SessionTransfers == Spec => FileIsReplacedWhole
<1>1. Init => Promise!TInit
  BY DEF Init, RInit, Promise!TInit
<1> QED
  BY <1>1, StepReplaces, SessionSends, PTL DEF Spec, FileIsReplacedWhole, Promise!TSpec
-----------------------------------------------------------------------------
\* A session that goes on after the loop has a reason.
ToldInv ==
    /\ stage \in {"free_alloc", "close_pipe", "done"} /\ ok => ~Live
    /\ result = "finished" => file.state = "new" \/ unpacked[HeadZone] = LogError

\* The loop ends with "finished" when the file is written, or on a LOG_ERROR.
LEMMA ReceiveTells ==
    ASSUME IInv, NEW m \in Message, Receive(m), result' = "finished"
    PROVE  unpacked'[HeadZone'] = LogError
<1>1. \A why : why # "finished" => ~Fail(m, why)
  BY DEF Fail
<1>2. result = "ok"
  BY DEF Receive, RecvHello, RecvBeforeHello, RecvBad, RecvLogInfo, RecvLogError, RecvDatamap,
         RecvDatamapFails, RecvLinkedName, RecvLinkedNameFails, RecvGoodbye, Expect, Fail, KeepZone,
         ReuseZone
<1>3. RecvLogError(m)
  BY <1>1, <1>2 DEF Receive, RecvHello, RecvBeforeHello, RecvBad, RecvLogInfo, RecvDatamap,
         RecvDatamapFails, RecvLinkedName, RecvLinkedNameFails, RecvGoodbye, KeepZone, ReuseZone
<1>4. unpacked' = Unpack(m)
  BY <1>3 DEF RecvLogError, Fail
<1>5. m = LogError
  BY <1>3 DEF RecvLogError, Expect, Message, Hello, Goodbye, LogInfo, LogError, Bad, Unknown,
     DatamapMsg, LinkedNameMsg
<1>6. Unpack(m)[HeadZone] = m /\ Len(Unpack(m)) = HeadZone
  BY UnpackType
<1> QED
  BY <1>4, <1>5, <1>6 DEF HeadZone

LEMMA StepTells == STypeOK /\ ServerListens /\ IInv /\ ToldInv /\ [Next]_vars => ToldInv'
<1> SUFFICES ASSUME STypeOK, IInv, ToldInv, [Next]_vars PROVE ToldInv'
  OBVIOUS
<1>0. result \in {"ok", "writing", "finished", "error", "bad_format", "oom"}
  BY DEF IInv, RTypeOK
<1>1. ASSUME UNCHANGED rvars, stage' \in {"free_alloc", "close_pipe", "done"} /\ ok' => ~Live
      PROVE  ToldInv'
  BY <1>1, SameContext DEF rvars, ToldInv, HeadZone
<1>2. CASE Prepare
  <2>1. \A next : Fails(next) => ~ok'
    BY DEF Fails
  <2>2. stage' \in {"free_alloc", "close_pipe", "done"} /\ ok' => ~Live
    BY <1>2, <2>1 DEF Prepare, IStep, CreatePipe, Find, own_vars, GameFound, VirtualAlloc, WritePath,
       StartThread, HideAlloc, CreateEvent, ConnectPipe, AwaitConnect, RestoreAlloc, FreeAlloc,
       ClosePipe, ToldInv
  <2> QED
    BY <1>1, <1>2, <2>2 DEF Prepare
<1>3. CASE PrepareFails \/ ReadFails \/ ReadBrokenPipe
  BY <1>1, <1>3 DEF PrepareFails, AwaitFails, ReadFails, ReadBrokenPipe, LoopFails, Fails
<1>4. CASE AllocMsgCtx \/ LeaveLoop \/ UserAnswers
  BY <1>1, <1>4 DEF AllocMsgCtx, LeaveLoop, Proceed, LoopFails, Fails, UserAnswers, Find, own_vars
<1>5. CASE ReadMessage
  <2>1. stage' = "read" /\ Head(pipe.queue) \in Message /\ Receive(Head(pipe.queue))
    BY <1>5 DEF ReadMessage, Proceed, STypeOK, Pipe
  <2> QED
    BY <2>1, ReceiveTells DEF ToldInv
<1>6. CASE WriteCollection
  <2>1. stage' = "read" /\ (result' = "finished" => file' = NewFile(Stored, linked_names.links))
    BY <1>6 DEF WriteCollection, WriteFile, Proceed
  <2> QED
    BY <2>1 DEF ToldInv, NewFile
<1>7. CASE LoadPayload \/ LoadFails \/ PayloadStep \/ PayloadFails \/ UNCHANGED vars
  BY <1>1, <1>7 DEF LoadPayload, LoadFails, PayloadStep, PayloadFails, ivars, own_vars, vars, ToldInv
<1>8. CASE LoadFaults \/ GameDies
  BY <1>1, <1>8 DEF LoadFaults, GameDies, Die, ivars, own_vars, ToldInv
<1>9. CASE ExeDies
  BY <1>1, <1>9 DEF ExeDies
<1> QED
  BY <1>2, <1>3, <1>4, <1>5, <1>6, <1>7, <1>8, <1>9 DEF Next, Exe

\* The exe never ends as if all were well (ch_inject.c, ch_recv.c) without having
\* written the collection: something failed, or the payload said so.
THEOREM NothingFailsSilently == Spec => []NoSilentFailure
<1>1. Init => ToldInv
  BY DEF Init, IInit, RInit, ToldInv
<1>2. IInv /\ ToldInv => NoSilentFailure
  BY DEF IInv, RTypeOK, ToldInv, NoSilentFailure, Reported, Live
<1> QED
  BY <1>1, <1>2, StepTells, SessionSends, SessionKeepsIInv, PTL DEF Spec
-----------------------------------------------------------------------------
\* Which handles ch_find_game, and then the exe, may hold.
AllNull  == \A i \in Slot : proc_handles[i] = "null"
NoneOpen == \A i \in Slot : proc_handles[i] # "open"
Choosing == {"open", "close_all", "ask", "check", "close_others"}

HandleInv ==
    /\ proc_handles \in [Slot -> {"null", "open", "closed"}]
    /\ n_procs \in Nat /\ num_found_games \in 0..MAX_SELECT_GAMES
    /\ at \in {"enumerate", "true", "false"} \cup Choosing
    /\ at = "enumerate" => AllNull
    /\ at \in Choosing => \A i \in Slot : proc_handles[i] = "open" => i \in Candidates
    /\ at = "true" => \A i \in Slot : proc_handles[i] = "open" => i = game
    /\ at = "false" => NoneOpen

ExeInv ==
    /\ stage \in {"find_game", "crashed"} \/ at \notin Choosing
    /\ stage \in {"close_pipe", "done", "crashed"} => NoneOpen
    /\ stage = "done" => ~wait_event /\ pipe.server # "open"

LEMMA CandidatesAreSlots ==
    ASSUME HandleInv
    PROVE  Candidates \subseteq Slot
  BY FindGameAssumption DEF HandleInv, Candidates, Slot

\* What ch_find_game does to the handles, one step at a time.
LEMMA FindHandles ==
    ASSUME HandleInv, FStep \/ ReadNumber
    PROVE  HandleInv'
<1> USE DEF Choosing
<1>0. MAX_SELECT_GAMES \in Nat \ {0} /\ Candidates \subseteq Slot
  BY FindGameAssumption, CandidatesAreSlots
<1>1. CASE SnapshotFails
  BY <1>1 DEF SnapshotFails, ReturnFalse, HandleInv, AllNull, NoneOpen
<1>2. CASE Enumerate
  <2>1. num_found_games' \in 0..MAX_SELECT_GAMES
    BY <1>0, <1>2 DEF Enumerate, HandleInv
  <2> QED
    BY <1>2, <2>1 DEF Enumerate, ReturnFalse, HandleInv, AllNull, NoneOpen, Candidates
<1>3. CASE OpenNext
  <2>1. PICK i \in Candidates : \/ proc_handles' = [proc_handles EXCEPT ![i] = "open"]
                                \/ proc_handles' = proc_handles
    BY <1>3 DEF OpenNext
  <2>2. Candidates' = Candidates /\ num_found_games' = num_found_games /\ at' \in {"open", "close_all"}
        /\ at = "open" /\ n_procs' = n_procs
    BY <1>3 DEF OpenNext, Candidates
  <2> QED
    BY <1>0, <2>1, <2>2 DEF HandleInv
<1>4. CASE CloseAll
  BY <1>0, <1>4 DEF CloseAll, ReturnFalse, HandleInv, NoneOpen
<1>5. CASE OnlyOne
  <2>1. \A i \in Candidates : i = 0
    BY <1>5 DEF OnlyOne, Candidates
  <2> QED
    BY <1>5, <2>1 DEF OnlyOne, HandleInv
<1>6. CASE PrintMenu \/ ReadNumber \/ CheckNumber
  BY <1>6 DEF PrintMenu, ReadNumber, CheckNumber, HandleInv, Candidates
<1>7. CASE CloseOthers
  BY <1>0, <1>7 DEF CloseOthers, HandleInv
<1> QED
  BY <1>1, <1>2, <1>3, <1>4, <1>5, <1>6, <1>7 DEF FStep

LEMMA SameHandles ==
    ASSUME HandleInv, UNCHANGED fvars
    PROVE  HandleInv' /\ NoneOpen' = NoneOpen /\ at' = at
  BY DEF HandleInv, fvars, AllNull, NoneOpen, Candidates

\* The exe's own steps.
LEMMA ExeHandles ==
    ASSUME STypeOK, HandleInv, ExeInv, IStep
    PROVE  HandleInv' /\ ExeInv'
<1>0. pipe \in Pipe
  BY DEF STypeOK
<1>1. ASSUME UNCHANGED fvars, stage' \in Stages \ {"close_pipe", "done", "crashed"},
             stage' = "find_game" \/ at \notin Choosing
      PROVE  HandleInv' /\ ExeInv'
  BY <1>1, SameHandles DEF ExeInv
<1>2. ASSUME NEW next \in Stages \ {"close_pipe", "done", "crashed"}, Fails(next), at \notin Choosing
      PROVE  HandleInv' /\ ExeInv'
  BY <1>1, <1>2 DEF Fails
<1>3. CASE CreatePipe
  BY <1>1, <1>2, <1>3 DEF CreatePipe, Stages, ExeInv
<1>4. CASE Find(FStep)
  BY <1>4, FindHandles DEF Find, own_vars, ExeInv
<1>5. CASE GameFound
  <2>1. HandleInv'
    BY <1>5, FindGameAssumption DEF GameFound, HandleInv, NoneOpen, Choosing
  <2> QED
    BY <1>5, <2>1 DEF GameFound, ExeInv, Choosing
<1>6. CASE VirtualAlloc \/ WritePath \/ StartThread
  BY <1>1, <1>2, <1>6 DEF VirtualAlloc, WritePath, StartThread, Stages, ExeInv
<1>7. CASE HideAlloc \/ RestoreAlloc
  BY <1>1, <1>7 DEF HideAlloc, RestoreAlloc, Stages, ExeInv
<1>8. CASE CreateEvent \/ ConnectPipe \/ AwaitConnect
  BY <1>1, <1>2, <1>8 DEF CreateEvent, ConnectPipe, AwaitConnect, Stages, ExeInv
<1>9. CASE FreeAlloc
  <2>1. at \in {"enumerate", "true", "false"}
    BY <1>9 DEF FreeAlloc, ExeInv, HandleInv
  <2>2. proc_handles' = CloseGame /\ UNCHANGED <<at, n_procs, num_found_games, game>> /\ stage' = "close_pipe"
    BY <1>9 DEF FreeAlloc
  <2>3. proc_handles' \in [Slot -> {"null", "open", "closed"}]
    BY <2>2 DEF CloseGame, HandleIs, HandleInv
  <2>4. NoneOpen'
    BY <2>1, <2>2 DEF CloseGame, HandleIs, HandleInv, AllNull, NoneOpen
  <2>5. at = "enumerate" => AllNull'
    BY <2>2 DEF CloseGame, HandleIs, HandleInv, AllNull
  <2> QED
    BY <2>1, <2>2, <2>3, <2>4, <2>5 DEF HandleInv, ExeInv, NoneOpen, Choosing
<1>10. CASE ClosePipe
  BY <1>0, <1>10, SameHandles, ClosedPipe DEF ClosePipe, ExeInv
<1> QED
  BY <1>3, <1>4, <1>5, <1>6, <1>7, <1>8, <1>9, <1>10 DEF IStep

LEMMA StepHandles == STypeOK /\ HandleInv /\ ExeInv /\ [Next]_vars => HandleInv' /\ ExeInv'
<1> SUFFICES ASSUME STypeOK, HandleInv, ExeInv, [Next]_vars PROVE HandleInv' /\ ExeInv'
  OBVIOUS
<1>0. pipe \in Pipe
  BY DEF STypeOK
<1>1. ASSUME UNCHANGED <<fvars, stage, wait_event>>, pipe'.server = pipe.server
      PROVE  HandleInv' /\ ExeInv'
  BY <1>1, SameHandles DEF ExeInv
<1>2. CASE Prepare
  BY <1>2, ExeHandles DEF Prepare
<1>3. CASE UserAnswers
  BY <1>3, FindHandles DEF UserAnswers, Find, own_vars, ExeInv
<1>4. ASSUME UNCHANGED fvars, stage' \in {"restore_alloc", "free_alloc", "read"},
             stage \in {"await", "msg_ctx", "read"}
      PROVE  HandleInv' /\ ExeInv'
  BY <1>4, SameHandles DEF ExeInv
<1>5. CASE PrepareFails \/ ReadFails \/ ReadBrokenPipe
  BY <1>4, <1>5 DEF PrepareFails, AwaitFails, ReadFails, ReadBrokenPipe, LoopFails, Fails
<1>6. CASE AllocMsgCtx \/ LeaveLoop \/ WriteCollection \/ ReadMessage
  BY <1>4, <1>6 DEF AllocMsgCtx, LeaveLoop, WriteCollection, ReadMessage, Proceed, LoopFails, Fails
<1>7. CASE LoadPayload \/ LoadFails \/ PayloadFails \/ UNCHANGED vars
  BY <1>1, <1>7 DEF LoadPayload, LoadFails, PayloadFails, PackFails, ivars, own_vars, vars
<1>8. CASE PayloadStep
  BY <1>1, <1>8, PayloadPipe DEF PayloadStep, ivars, own_vars
<1>9. CASE LoadFaults \/ GameDies
  BY <1>0, <1>1, <1>9, ClosedPipe DEF LoadFaults, GameDies, Die, ivars, own_vars
<1>10. CASE ExeDies
  <2>1. proc_handles' \in [Slot -> {"null", "open", "closed"}] /\ NoneOpen'
    BY <1>10 DEF ExeDies, HandleInv, NoneOpen
  <2>2. /\ UNCHANGED <<at, n_procs, num_found_games, game>> /\ stage' = "crashed"
        /\ AllNull => AllNull'
    BY <1>10 DEF ExeDies, AllNull
  <2> QED
    BY <2>1, <2>2 DEF HandleInv, ExeInv, NoneOpen
<1> QED
  BY <1>2, <1>3, <1>5, <1>6, <1>7, <1>8, <1>9, <1>10 DEF Next, Exe

\* However many processes look like the game, whatever the user types and whatever
\* fails, an exe that has finished has closed every handle it opened (ch_find_game,
\* the clean-up of ch_do_inject_and_recv_maps).
THEOREM HandlesAreClosed == Spec => []HandlesClosed
<1>1. Init => HandleInv /\ ExeInv
  BY FindGameAssumption DEF Init, IInit, FInit, HandleInv, ExeInv, AllNull, Choosing
<1>2. ExeInv => HandlesClosed
  BY DEF ExeInv, HandlesClosed, NoneOpen
<1> QED
  BY <1>1, <1>2, StepHandles, SessionTypeCorrect, PTL DEF Spec

=============================================================================
