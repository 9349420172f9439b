------------------------------ MODULE Receiver ------------------------------
(***************************************************************************)
(* The message context of the exe (ch_recv.c).  Each message is unpacked   *)
(* into the head of a list of msgpack zones; what is stored, the hashmap   *)
(* entries and the linked names, points into those zones, so a zone may be *)
(* reused only when nothing stored refers to it.  GOODBYE writes the       *)
(* collection file.                                                        *)
(*                                                                         *)
(* The actions are those of ch_msg_ctx_process for one message m; the      *)
(* specification at the end lets m be anything a client can send.          *)
(***************************************************************************)
EXTENDS PayloadComm

VARIABLES
    got_hello,      \* a HELLO came
    dm_hashmap,     \* entries: a datamap and the zone its msgpack object is in
    linked_names,   \* the entity names kept, and the zone they are in
    unpacked,       \* the list of zones, its head last: what each zone holds
    result,         \* of the last call: "ok", or why the loop must stop
    file            \* the output file

rvars == <<got_hello, dm_hashmap, linked_names, unpacked, result, file>>

NoMsg == [type |-> "NONE", data |-> NoData]

\* The file before the session, and the file between fopen(..., "wb") and the
\* end of fwrite: whatever it holds, it is not a collection.
OldFile     == [state |-> "old", maps |-> {}, links |-> {}]
PartialFile == [state |-> "partial", maps |-> {}, links |-> {}]
NewFile(maps, links) == [state |-> "new", maps |-> maps, links |-> links]

HeadZone == Len(unpacked)

Stored == {e.dm : e \in dm_hashmap}

\* ch_msg_ctx_alloc
RInit ==
    /\ got_hello = FALSE
    /\ dm_hashmap = {}
    /\ linked_names = [links |-> {}, at |-> 0]
    /\ unpacked = <<NoMsg>>
    /\ result = "ok"
    /\ file = OldFile
-----------------------------------------------------------------------------
\* msgpack_unpacker_next: the head zone now holds m.
Unpack(m) == [unpacked EXCEPT ![HeadZone] = m]

\* The call returns false: the loop stops, the message stays where it is.
Fail(m, why) ==
    /\ result' = why
    /\ unpacked' = Unpack(m)

\* Mutant: save_unpacked is ignored.
KeepZone_Reused(m) ==
    /\ unpacked' = [unpacked EXCEPT ![HeadZone] = NoMsg]
    /\ UNCHANGED result

\* The head zone is needed by what was stored: a new head is put before it,
\* if there is memory for one.
KeepZone(m) ==
    \/ /\ unpacked' = Append(Unpack(m), NoMsg)
       /\ UNCHANGED result
    \/ Fail(m, "oom")

\* Nothing stored refers to the message: its zone is destroyed and reused.
ReuseZone ==
    /\ unpacked' = [unpacked EXCEPT ![HeadZone] = NoMsg]
    /\ UNCHANGED result

\* Every type but HELLO is refused before the first HELLO.
Expect(type, m) == result = "ok" /\ m.type = type

RecvHello(m) ==
    /\ Expect("HELLO", m)
    /\ got_hello' = TRUE
    /\ ReuseZone
    /\ UNCHANGED <<dm_hashmap, linked_names, file>>

RecvBeforeHello(m) ==
    /\ result = "ok"
    /\ m.type \notin {"HELLO", "BAD"}   \* the schema is checked first
    /\ ~got_hello
    /\ Fail(m, "error")
    /\ UNCHANGED <<got_hello, dm_hashmap, linked_names, file>>

\* ch_check_kv_schema failed, or the type is unknown.
RecvBad(m) ==
    /\ Expect("BAD", m) \/ (Expect("UNKNOWN", m) /\ got_hello)
    /\ Fail(m, "bad_format")
    /\ UNCHANGED <<got_hello, dm_hashmap, linked_names, file>>

RecvLogInfo(m) ==
    /\ Expect("LOG_INFO", m) /\ got_hello
    /\ ReuseZone
    /\ UNCHANGED <<got_hello, dm_hashmap, linked_names, file>>

RecvLogError(m) ==
    /\ Expect("LOG_ERROR", m) /\ got_hello
    /\ Fail(m, "finished")
    /\ UNCHANGED <<got_hello, dm_hashmap, linked_names, file>>
-----------------------------------------------------------------------------
\* Mutant: the callback is called for the datamap of the message only.
NewIn_TopOnly(maps) ==
    {d \in maps : /\ \A s \in Stored : NameOf[s] # NameOf[d]
                  /\ \A e \in maps : d \notin Parts(e)}

\* ch_verify_and_hash_dm_cb over a datamap and all it refers to: what has a
\* new name is stored, what has a known one must be the same object.
NewIn(maps) == {d \in maps : \A s \in Stored : NameOf[s] # NameOf[d]}

Entries(maps) == {[dm |-> d, at |-> HeadZone] : d \in maps}

\* Mutant: datamaps are told apart by address only.
RecvDatamap_ByAddress(m) ==
    /\ Expect("DATAMAP", m) /\ got_hello
    /\ dm_hashmap' = dm_hashmap \cup Entries(m.data \ Stored)
    /\ IF m.data \ Stored # {} THEN KeepZone(m) ELSE ReuseZone
    /\ UNCHANGED <<got_hello, linked_names, file>>

RecvDatamap(m) ==
    /\ Expect("DATAMAP", m) /\ got_hello
    /\ ~Clash(Stored \cup m.data)
    /\ dm_hashmap' = dm_hashmap \cup Entries(NewIn(m.data))
    /\ IF NewIn(m.data) # {} THEN KeepZone(m) ELSE ReuseZone
    /\ UNCHANGED <<got_hello, linked_names, file>>

\* The visit stops at a datamap with a known name and another address, or when
\* the hashmap cannot grow; what was visited before is in the hashmap already.
RecvDatamapFails(m) ==
    /\ Expect("DATAMAP", m) /\ got_hello
    /\ \E before \in SUBSET NewIn(m.data) :
        /\ ~Clash(before)
        /\ dm_hashmap' = dm_hashmap \cup Entries(before)
        /\ \/ Clash(Stored \cup m.data) /\ Fail(m, "error")
           \/ before # NewIn(m.data) /\ Fail(m, "oom")
    /\ UNCHANGED <<got_hello, linked_names, file>>
-----------------------------------------------------------------------------
\* ch_verify_linked_names
Known(name) == \E s \in Stored : NameOf[s] = name

\* Mutant: the datamap that the name leads to is not looked up.
RecvLinkedName_AnyTarget(m) ==
    /\ Expect("LINKED_NAME", m) /\ got_hello
    /\ linked_names.links = {} /\ m.data # {}
    /\ \A l \in m.data : ~Known(l[1])
    /\ linked_names' = [links |-> m.data, at |-> HeadZone]
    /\ KeepZone(m)
    /\ UNCHANGED <<got_hello, dm_hashmap, file>>

RecvLinkedName(m) ==
    /\ Expect("LINKED_NAME", m) /\ got_hello
    /\ linked_names.links = {} /\ m.data # {}
    /\ \A l \in m.data : ~Known(l[1]) /\ Known(l[2])
    /\ linked_names' = [links |-> m.data, at |-> HeadZone]
    /\ KeepZone(m)
    /\ UNCHANGED <<got_hello, dm_hashmap, file>>

RecvLinkedNameFails(m) ==
    /\ Expect("LINKED_NAME", m) /\ got_hello
    /\ IF linked_names.links # {} \/ m.data = {}
         THEN Fail(m, "bad_format")
         ELSE /\ \E l \in m.data : Known(l[1]) \/ ~Known(l[2])
              /\ Fail(m, "error")
    /\ UNCHANGED <<got_hello, dm_hashmap, linked_names, file>>
-----------------------------------------------------------------------------
\* GOODBYE, as far as fopen: ch_write_all_to_file needs at least one datamap,
\* memory for the collection, and the file.
RecvGoodbye(m) ==
    /\ Expect("GOODBYE", m) /\ got_hello
    /\ UNCHANGED <<got_hello, dm_hashmap, linked_names>>
    /\ \/ /\ dm_hashmap # {}
          /\ Fail(m, "writing")
          /\ file' = PartialFile
       \/ Fail(m, "oom") /\ dm_hashmap # {} /\ UNCHANGED file
       \/ Fail(m, "error") /\ UNCHANGED file

\* Mutant: the linked names are not written.
WriteFile_NoLinks ==
    /\ result = "writing"
    /\ file' = NewFile(Stored, {})
    /\ result' = "finished"
    /\ UNCHANGED <<got_hello, dm_hashmap, linked_names, unpacked>>

\* fwrite and fclose: the whole collection, or less if the disk is full.
WriteFile ==
    /\ result = "writing"
    /\ \/ /\ file' = NewFile(Stored, linked_names.links)
          /\ result' = "finished"
       \/ result' = "error" /\ UNCHANGED file
    /\ UNCHANGED <<got_hello, dm_hashmap, linked_names, unpacked>>

\* ch_msg_ctx_process
Receive(m) ==
    \/ RecvHello(m)
    \/ RecvBeforeHello(m)
    \/ RecvBad(m)
    \/ RecvLogInfo(m)
    \/ RecvLogError(m)
    \/ RecvDatamap(m)
    \/ RecvDatamapFails(m)
    \/ RecvLinkedName(m)
    \/ RecvLinkedNameFails(m)
    \/ RecvGoodbye(m)

RNext == WriteFile \/ \E m \in Message : Receive(m)

RSpec == RInit /\ [][RNext]_rvars
-----------------------------------------------------------------------------
FileTypeOK ==
    \/ file \in {OldFile, PartialFile}
    \/ \E maps \in SUBSET DataMap, links \in LinkMaps \cup {{}} :
          file = NewFile(maps, links)

\* Every variable of the context has its type.
RTypeOK ==
    /\ got_hello \in BOOLEAN
    /\ dm_hashmap \in SUBSET [dm : DataMap, at : 1..HeadZone]
    /\ linked_names \in [links : LinkMaps \cup {{}}, at : 0..HeadZone]
    /\ unpacked \in Seq(Message \cup {NoMsg}) /\ unpacked # <<>>
    /\ result \in {"ok", "writing", "finished", "error", "bad_format", "oom"}
    /\ FileTypeOK

\* The context is still used: no call has failed.
Live == result \in {"ok", "writing"}

\* Whatever the hashmap and the linked names point into is still unpacked in
\* its zone: no zone was destroyed and reused while something referred to it
\* (ch_recv.c, save_unpacked and the end of ch_msg_ctx_process).
NoDangling ==
    Live =>
        /\ \A e \in dm_hashmap : e.dm \in unpacked[e.at].data
        /\ linked_names.links # {} =>
              /\ linked_names.at # 0
              /\ unpacked[linked_names.at] = LinkedNameMsg(linked_names.links)

\* Everything a stored datamap refers to is stored as well: the lookup of a
\* base or embedded datamap by ch_get_entry_offset, which asserts that there is
\* an entry, cannot fail when the collection is written.
PartsStored == Live => Closed(Stored)

\* A name is the name of one stored datamap, so a reference by name in the
\* collection means what it meant in the game.
NamesUnique == Live => ~Clash(Stored)

\* Every kept linked name leads to a stored datamap when the file is written
\* (ch_write_all_to_file looks it up by name).
LinksResolve == Live => \A l \in linked_names.links : Known(l[2])

\* What the messages of one type that are still unpacked carried.
KeptData(zones, type) ==
    UNION {zones[i].data : i \in {j \in DOMAIN zones : zones[j].type = type}}

\* A file that was written holds exactly the datamaps and the linked names the
\* messages kept in the zones carried.
FileIsWhatWasKept ==
    file.state = "new" =>
        /\ file.maps = KeptData(unpacked, "DATAMAP")
        /\ file.links = KeptData(unpacked, "LINKED_NAME")
=============================================================================
