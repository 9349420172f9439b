----------------------------- MODULE PayloadComm -----------------------------
(***************************************************************************)
(* The messages of the pipe: {"type": ..., "data": ...} maps.  What a log  *)
(* message says is left out; "BAD" stands for any message that does not    *)
(* have the schema of its type and "UNKNOWN" for one of another type: only *)
(* a client other than the payload sends those.                            *)
(***************************************************************************)
EXTENDS GameMaps

CONSTANT LinkMaps   \* the maps of linked names that can be sent: sets of pairs
                    \* of an entity name and the class name of its datamap

ASSUME LinkMapsAssumption == LinkMaps \subseteq SUBSET (Name \X Name)

NoData == {}

\* Messages whose data is nil, or a text the model leaves out.
Hello    == [type |-> "HELLO", data |-> NoData]
Goodbye  == [type |-> "GOODBYE", data |-> NoData]
LogInfo  == [type |-> "LOG_INFO", data |-> NoData]
LogError == [type |-> "LOG_ERROR", data |-> NoData]
Bad      == [type |-> "BAD", data |-> NoData]
Unknown  == [type |-> "UNKNOWN", data |-> NoData]

\* A datamap with everything it refers to, packed inside it.
DatamapMsg(d) == [type |-> "DATAMAP", data |-> Visited[d]]

LinkedNameMsg(links) == [type |-> "LINKED_NAME", data |-> links]

Message ==
    {Hello, Goodbye, LogInfo, LogError, Bad, Unknown}
        \cup {DatamapMsg(d) : d \in DataMap}
        \cup {LinkedNameMsg(l) : l \in LinkMaps}
=============================================================================
