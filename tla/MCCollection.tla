---------------------------- MODULE MCCollection ----------------------------
(***************************************************************************)
(* The kept datamaps for TLC.  In the server module a Player derives from  *)
(* an Entity; both embed a Vector, and the Entity a Tag, which saves       *)
(* nothing.  The fields have all the sizes that are treated apart, some    *)
(* are not saved, and the order of the names is not that of the            *)
(* dependencies.  Sound, in the engine module, embeds what the run says.   *)
(***************************************************************************)
EXTENDS Collection, TLC

CONSTANTS ent, player, vec, tag, sound, timer, server, engine,
          nEnt, nPlayer, nVec, nTag, nSound, nTimer, nLink,
          TimerSize,    \* the size of a Timer in the game
          NumTimers     \* how many Timers a Sound embeds

MCDataMap == {ent, player, vec, tag, sound, timer}
MCName    == {nEnt, nPlayer, nVec, nTag, nSound, nTimer, nLink}
MCModSeq  == <<server, engine>>
MCModOf   == [d \in MCDataMap |-> IF d \in {sound, timer} THEN engine ELSE server]
MCNameOf  == [d \in MCDataMap |->
                CASE d = ent -> nEnt [] d = player -> nPlayer [] d = vec -> nVec
                  [] d = tag -> nTag [] d = sound -> nSound [] d = timer -> nTimer]
MCBaseOf  == [d \in MCDataMap |-> IF d = player THEN ent ELSE NoMap]

Simple(name, size) ==
    [name |-> name, save |-> TRUE, type |-> "simple", size |-> size, n |-> 1,
     map |-> NoMap]
Unsaved(name, size) == [Simple(name, size) EXCEPT !.save = FALSE]
Custom(name, size)  == [Simple(name, size) EXCEPT !.type = "custom"]
Embedded(name, size, n, d) ==
    [Simple(name, size) EXCEPT !.type = "embedded", !.n = n, !.map = d]

MCFieldsOf ==
    [d \in MCDataMap |->
        CASE d = vec -> <<Simple("xyz", 12)>>
          [] d = tag -> <<Unsaved("debug", 4)>>
          [] d = ent -> <<Simple("alive", 1), Custom("list", 1), Simple("id", 4),
                          Unsaved("think", 4), Simple("color", 3),
                          Embedded("origin", 12, 1, vec), Simple("team", 2),
                          Embedded("tag", 4, 1, tag)>>
          [] d = player -> <<Simple("armor", 2), Embedded("eye", 12, 1, vec),
                             Simple("suit", 1)>>
          [] d = timer -> <<Custom("expire", 1), Custom("next", 1)>>
          [] d = sound -> <<Simple("volume", 4),
                            Embedded("timers", TimerSize, NumTimers, timer)>>]

MCEmbeddedOf ==
    [d \in MCDataMap |->
        CASE d = ent -> <<vec, tag>> [] d = player -> <<vec>> [] d = sound -> <<timer>>
          [] OTHER -> <<>>]

MCModRank  == server :> 2 @@ engine :> 1
MCNameRank == nPlayer :> 1 @@ nEnt :> 2 @@ nTag :> 3 @@ nVec :> 4 @@ nTimer :> 5
                @@ nSound :> 6 @@ nLink :> 7

\* What some of the datamaps and all that they refer to leave behind.
MCInputs ==
    {i \in [maps : {VisitedFrom(S) : S \in SUBSET {player, ent, sound, tag}},
            links : {{<<nLink, NameOf[d]>>} : d \in MCDataMap}] :
        \A l \in i.links : \E d \in i.maps : NameOf[d] = l[2]}
=============================================================================
