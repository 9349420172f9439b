----------------------------- MODULE MCReceiver -----------------------------
(***************************************************************************)
(* A game of two modules for TLC.  In the server module a Player derives   *)
(* from an Entity and embeds a Vector, as the Entity does; the engine      *)
(* module has a Vector of its own, another object with the same name, and  *)
(* a Sound that stands alone.                                              *)
(***************************************************************************)
EXTENDS Receiver

CONSTANTS ent, player, vec, evec, sound, server, engine,
          nEnt, nPlayer, nVec, nSound, nLink

MCDataMap == {ent, player, vec, evec, sound}
MCName    == {nEnt, nPlayer, nVec, nSound, nLink}
MCModSeq  == <<server, engine>>
MCModOf   == [d \in MCDataMap |-> IF d \in {evec, sound} THEN engine ELSE server]
MCNameOf  == [d \in MCDataMap |->
                CASE d = ent -> nEnt [] d = player -> nPlayer
                  [] d = sound -> nSound [] OTHER -> nVec]
MCBaseOf  == [d \in MCDataMap |-> IF d = player THEN ent ELSE NoMap]
MCEmbeddedOf ==
    [d \in MCDataMap |->
        CASE d = ent -> <<vec>> [] d = player -> <<vec, vec>> [] OTHER -> <<>>]
MCLinkMaps ==
    { {},
      {<<nLink, nPlayer>>},
      {<<nLink, nPlayer>>, <<nSound, nSound>>},
      {<<nSound, nEnt>>} }
=============================================================================
