----------------------------- MODULE MCSession -----------------------------
(***************************************************************************)
(* Two modules for TLC, and what the search may find in them.  In the      *)
(* server module a Player derives from an Entity and embeds a Vector; the  *)
(* engine module has a Sound and another datamap called Vector.  Numbers   *)
(* for the menu are below, in, at the end of and beyond it.                *)
(***************************************************************************)
EXTENDS Session

CONSTANTS ent, player, vec, evec, sound, server, engine,
          nEnt, nPlayer, nVec, nSound, nLink

MCDataMap == {ent, player, vec, evec, sound}
MCName    == {nEnt, nPlayer, nVec, nSound, nLink}
MCModSeq  == <<server, engine>>
MCModOf   == [d \in MCDataMap |-> IF d \in {evec, sound} THEN engine ELSE server]
MCNameOf  == [d \in MCDataMap |->
                CASE d = ent -> nEnt [] d = player -> nPlayer
                  [] d = sound -> nSound [] OTHER -> nVec]
MCBaseOf  == [d \in MCDataMap |-> IF d = player THEN ent ELSE NoMap]
MCEmbeddedOf ==
    [d \in MCDataMap |->
        CASE d = ent -> <<vec>> [] d = player -> <<vec, vec>> [] OTHER -> <<>>]

\* The player's datamap before its base's, and the base alone; a name clash
\* between the modules; a module without datamaps.
Search(s, e) == [m \in GameModule |-> IF m = server THEN s ELSE e]
MCSearches ==
    { Search(<<player, ent>>, <<sound>>),
      Search(<<vec, ent>>, <<sound>>),
      Search(<<ent>>, <<sound, evec>>),
      Search(<<player>>, <<>>) }

\* An empty dictionary, entities of the searched datamaps, an entity called
\* like a datamap, and one of a datamap that may not be found.
MCLinkMaps ==
    { {},
      {<<nLink, nEnt>>},
      {<<nSound, nEnt>>},
      {<<nLink, nPlayer>>} }

MCNumbers == 0..(MAX_SELECT_GAMES + 1)
=============================================================================
