------------------------------ MODULE GameMaps ------------------------------
(***************************************************************************)
(* The datamaps of a running Source game, as the payload reads them and as *)
(* the exe stores them.  A datamap is identified by its address: in the    *)
(* messages that is the pair (module, offset in the module), which the exe *)
(* compares instead of comparing type descriptions field by field.         *)
(***************************************************************************)
EXTENDS Naturals, Sequences

CONSTANTS
    DataMap,        \* the datamap_t objects in the game's memory
    Name,           \* class names, of datamaps and of entities
    ModSeq,         \* ch_mod_names: the game modules searched, in enum order
    NoMap,          \* NULL in a baseMap or td pointer
    ModOf,          \* the module each datamap lies in
    NameOf,         \* dataClassName of each datamap
    BaseOf,         \* baseMap of each datamap, or NoMap
    EmbeddedOf      \* the datamaps its fields' td pointers refer to, in field order

\* The modules, without their order.
GameModule == {ModSeq[i] : i \in DOMAIN ModSeq}

\* The datamaps that a datamap refers to directly: its base and embedded ones.
Parts(d) ==
    (IF BaseOf[d] = NoMap THEN {} ELSE {BaseOf[d]})
        \cup {EmbeddedOf[d][i] : i \in DOMAIN EmbeddedOf[d]}

\* ch_datamap_looks_valid accepts a datamap only if everything it refers to
\* lies in the sections of the same module.
ASSUME GraphAssumption ==
    /\ ModSeq \in Seq(GameModule)
    /\ NoMap \notin DataMap
    /\ ModOf \in [DataMap -> GameModule]
    /\ NameOf \in [DataMap -> Name]
    /\ BaseOf \in [DataMap -> DataMap \cup {NoMap}]
    /\ EmbeddedOf \in [DataMap -> Seq(DataMap)]
    /\ \A d \in DataMap : \A p \in Parts(d) : ModOf[p] = ModOf[d]

\* A set of datamaps that contains everything its members refer to.
Closed(S) == \A d \in S : Parts(d) \subseteq S

\* What ch_recurse_pack_dm packs for d and ch_recurse_visit_datamaps visits: d
\* itself and whatever it refers to, directly or not.
Visited ==
    [d \in DataMap |->
        {e \in DataMap :
            \A S \in SUBSET DataMap : d \in S /\ Closed(S) => e \in S}]

VisitedFrom(S) == UNION {Visited[d] : d \in S}

\* Datamaps that share a name without being the same object.
Clash(S) == \E d, e \in S : d # e /\ NameOf[d] = NameOf[e]
=============================================================================
