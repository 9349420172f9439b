--------------------------- MODULE MCRegistration ---------------------------
(***************************************************************************)
(* Collections for TLC.  Fields are a to e; x, y and z are offsets of ops. *)
(* The hashmap begins with 4 buckets instead of 16 and grows twice.        *)
(***************************************************************************)
EXTENDS Registration

FieldKeys == {"a", "b", "c", "d", "e"}
OpsKeys   == {"x", "y"}
MCKey     == FieldKeys \cup OpsKeys
MCKeys    == MCKey \cup {"q", "z"}
MCValue   == ({"td"} \X (1..5)) \cup ({"ops"} \X {"vector", "output", "variant"})

F(name, off) == [field |-> name, off |-> off]
Example(name, o) == [field |-> name, ops |-> o]

\* The game lacks the first example.
MCExamples == <<Example("q", "variant"), Example("b", "vector"), Example("e", "output"),
                Example("d", "variant")>>
MCCollections ==
    {<<F("a", o), F("b", "x"), F("c", p), F("d", "x"), F("e", "y")>> : <<o, p>> \in
        {<<"x", "none">>, <<"z", "z">>, <<"none", "y">>}}

\* Home is in 4, 8 or 16 buckets: keys that collide in all of them, only in the
\* small ones, or not at all, at the beginning and at the end of the table.
MCHashes ==
    {[k \in MCKeys |-> CASE k = "q" -> 15 [] k \in {"e", "z"} -> 3 [] k = "y" -> 7 [] OTHER -> h[k]] :
        h \in [MCKey \ {"e", "y"} -> {0, 7, 15}]}
=============================================================================
