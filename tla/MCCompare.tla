----------------------------- MODULE MCCompare -----------------------------
(***************************************************************************)
(* Pairs of games for Compare: one class with up to four fields, which     *)
(* come, go, move and change; one that only the first and one that only    *)
(* the second has; a second one in both.                                   *)
(***************************************************************************)
EXTENDS Naturals, Sequences, SequencesExt, FiniteSets, TLC

CONSTANTS Null, Name

\* Fields in the order in which they are declared, not that of their places; an
\* input of the name of a field among them.
Td(n, type, off, cmp, ptr, input) ==
    [name |-> n, type |-> type, offset |-> off, cmp |-> cmp, ptr |-> ptr, input_func |-> input]

\* Any names in any order; the first game has its names in one order, as it does not
\* matter what a name is.
Orders == {s \in SeqOf(Name, Cardinality(Name)) : IsInjective(s)}
Firsts == {s \in Orders : \A k, l \in DOMAIN s : k < l => s[k] < s[l]}

\* How a field of the second game differs, if at all.
FirstValue == << <<1, 1>>, <<"p">> >>
Changes == {<< <<1, 1>>, <<Null>> >>, << <<1, 2>>, <<"p">> >>, << <<1, 1>>, <<"q">> >>}

Fields(names, value(_)) ==
    LET n == Len(names)
        place(k) == n + 1 - k       \* declared from the last to the first
    IN  <<Td(1, "INPUT", 0, <<0, 0>>, <<Null>>, Null)>>
        \o [k \in 1..n |-> Td(names[place(k)], "INTEGER", place(k), value(names[place(k)])[1],
                              value(names[place(k)])[2], Null)]
        \o <<Td(2, "INTEGER", 0, <<0, 0>>, <<Null>>, "f")>>

Games(a, b, name, v) ==
    << (1 :> Fields(a, LAMBDA n : FirstValue)) @@ (2 :> Fields(a, LAMBDA n : FirstValue))
           @@ (3 :> Fields(b, LAMBDA n : FirstValue)),
       (1 :> Fields(b, LAMBDA n : IF n = name THEN v ELSE FirstValue))
           @@ (3 :> Fields(a, LAMBDA n : FirstValue)) @@ (4 :> <<>>) >>

MCPairs == {Games(a, b, n, v) : a \in Firsts, b \in Orders, n \in Name, v \in Changes}
=============================================================================
