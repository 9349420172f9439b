------------------------------ MODULE Compare ------------------------------
(***************************************************************************)
(* compare_datamaps.py: what differs between the datamaps of two games,    *)
(* class by class.  The fields of a class that both games have are gone    *)
(* through side by side, in the order in which they lie in memory, and     *)
(* those that are not where they were are told apart from those that are   *)
(* merely new, gone or changed.                                            *)
(*                                                                         *)
(* Of a field there are its name, its place, what it is compared by, and   *)
(* its pointers, of which only matters whether there is one.               *)
(***************************************************************************)
EXTENDS Naturals, Sequences, SequencesExt, FiniteSets

CONSTANTS
    Null,       \* None
    Pairs       \* what is compared: the classes of either game, each with its fields

\* Which fields of a class are compared.
Compared(tds) ==
    {k \in DOMAIN tds : tds[k].type \notin {"VOID", "INPUT"} /\ tds[k].input_func = Null}

\* The script knows fields by their names: no two have the same.  The names of the
\* classes are numbers.
ASSUME PairsAssumption ==
    \A p \in Pairs : \A g \in 1..2 :
        /\ IsFiniteSet(DOMAIN p[g]) /\ DOMAIN p[g] \subseteq Nat
        /\ \A c \in DOMAIN p[g] :
              LET tds == p[g][c]
              IN  /\ IsFiniteSet(DOMAIN tds) /\ DOMAIN tds \subseteq Nat
                  /\ \A k \in Compared(tds) :
                        /\ tds[k].offset \in Nat
                        /\ IsFiniteSet(DOMAIN tds[k].cmp) /\ IsFiniteSet(DOMAIN tds[k].ptr)
                  /\ \A k, l \in Compared(tds) : tds[k].name = tds[l].name => k = l

VARIABLES
    dm_lookup,  \* the classes of the two games, by name
    todo,       \* the classes in both that have not been compared, sorted
    td_lists,   \* the fields of the class that is being compared, in either
    i, j,       \* where the loop is in them
    moved,      \* names
    out         \* what has been printed

vars == <<dm_lookup, todo, td_lists, i, j, moved, out>>

\* What is in S, one after the other: before has the pairs of which the first comes
\* before the second.
InOrder(S, before) ==
    [k \in 1..Cardinality(S) |->
        CHOOSE x \in S : Cardinality({y \in S : <<y, x>> \in before}) = k - 1]

\* The order of names is that of the numbers that stand for them.
Sorted(S) == InOrder(S, {p \in S \X S : p[1] < p[2]})

\* What is compared of a class.  sorted() keeps the order of what is in the same place.
FieldsIn(tds) ==
    LET S        == Compared(tds)
        place(k) == tds[k].offset
        order    == InOrder(S, {p \in S \X S : \/ place(p[1]) < place(p[2])
                                               \/ place(p[1]) = place(p[2]) /\ p[1] < p[2]})
    IN  [k \in DOMAIN order |-> tds[order[k]]]

Names(tds) == {tds[k].name : k \in DOMAIN tds}
Named(name, tds) == tds[CHOOSE k \in DOMAIN tds : tds[k].name = name]

\* The names of tds that are not among names, in the order of tds.
Without(tds, names) ==
    LET left == Sorted({k \in DOMAIN tds : tds[k].name \notin names})
    IN  [k \in DOMAIN left |-> tds[left[k]].name]

Init ==
    /\ \E p \in Pairs :
          LET names == [g \in 1..2 |-> DOMAIN p[g]]
          IN  /\ dm_lookup = p
              /\ todo = Sorted(names[1] \cap names[2])
              /\ out = [k \in DOMAIN Sorted(names[2] \ names[1]) |-> <<"added", Sorted(names[2] \ names[1])[k]>>]
                       \o [k \in DOMAIN Sorted(names[1] \ names[2]) |-> <<"dropped", Sorted(names[1] \ names[2])[k]>>]
    /\ td_lists = <<>> /\ i = 1 /\ j = 1 /\ moved = {}

\* print_dm_diffs up to the loop.
StartClass ==
    /\ td_lists = <<>> /\ todo # <<>>
    /\ LET c   == Head(todo)
           tds == [g \in 1..2 |-> FieldsIn(dm_lookup[g][c])]
           say(what, names) == [k \in DOMAIN names |-> <<what, c, names[k]>>]
       IN  /\ td_lists' = tds
           /\ out' = out \o say("added", Without(tds[2], Names(tds[1])))
                         \o say("dropped", Without(tds[1], Names(tds[2])))
    /\ i' = 1 /\ j' = 1 /\ moved' = {}
    /\ UNCHANGED <<dm_lookup, todo>>

InBoth == Names(td_lists[1]) \cap Names(td_lists[2])
Td0 == td_lists[1][i]
Td1 == td_lists[2][j]

\* Both lists are not at their end.
InLoop == td_lists # <<>> /\ i <= Len(td_lists[1]) /\ j <= Len(td_lists[2])

IsPassedOver(td) == td.name \notin InBoth \/ td.name \in moved

\* A field that the other game does not have, or that was found when it had moved.
PassOver ==
    /\ InLoop
    /\ IF IsPassedOver(Td0) THEN i' = i + 1 /\ UNCHANGED j
       ELSE IsPassedOver(Td1) /\ j' = j + 1 /\ UNCHANGED i
    /\ UNCHANGED <<dm_lookup, todo, td_lists, moved, out>>

\* What is printed of two fields: how they differ; of a pointer, if only one is there.
Differences(c, td0, td1) ==
    LET cmp == Sorted({k \in DOMAIN td0.cmp : td0.cmp[k] # td1.cmp[k]})
        ptr == Sorted({k \in DOMAIN td0.ptr : (td0.ptr[k] = Null) # (td1.ptr[k] = Null)})
    IN  [k \in DOMAIN cmp |-> <<"differs", c, td0.name, <<"cmp", cmp[k]>> >>]
        \o [k \in DOMAIN ptr |-> <<"differs", c, td0.name, <<"ptr", ptr[k]>> >>]

\* Mutant: both lists go on after a field that has moved.
CompareFields_BothGoOn ==
    /\ InLoop /\ ~IsPassedOver(Td0) /\ ~IsPassedOver(Td1)
    /\ LET c == Head(todo)
           is_moved == Td0.name # Td1.name
       IN  /\ moved' = IF is_moved THEN moved \cup {Td0.name} ELSE moved
           /\ out' = out \o (IF is_moved THEN << <<"moved", c, Td0.name>> >> ELSE <<>>)
                         \o Differences(c, Td0, Named(Td0.name, td_lists[2]))
    /\ i' = i + 1 /\ j' = j + 1
    /\ UNCHANGED <<dm_lookup, todo, td_lists>>

\* The rest of a round: a field of the first game and the one of its name in the second.
CompareFields ==
    /\ InLoop /\ ~IsPassedOver(Td0) /\ ~IsPassedOver(Td1)
    /\ LET c == Head(todo)
           is_moved == Td0.name # Td1.name
       IN  /\ moved' = IF is_moved THEN moved \cup {Td0.name} ELSE moved
           /\ out' = out \o (IF is_moved THEN << <<"moved", c, Td0.name>> >> ELSE <<>>)
                         \o Differences(c, Td0, Named(Td0.name, td_lists[2]))
           /\ j' = IF is_moved THEN j ELSE j + 1
    /\ i' = i + 1
    /\ UNCHANGED <<dm_lookup, todo, td_lists>>

EndClass ==
    /\ td_lists # <<>> /\ ~InLoop
    /\ td_lists' = <<>> /\ todo' = Tail(todo)
    /\ UNCHANGED <<dm_lookup, i, j, moved, out>>

Next == StartClass \/ PassOver \/ CompareFields \/ EndClass

Spec == Init /\ [][Next]_vars
-----------------------------------------------------------------------------
(* Properties *)

Done == todo = <<>>

Saved(g, c) == FieldsIn(dm_lookup[g][c])
Shared(c)   == Names(Saved(1, c)) \cap Names(Saved(2, c))

\* Does n come before o among the fields tds?
Ahead(tds, n, o) == \E a, b \in DOMAIN tds : a < b /\ tds[a].name = n /\ tds[b].name = o

Before(g, c, n, o) == Ahead(Saved(g, c), n, o)

SharedClasses == DOMAIN dm_lookup[1] \cap DOMAIN dm_lookup[2]

\* Lines of what differs between the two fields called n of class c.
Tells(line, c, n) == line[1] = "differs" /\ line[2] = c /\ line[3] = n

\* The lines told are in s about n in one place, and there are no others.
ToldOnce(s, c, n, told) ==
    \E p \in 0..Len(s) :
        /\ \A k \in DOMAIN told : p + k \in DOMAIN s /\ s[p + k] = told[k]
        /\ \A k \in DOMAIN s : Tells(s[k], c, n) => k > p /\ k - p \in DOMAIN told

\* What is said to have moved.
Gone(c) == {n \in Shared(c) : <<"moved", c, n>> \in ToSet(out)}

\* What differs between the fields of a class that both games have is told, once,
\* and what has moved.
ClassTold(c) ==
    /\ \A n \in Shared(c) :
          ToldOnce(out, c, n, Differences(c, Named(n, Saved(1, c)), Named(n, Saved(2, c))))
    /\ \A n, o \in Shared(c) \ Gone(c) : Before(1, c, n, o) => Before(2, c, n, o)
    /\ \A n \in Gone(c) : \E o \in Shared(c) : Before(1, c, n, o) /\ Before(2, c, o, n)

\* Everything that differs between fields of one name is told, once, and nothing
\* that does not; wherever the fields are, and whatever has come or gone between
\* them.  What is not said to have moved is in the same order in both games, and
\* what is has another field on its other side: an added or dropped field moves
\* nothing (compare_datamaps.py:123-153).
DifferencesOnce == Done => \A c \in SharedClasses : ClassTold(c)
=============================================================================
