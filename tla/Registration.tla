---------------------------- MODULE Registration ----------------------------
(***************************************************************************)
(* How the fields that a game saves with functions of its own get the      *)
(* functions that restore them here (custom_restore/registration/).  The   *)
(* game's ops are only known as offsets in a module; a registration names  *)
(* one field as an example of those that have the same ops.                *)
(***************************************************************************)
EXTENDS HashMap, Sequences

CONSTANTS
    Examples,   \* the registrations: which field is the example, and which functions
    Collections,\* the collections: the fields of all datamaps, in a sequence
    Hashes,     \* the hashes that their keys may have
    NoOps       \* NULL, or an offset that says that there are none

\* field - who a field is: its module, its class and its name
\* off   - the offset of the ops that it has in the game
\* A field and an offset are never the same key: an entry says of which kind it is.
ASSUME RegistrationAssumption ==
    /\ Hashes \subseteq [Key -> Nat] /\ NoItem \notin Item /\ NoOps \notin Key
    /\ Examples \in Seq([field : Key, ops : {Examples[e].ops : e \in DOMAIN Examples}])
    /\ \A e \in DOMAIN Examples : <<"ops", Examples[e].ops>> \in Value
    /\ Collections \subseteq Seq([field : Key, off : Key \cup {NoOps}])
    /\ \A c \in Collections : \A f \in DOMAIN c :
          /\ <<"td", f>> \in Value
          /\ \A g \in DOMAIN c : c[g].field # c[f].off
          /\ \A e \in DOMAIN Examples : Examples[e].field # c[f].off

VARIABLES
    fields,     \* the fields of the collection, header->dms
    ops,        \* td->save_restore_ops of each: an offset, NULL or functions
    rpc,        \* where ch_register_all is
    i,          \* which field or registration it is at
    reg_err     \* what it returned

reg_vars == <<fields, ops, rpc, i, reg_err>>
vars == <<map_vars, reg_vars>>

\* There is a hashmap, or no memory for one.
RegInit ==
    /\ fields \in Collections /\ MapInit(Hashes)
    /\ ops = [f \in DOMAIN fields |-> fields[f].off]
    /\ rpc \in {"field", "done"} /\ i = 1
    /\ reg_err = IF rpc = "field" THEN "none" ELSE "oom"

FieldItem(f) == [key |-> fields[f].field, val |-> <<"td", f>>]
OpsItem(off, e) == [key |-> off, val |-> <<"ops", Examples[e].ops>>]

Fail(e) == rpc' = "done" /\ reg_err' = e

\* A field is entered with the place of its type description.
AddField ==
    /\ rpc = "field" /\ i <= Len(fields)
    /\ IF fields[i].off = NoOps
       THEN /\ ops' = [ops EXCEPT ![i] = NoOps] /\ i' = i + 1
            /\ UNCHANGED <<map_vars, rpc>>
       ELSE Set(FieldItem(i)) /\ rpc' = "field added" /\ UNCHANGED <<i, ops>>
    /\ UNCHANGED <<fields, reg_err>>

FieldAdded ==
    /\ rpc = "field added" /\ Idle
    /\ IF last.op = "oom" THEN Fail("oom") /\ UNCHANGED i
       ELSE rpc' = "field" /\ i' = i + 1 /\ UNCHANGED reg_err
    /\ UNCHANGED <<map_vars, fields, ops>>

\* All fields are entered, and the functions are registered.
EndFields ==
    /\ rpc = "field" /\ i > Len(fields)
    /\ rpc' = "example" /\ i' = 1
    /\ UNCHANGED <<map_vars, fields, ops, reg_err>>

\* ch_register_cb looks the example up.
FindExample ==
    /\ rpc = "example" /\ i <= Len(Examples)
    /\ Get(Examples[i].field)
    /\ rpc' = "example found"
    /\ UNCHANGED <<fields, ops, i, reg_err>>

\* Mutant: the functions are entered for the example alone.
Registered_Field(off, e) == [OpsItem(off, e) EXCEPT !.key = Examples[e].field]

\* The functions are entered for the ops of the example.
Registered(off, e) == OpsItem(off, e)

\* A game that has no such field has no use for the functions.
ExampleFound ==
    /\ rpc = "example found" /\ Idle
    /\ IF last.ans = NoItem
       THEN rpc' = "example" /\ i' = i + 1 /\ UNCHANGED map_vars
       ELSE Set(Registered(fields[last.ans.val[2]].off, i)) /\ rpc' = "ops added" /\ UNCHANGED i
    /\ UNCHANGED <<fields, ops, reg_err>>

OpsAdded ==
    /\ rpc = "ops added" /\ Idle
    /\ IF last.op = "oom" THEN Fail("oom") /\ UNCHANGED i
       ELSE rpc' = "example" /\ i' = i + 1 /\ UNCHANGED reg_err
    /\ UNCHANGED <<map_vars, fields, ops>>

EndExamples ==
    /\ rpc = "example" /\ i > Len(Examples)
    /\ rpc' = "fixup" /\ UNCHANGED <<map_vars, fields, ops, i, reg_err>>

\* The iteration over fields and ops.
NextEntry ==
    /\ rpc = "fixup"
    /\ Iter
    /\ rpc' = "entry"
    /\ UNCHANGED <<fields, ops, i, reg_err>>

\* It has come to an entry: the ops of a field are looked up.
Entry ==
    /\ rpc = "entry" /\ Idle
    /\ IF last.op = "end" THEN rpc' = "done" /\ UNCHANGED <<map_vars, i>>
       ELSE IF last.ans.val[1] = "ops" THEN rpc' = "fixup" /\ UNCHANGED <<map_vars, i>>
       ELSE /\ i' = last.ans.val[2] /\ Get(fields[last.ans.val[2]].off)
            /\ rpc' = "ops found"
    /\ UNCHANGED <<fields, ops, reg_err>>

\* The field gets them, or NULL.
OpsFound ==
    /\ rpc = "ops found" /\ Idle
    /\ ops' = [ops EXCEPT ![i] = IF last.ans = NoItem THEN NoOps ELSE last.ans.val[2]]
    /\ rpc' = "fixup"
    /\ UNCHANGED <<map_vars, fields, i, reg_err>>

Next ==
    \/ MapStep /\ UNCHANGED reg_vars
    \/ AddField \/ FieldAdded \/ EndFields
    \/ FindExample \/ ExampleFound \/ OpsAdded \/ EndExamples
    \/ NextEntry \/ Entry \/ OpsFound

Spec == RegInit /\ [][Next]_vars
-----------------------------------------------------------------------------
(* Properties *)

\* A field is entered once: no two have the same module, class and name.
Unique == \A f, g \in DOMAIN fields : fields[f].field = fields[g].field => f = g

\* The registrations that name an example of the ops at off.
For(off) == {e \in DOMAIN Examples :
                \E f \in DOMAIN fields : /\ fields[f].field = Examples[e].field
                                         /\ fields[f].off = off /\ off # NoOps}

\* After a registration that succeeded every field has the functions registered
\* for the ops that it has in the game, the last ones if there are several, or NULL
\* if there are none: none of them still has the offset that the reader would call.
OpsOfField ==
    rpc = "done" /\ reg_err = "none" /\ Unique =>
        \A f \in DOMAIN fields :
            ops[f] = IF For(fields[f].off) = {} THEN NoOps
                     ELSE Examples[CHOOSE e \in For(fields[f].off) :
                                      \A d \in For(fields[f].off) : d <= e].ops

\* The hashmap is a dictionary for its users, through growth, displacement, and
\* failed growth (hashmap.c; hashmap_set, hashmap_get, hashmap_iter).
IsDictionary == Dict!Spec
=============================================================================
