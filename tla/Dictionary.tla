----------------------------- MODULE Dictionary -----------------------------
(***************************************************************************)
(* What a hashmap (shared/thirdparty/hashmap) is taken for by the code     *)
(* that uses it: at most one item for each key, which is found, replaced   *)
(* and passed by an iteration exactly once.  No code here deletes.         *)
(***************************************************************************)
EXTENDS Naturals

CONSTANTS Key, Value, NoItem

VARIABLES
    dict,   \* the items
    last,   \* the last call that has returned, and what it returned
    passed  \* the items the iteration in progress has passed

Item == [key : Key, val : Value]

Answer(op, key, ans) == [op |-> op, key |-> key, ans |-> ans]

Init == dict = {} /\ last = Answer("new", NoItem, NoItem) /\ passed = {}

\* What there is for a key.
Found(key) ==
    IF \E item \in dict : item.key = key
    THEN CHOOSE item \in dict : item.key = key ELSE NoItem

\* An item is added, or takes the place of the one with its key, which is returned.
Set(item) ==
    /\ dict' = {other \in dict : other.key # item.key} \cup {item}
    /\ last' = Answer("set", item.key, Found(item.key))
    /\ UNCHANGED passed

\* There is no memory to grow, and nothing changes.
SetFails(item) ==
    last' = Answer("oom", item.key, NoItem) /\ UNCHANGED <<dict, passed>>

Get(key) == last' = Answer("get", key, Found(key)) /\ UNCHANGED <<dict, passed>>

\* The iteration comes to an item that it has not passed.
Pass(item) ==
    /\ item \in dict \ passed
    /\ passed' = passed \cup {item}
    /\ last' = Answer("iter", item.key, item)
    /\ UNCHANGED dict

\* It ends when it has passed all of them.
EndIter ==
    /\ passed = dict
    /\ last' = Answer("end", NoItem, NoItem)
    /\ UNCHANGED <<dict, passed>>

Next ==
    \/ \E item \in Item : Set(item) \/ SetFails(item) \/ Pass(item)
    \/ \E key \in Key : Get(key)
    \/ EndIter

Spec == Init /\ [][Next]_<<dict, last, passed>>
=============================================================================
