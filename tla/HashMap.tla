------------------------------ MODULE HashMap ------------------------------
(***************************************************************************)
(* The hashmap (shared/thirdparty/hashmap/hashmap.c), an open addressed    *)
(* table with robin hood hashing: one step is one round of a loop.         *)
(***************************************************************************)
EXTENDS Integers, FiniteSets

CONSTANTS
    Key, Value, NoItem,
    Cap     \* the number of buckets a map begins with

ASSUME CapAssumption == Cap \in Nat \ {0}

VARIABLES
    hash,       \* the hash of every key, clipped to its 48 bits
    buckets,    \* map->buckets, from 0; dib is 0 in an empty one
    count,      \* map->count
    old,        \* in a resize: the buckets before it, and which of them is next
    hand,       \* the entry that is being put somewhere, in map->edata or in old
    at,         \* the bucket the loop is at
    cursor,     \* the cursor of the iteration of the caller
    call,       \* the call in progress: its name, "none" if there is none, and item
    last,       \* what the last call returned
    passed      \* what the iteration returned: read by properties only

map_vars == <<hash, buckets, count, old, hand, at, cursor, call, last, passed>>

Item == [key : Key, val : Value]
Free == [dib |-> 0, item |-> NoItem]

Answer(op, key, ans) == [op |-> op, key |-> key, ans |-> ans]

nbuckets == Cardinality(DOMAIN buckets)
Buckets(n) == [i \in 0..(n - 1) |-> Free]

NoOld == [next |-> 0, buckets |-> Buckets(0)]
NoCall == [op |-> "none", item |-> NoItem]

\* map->growat: the load factor is 60 %.
growat == (nbuckets * 60) \div 100

\* map->mask: the number of buckets is a power of two.
Home(key) == hash[key] % nbuckets

After(i) == (i + 1) % nbuckets

MapInit(Hashes) ==
    /\ hash \in Hashes
    /\ buckets = Buckets(Cap) /\ count = 0
    /\ old = NoOld /\ hand = Free /\ at = 0 /\ cursor = 0
    /\ call = NoCall /\ last = Answer("new", NoItem, NoItem) /\ passed = {}

Idle == call.op = "none"

Return(op, key, ans) == call' = NoCall /\ last' = Answer(op, key, ans)

\* The item of a call is taken to its first bucket.
Start(op, item) == call' = [op |-> op, item |-> item] /\ at' = Home(item.key)

\* hashmap_set, up to its loop: the table may have to grow first, and that may fail.
Set(item) ==
    /\ Idle
    /\ IF count >= growat
       THEN \/ Return("oom", item.key, NoItem) /\ UNCHANGED <<buckets, old, hand, at>>
            \/ /\ old' = [next |-> 0, buckets |-> buckets]
               /\ buckets' = Buckets(2 * nbuckets)
               /\ call' = [op |-> "resize", item |-> item]
               /\ UNCHANGED <<hand, at, last>>
       ELSE /\ Start("set", item) /\ hand' = [dib |-> 1, item |-> item]
            /\ UNCHANGED <<buckets, old, last>>
    /\ UNCHANGED <<hash, count, cursor, passed>>

\* resize0 takes the next entry of the old buckets, or is done.
ResizeNext ==
    /\ call.op = "resize" /\ hand = Free
    /\ IF old.next = Cardinality(DOMAIN old.buckets)
       THEN /\ old' = NoOld /\ Start("set", call.item)
            /\ hand' = [dib |-> 1, item |-> call.item]
       ELSE LET entry == old.buckets[old.next]
            IN  /\ old' = [old EXCEPT !.next = @ + 1] /\ UNCHANGED call
                /\ IF entry.dib = 0 THEN UNCHANGED <<hand, at>>
                   ELSE hand' = [entry EXCEPT !.dib = 1] /\ at' = Home(entry.item.key)
    /\ UNCHANGED <<hash, buckets, count, cursor, last, passed>>

\* Mutant: entries keep the order in which they came.
Displaced_Never(bucket) == FALSE

\* Who is nearer to its home gives way.
Displaced(bucket) == bucket.dib < hand.dib

\* A round in a bucket that is taken: to the next one, with the entry that was in
\* hand or the one it displaced.
Pass ==
    /\ at' = After(at)
    /\ IF Displaced(buckets[at])
       THEN /\ buckets' = [buckets EXCEPT ![at] = hand]
            /\ hand' = [buckets[at] EXCEPT !.dib = @ + 1]
       ELSE hand' = [hand EXCEPT !.dib = @ + 1] /\ UNCHANGED buckets

\* A round of the loop of resize0.
ResizePlace ==
    /\ call.op = "resize" /\ hand # Free
    /\ IF buckets[at].dib = 0
       THEN /\ buckets' = [buckets EXCEPT ![at] = hand] /\ hand' = Free /\ UNCHANGED at
       ELSE Pass
    /\ UNCHANGED <<hash, count, old, cursor, call, last, passed>>

\* Mutant: what is found does not have the key, only its hash.
Matches_Hash(bucket, key) == hash[bucket.item.key] = hash[key]

\* The hashes are equal and compare says that the keys are.
Matches(bucket, key) == bucket.item.key = key

\* A round of the loop of hashmap_set_with_hash.  When an entry has been displaced
\* it is that one whose key is compared.
SetRound ==
    /\ call.op = "set"
    /\ LET bucket == buckets[at]
           key    == call.item.key
       IN  IF bucket.dib = 0
           THEN /\ buckets' = [buckets EXCEPT ![at] = hand] /\ count' = count + 1
                /\ hand' = Free /\ Return("set", key, NoItem) /\ UNCHANGED at
           ELSE IF Matches(bucket, hand.item.key)
           THEN /\ buckets' = [buckets EXCEPT ![at].item = hand.item]
                /\ hand' = Free /\ Return("set", key, bucket.item) /\ UNCHANGED <<at, count>>
           ELSE Pass /\ UNCHANGED <<count, call, last>>
    /\ UNCHANGED <<hash, old, cursor, passed>>

\* hashmap_get.
Get(key) ==
    /\ Idle
    /\ Start("get", [key |-> key, val |-> NoItem])
    /\ UNCHANGED <<hash, buckets, count, old, hand, cursor, last, passed>>

\* A round of the loop of hashmap_get_with_hash: it ends at an empty bucket.
GetRound ==
    /\ call.op = "get"
    /\ LET bucket == buckets[at]
           key    == call.item.key
       IN  IF bucket.dib = 0 THEN Return("get", key, NoItem) /\ UNCHANGED at
           ELSE IF Matches(bucket, key) THEN Return("get", key, bucket.item) /\ UNCHANGED at
           ELSE at' = After(at) /\ UNCHANGED <<call, last>>
    /\ UNCHANGED <<hash, buckets, count, old, hand, cursor, passed>>

\* hashmap_iter.
Iter ==
    /\ Idle
    /\ LET rest == {i \in DOMAIN buckets : i >= cursor /\ buckets[i].dib # 0}
           i    == CHOOSE i \in rest : \A j \in rest : i <= j
       IN  IF rest = {}
           THEN /\ cursor' = nbuckets /\ UNCHANGED passed
                /\ Return("end", NoItem, NoItem)
           ELSE /\ cursor' = i + 1 /\ passed' = passed \cup {buckets[i].item}
                /\ Return("iter", buckets[i].item.key, buckets[i].item)
    /\ UNCHANGED <<hash, buckets, count, old, hand, at>>

MapStep == ResizeNext \/ ResizePlace \/ SetRound \/ GetRound
-----------------------------------------------------------------------------
(* The dictionary that it implements *)

ItemsOf(bs) == {bs[i].item : i \in {j \in DOMAIN bs : bs[j].dib # 0}}

\* The item of the call has been put into a bucket, and another one is in hand.
HasDisplaced == call.op = "set" /\ hand.item.key # call.item.key

\* What is in the buckets, on the way to another one, or not yet moved.
Contents ==
    ItemsOf(buckets)
    \cup (IF HasDisplaced \/ (call.op = "resize" /\ hand # Free) THEN {hand.item} ELSE {})
    \cup {old.buckets[i].item : i \in {j \in DOMAIN old.buckets :
                                          j >= old.next /\ old.buckets[j].dib # 0}}

\* An item that has displaced another one is new: NULL will be returned.
Result == IF HasDisplaced THEN Answer("set", call.item.key, NoItem) ELSE last

Dict == INSTANCE Dictionary WITH dict <- Contents, last <- Result
-----------------------------------------------------------------------------
\* How far bucket i is from the home of its key, 1 at home.
Distance(i) == 1 + ((i - Home(buckets[i].item.key)) % nbuckets)

\* Robin hood order, on which the search relies: every entry knows how far it is
\* from its home, all buckets in between are taken by entries that are as far from
\* theirs or farther, and at least one bucket is empty, where a search ends.
RobinHood ==
    /\ \E i \in DOMAIN buckets : buckets[i].dib = 0
    /\ \A i \in DOMAIN buckets : buckets[i].dib # 0 =>
          /\ buckets[i].dib = Distance(i)
          /\ \A d \in 1..(buckets[i].dib - 1) :
                buckets[(i - d) % nbuckets].dib >= buckets[i].dib - d
    /\ Idle => count = Cardinality({i \in DOMAIN buckets : buckets[i].dib # 0})
=============================================================================
