---------------------------- MODULE NcHashtable ----------------------------
(***************************************************************************)
(* The hash table of nc_hashtable.c, at the level of its pointers: all the *)
(* pairs are on one circular doubly linked list whose head is in the       *)
(* table, and each bucket points at the first and the last of the pairs    *)
(* that hash to it, which lie next to each other on that list.             *)
(*                                                                         *)
(* Keys and values are objects of the client's; two key objects are equal  *)
(* (cmp_keys) when they have the same name.  Both free functions are given,*)
(* so the table owns what a successful nc_hashtable_set hands it.          *)
(***************************************************************************)
EXTENDS Integers, Sequences, FiniteSets

CONSTANTS
  Nodes,      \* addresses nc_alloc may return for a pair
  ListHead,       \* &hashtable->list
  KeyObjs,    \* the client's key objects
  Name,       \* what cmp_keys compares
  Hash,       \* what hash_key returns, of a name
  ValueObjs,  \* the client's value objects
  Primes,     \* the table of bucket counts
  NULL, OK, ERROR

Names == {Name[k] : k \in KeyObjs}
Links == Nodes \cup {ListHead}

ASSUME HashtableAssumption ==
  /\ IsFiniteSet(Nodes) /\ ListHead \notin Nodes /\ NULL \notin Links \cup ValueObjs
  /\ Hash \in [Names -> Nat]
  /\ Primes \in Seq(Nat \ {0}) /\ Len(Primes) > 0
  /\ \A i \in 1 .. Len(Primes) - 1 : Primes[i] < Primes[i + 1]
  /\ Cardinality(Nodes) < Primes[Len(Primes)]
  /\ \A i \in DOMAIN Primes : NULL \notin [0 .. Primes[i] - 1 -> [first : Links, last : Links]]
  /\ KeyObjs \cap ValueObjs = {} /\ OK # ERROR /\ {OK, ERROR} \cap ValueObjs = {}

VARIABLES
  table,     \* struct nc_hashtable and the pairs it links
  phase,     \* is there a table, or has a call dereferenced a NULL pointer?
  live,      \* the pairs allocated and not freed
  owned,     \* the objects handed over to the table and not freed
  ret,       \* what the last call returned
  iter,      \* the client's iterator
  seen,      \* history: the pairs this iteration has been at
  start,     \* history: the pairs there were when it began, but those deleted
  rehashed   \* history: has the table been rehashed since?

iteration == <<iter, seen, start, rehashed>>
vars == <<table, phase, live, owned, ret, iteration>>

-----------------------------------------------------------------------------
(* The list and its buckets                                                *)

list_init(t) == [t EXCEPT !.next[ListHead] = ListHead, !.prev[ListHead] = ListHead]

\* node is put in front of at.
list_insert(t, at, node) ==
  LET before == t.prev[at]
  IN  [t EXCEPT !.next = [@ EXCEPT ![node] = at, ![before] = node],
                !.prev = [@ EXCEPT ![node] = before, ![at] = node]]

list_remove(t, node) ==
  [t EXCEPT !.next[t.prev[node]] = t.next[node],
            !.prev[t.next[node]] = t.prev[node]]

\* The nodes met from node on, following next until the head of the list.
Walk(t, node) ==
  LET at[i \in 1 .. Cardinality(Nodes) + 1] ==
        IF i = 1 THEN node ELSE IF at[i - 1] = ListHead THEN ListHead ELSE t.next[at[i - 1]]
      met == {i \in DOMAIN at : at[i] # ListHead}
  IN  [i \in 1 .. Cardinality(met) |-> at[i]]

Pairs(t) == Walk(t, t.next[ListHead])
PairSet(t) == {Pairs(t)[i] : i \in DOMAIN Pairs(t)}

EmptyBucket == [first |-> ListHead, last |-> ListHead]
num_buckets(t) == Primes[t.num_buckets]
EmptyBuckets(t) == [b \in 0 .. num_buckets(t) - 1 |-> EmptyBucket]

\* The pairs of a bucket, as hashtable_find_pair meets them.
Bucket(t, b) ==
  LET walk == Walk(t, t.buckets[b].first)
  IN  {walk[i] : i \in {j \in DOMAIN walk :
         \A k \in 1 .. j - 1 : walk[k] # t.buckets[b].last}}

bucket_is_empty(t, b) == t.buckets[b] = EmptyBucket

insert_to_bucket(t, b, node) ==
  IF bucket_is_empty(t, b)
    THEN [list_insert(t, ListHead, node) EXCEPT !.buckets[b] = [first |-> node, last |-> node]]
    ELSE [list_insert(t, t.buckets[b].first, node) EXCEPT !.buckets[b].first = node]

insert_by_hash(t, node) == insert_to_bucket(t, t.pair[node].hash % num_buckets(t), node)

\* Mutant: next is read when the pair is already on the new list.
Reinsert_reads_late(w) ==
  IF w.list = ListHead THEN w
  ELSE LET t == insert_by_hash(w.t, w.list) IN [t |-> t, list |-> t.next[w.list]]

\* A round of the rehash: the pair at list is put into the table; where the walk goes
\* on is read before that, from the links of the list that is being rebuilt.
Reinsert(w) ==
  IF w.list = ListHead THEN w
  ELSE [t |-> insert_by_hash(w.t, w.list), list |-> w.t.next[w.list]]

\* The rounds from the pair that was the first of the old list, until the head.
Filled(empty, list) ==
  LET walk[i \in 0 .. Cardinality(Nodes)] ==
        IF i = 0 THEN [t |-> empty, list |-> list] ELSE Reinsert(walk[i - 1])
  IN  walk[Cardinality(Nodes)].t

IndexOf(t, key) == Hash[Name[key]] % num_buckets(t)

\* Mutant: pairs are compared by hash alone.
hashtable_find_pair_by_hash(t, b, key) ==
  IF bucket_is_empty(t, b) THEN {}
  ELSE {n \in Bucket(t, b) : t.pair[n].hash = Hash[Name[key]]}

\* The result is a set: empty, or the pair found.
hashtable_find_pair(t, b, key) ==
  IF bucket_is_empty(t, b) THEN {}
  ELSE {n \in Bucket(t, b) : /\ t.pair[n].hash = Hash[Name[key]]
                             /\ Name[t.pair[n].key] = Name[key]}

\* The bucket array's allocation may fail: it has been freed by then, and
\* num_buckets advanced.
hashtable_do_rehash(t) ==
  LET grown == [t EXCEPT !.num_buckets = @ + 1]
      empty == [list_init(grown) EXCEPT !.buckets = EmptyBuckets(grown)]
  IN  {[grown EXCEPT !.buckets = NULL], Filled(empty, t.next[ListHead])}

\* Mutant: a bucket that loses its last pair keeps pointing at it.
Unlink_keeps_last(t, b, node) ==
  LET bucket == t.buckets[b]
      left == IF node = bucket.first /\ node = bucket.last THEN EmptyBucket
              ELSE IF node = bucket.first THEN [bucket EXCEPT !.first = t.next[node]]
              ELSE bucket
  IN  [list_remove([t EXCEPT !.buckets[b] = left], node) EXCEPT !.size = @ - 1]

Unlink(t, b, node) ==
  LET bucket == t.buckets[b]
      left == IF node = bucket.first /\ node = bucket.last THEN EmptyBucket
              ELSE IF node = bucket.first THEN [bucket EXCEPT !.first = t.next[node]]
              ELSE IF node = bucket.last THEN [bucket EXCEPT !.last = t.prev[node]]
              ELSE bucket
  IN  [list_remove([t EXCEPT !.buckets[b] = left], node) EXCEPT !.size = @ - 1]

\* What is freed can no longer be read.
Freed(t, nodes) ==
  [t EXCEPT !.next = [n \in Links |-> IF n \in nodes THEN NULL ELSE @[n]],
            !.prev = [n \in Links |-> IF n \in nodes THEN NULL ELSE @[n]],
            !.pair = [n \in Nodes |-> IF n \in nodes THEN NULL ELSE @[n]]]

-----------------------------------------------------------------------------
(* The calls.  A call that indexes the bucket array while it is NULL is a  *)
(* crash; the calls that only follow the list, destroy and a set that      *)
(* rehashes once more are not.                                             *)

NewTable ==
  LET t == [next |-> [n \in Links |-> NULL], prev |-> [n \in Links |-> NULL],
            pair |-> [n \in Nodes |-> NULL], size |-> 0, num_buckets |-> 1, buckets |-> NULL]
  IN  [list_init(t) EXCEPT !.buckets = EmptyBuckets(t)]

Init ==
  /\ table = NewTable
  /\ phase = "none"
  /\ live = {}
  /\ owned = {}
  /\ ret = OK
  /\ iter = NULL /\ seen = {} /\ start = {} /\ rehashed = FALSE

Crash(t) ==
  /\ t.buckets = NULL
  /\ phase' = "crashed"
  /\ UNCHANGED <<table, live, owned, ret, iteration>>

nc_hashtable_create ==
  /\ phase = "none"
  /\ \/ table' = NewTable /\ phase' = "open" /\ ret' = OK
     \/ ret' = NULL /\ UNCHANGED <<table, phase>>
  /\ UNCHANGED <<live, owned, iteration>>

\* The pairs a call has unlinked are no longer part of the iteration.
Forget(gone) ==
  /\ iter' = IF iter \in gone THEN NULL ELSE iter
  /\ seen' = seen \ gone
  /\ start' = start \ gone

\* Mutant: the table may hold one pair more than it has buckets.
Grown_late ==
  IF table.size > num_buckets(table) THEN hashtable_do_rehash(table) ELSE {table}

\* The state a set begins with: the rehashed one when the load ratio exceeds 1.
Grown ==
  IF table.size >= num_buckets(table) THEN hashtable_do_rehash(table) ELSE {table}

\* Mutant: the redundant key is not freed.
Replace_leaks_key(t, node, key, value) ==
  /\ table' = [t EXCEPT !.pair[node].value = value]
  /\ owned' = (owned \cup {key, value}) \ {t.pair[node].value}
  /\ ret' = OK
  /\ UNCHANGED live

Replace(t, node, key, value) ==
  /\ table' = [t EXCEPT !.pair[node].value = value]
  /\ owned' = (owned \cup {key, value}) \ {key, t.pair[node].value}
  /\ ret' = OK
  /\ UNCHANGED live

Add(t, key, value) ==
  \/ \E node \in Nodes \ live :
       /\ table' = [insert_to_bucket(
                      [t EXCEPT !.pair[node] = [key |-> key, value |-> value, hash |-> Hash[Name[key]]]],
                      IndexOf(t, key), node) EXCEPT !.size = @ + 1]
       /\ live' = live \cup {node}
       /\ owned' = owned \cup {key, value}
       /\ ret' = OK
  \/ table' = t /\ ret' = ERROR /\ UNCHANGED <<live, owned>>

nc_hashtable_set(key, value) ==
  /\ phase = "open"
  /\ key \notin owned /\ value \notin owned
  /\ \E t \in Grown :
       IF t.buckets = NULL
         THEN IF t = table THEN Crash(t)
              ELSE /\ table' = t /\ ret' = ERROR
                   /\ UNCHANGED <<phase, live, owned, iteration>>
         ELSE LET found == hashtable_find_pair(t, IndexOf(t, key), key)
              IN  /\ IF found = {} THEN Add(t, key, value)
                     ELSE \E node \in found : Replace(t, node, key, value)
                  /\ rehashed' = (rehashed \/ t # table)
                  /\ UNCHANGED <<phase, iter, seen, start>>

nc_hashtable_get(key) ==
  /\ phase = "open"
  /\ \/ Crash(table)
     \/ /\ table.buckets # NULL
        /\ LET found == hashtable_find_pair(table, IndexOf(table, key), key)
           IN  ret' \in IF found = {} THEN {NULL} ELSE {table.pair[n].value : n \in found}
        /\ UNCHANGED <<table, phase, live, owned, iteration>>

hashtable_do_del(key, node) ==
  /\ table' = Freed(Unlink(table, IndexOf(table, key), node), {node})
  /\ owned' = owned \ {table.pair[node].key, table.pair[node].value}
  /\ live' = live \ {node}
  /\ ret' = OK
  /\ Forget({node})

nc_hashtable_del(key) ==
  /\ phase = "open"
  /\ \/ Crash(table)
     \/ /\ table.buckets # NULL
        /\ LET found == hashtable_find_pair(table, IndexOf(table, key), key)
           IN  IF found = {} THEN ret' = ERROR /\ UNCHANGED <<table, live, owned, iter, seen, start>>
               ELSE \E node \in found : hashtable_do_del(key, node)
        /\ UNCHANGED <<phase, rehashed>>

\* Every pair on the list, and what it holds, is freed.
hashtable_do_clear ==
  /\ live' = live \ PairSet(table)
  /\ owned' = owned \ UNION {{table.pair[n].key, table.pair[n].value} : n \in PairSet(table)}
  /\ ret' = OK
  /\ iter' = NULL /\ seen' = {} /\ start' = {} /\ rehashed' = FALSE

nc_hashtable_clear ==
  /\ phase = "open"
  /\ \/ Crash(table)
     \/ /\ table.buckets # NULL
        /\ hashtable_do_clear
        /\ table' = [list_init(Freed(table, PairSet(table)))
                      EXCEPT !.buckets = EmptyBuckets(table), !.size = 0]
        /\ UNCHANGED phase

nc_hashtable_destroy ==
  /\ phase = "open"
  /\ hashtable_do_clear
  /\ table' = NewTable
  /\ phase' = "none"

-----------------------------------------------------------------------------
(* Iteration: an iterator is the address of a pair's links.                *)

\* Mutant: the head of the list is taken for a pair.
After_last_is_head(node) == table.next[node]

\* Mutant: the iteration ends one pair early.
After_skips_last(node) ==
  IF ListHead \in {table.next[node], table.next[table.next[node]]} THEN NULL ELSE table.next[node]

After(node) == IF table.next[node] = ListHead THEN NULL ELSE table.next[node]

nc_hashtable_iter ==
  /\ phase = "open"
  /\ iter' = After(ListHead)
  /\ seen' = {After(ListHead)} \ {NULL}
  /\ start' = live
  /\ rehashed' = FALSE
  /\ UNCHANGED <<table, phase, live, owned, ret>>

nc_hashtable_iter_next ==
  /\ phase = "open" /\ iter # NULL
  /\ iter' = After(iter)
  /\ seen' = seen \cup ({After(iter)} \ {NULL})
  /\ UNCHANGED <<table, phase, live, owned, ret, start, rehashed>>

\* From a key's pair on, an iteration owes the client no other pair.
nc_hashtable_iter_at(key) ==
  /\ phase = "open"
  /\ \/ Crash(table)
     \/ /\ table.buckets # NULL
        /\ LET found == hashtable_find_pair(table, IndexOf(table, key), key)
           IN  /\ iter' \in IF found = {} THEN {NULL} ELSE found
               /\ seen' = found
        /\ start' = {}
        /\ rehashed' = FALSE
        /\ UNCHANGED <<table, phase, live, owned, ret>>

nc_hashtable_iter_set(value) ==
  /\ phase = "open" /\ iter # NULL
  /\ value \notin owned
  /\ table' = [table EXCEPT !.pair[iter].value = value]
  /\ owned' = (owned \cup {value}) \ {table.pair[iter].value}
  /\ ret' = OK
  /\ UNCHANGED <<phase, live, iteration>>

Next ==
  \/ nc_hashtable_create \/ nc_hashtable_clear \/ nc_hashtable_destroy
  \/ \E key \in KeyObjs, value \in ValueObjs : nc_hashtable_set(key, value)
  \/ \E key \in KeyObjs :
       nc_hashtable_get(key) \/ nc_hashtable_del(key) \/ nc_hashtable_iter_at(key)
  \/ nc_hashtable_iter \/ nc_hashtable_iter_next
  \/ \E value \in ValueObjs : nc_hashtable_iter_set(value)

Spec == Init /\ [][Next]_vars

-----------------------------------------------------------------------------
(* Properties                                                              *)

Stored == [key : KeyObjs, value : ValueObjs, hash : Nat]
BucketType == [first : Links, last : Links]

\* The fields of struct nc_hashtable and of the pairs, and the history.
TypeOK ==
  /\ table.next \in [Links -> Links \cup {NULL}]
  /\ table.prev \in [Links -> Links \cup {NULL}]
  /\ table.num_buckets \in DOMAIN Primes /\ table.size \in Nat
  /\ \A n \in Nodes : table.pair[n] = NULL \/ table.pair[n] \in Stored
  /\ table.buckets = NULL \/ table.buckets \in [0 .. num_buckets(table) - 1 -> BucketType]
  /\ phase \in {"none", "open", "crashed"}
  /\ live \subseteq Nodes /\ owned \subseteq KeyObjs \cup ValueObjs
  /\ ret \in ValueObjs \cup {NULL, OK, ERROR}
  /\ iter \in live \cup {NULL} /\ seen \subseteq live /\ start \subseteq live
  /\ rehashed \in BOOLEAN

\* Following next from the head meets every pair allocated, once, and comes back
\* to the head; prev is the way back; size counts them.  Rehashing rebuilds the
\* list while it walks the old one.
ListIntact ==
  /\ PairSet(table) = live
  /\ table.size = Cardinality(live)
  /\ \A n \in live \cup {ListHead} : /\ table.next[n] \in live \cup {ListHead}
                                     /\ table.prev[table.next[n]] = n

\* first and last of a bucket enclose exactly the pairs that hash to it, after
\* every insertion, deletion at either end and rehash: a pair outside its
\* bucket's stretch of the list would be there and never found.
BucketsPartition ==
  table.buckets # NULL =>
    \A b \in DOMAIN table.buckets :
      LET mine == {n \in live : table.pair[n].hash % num_buckets(table) = b}
          bucket == table.buckets[b]
      IN  IF mine = {} THEN bucket = EmptyBucket
          ELSE {bucket.first, bucket.last} \subseteq mine /\ Bucket(table, b) = mine

\* The table owns exactly the keys and values of its pairs, each in one pair: an
\* object it was given is freed when its pair goes or its value is replaced, the
\* redundant key of a replacement at once, and nothing is freed twice or leaked.
OwnershipExact ==
  /\ owned = UNION {{table.pair[n].key, table.pair[n].value} : n \in live}
  /\ \A m, n \in live : m # n =>
       /\ Name[table.pair[m].key] # Name[table.pair[n].key]
       /\ table.pair[m].value # table.pair[n].value

\* "rehash if the load ratio exceeds 1" keeps it at 1 or below between calls.
LoadBounded == table.size <= num_buckets(table)

\* An iteration never comes back to a pair it has been at, and when it ends it
\* has been at every pair of its beginning that was not deleted, whatever was
\* added or deleted on the way, as long as the table was not rehashed.
IterationComplete ==
  [][nc_hashtable_iter_next /\ ~rehashed =>
       /\ iter' \notin seen
       /\ iter' = NULL => start \subseteq seen]_vars

\* The map the list of pairs stands for.
Contents ==
  [n \in {Name[table.pair[p].key] : p \in live} |->
     (CHOOSE p \in live : Name[table.pair[p].key] = n) ]

Abstract == INSTANCE HashMap WITH
  Values <- ValueObjs,
  map <- [n \in DOMAIN Contents |-> table.pair[Contents[n]].value]

\* A call concerns the name of the key it was given and no other.
ArgumentsAgree ==
  \A key \in KeyObjs :
    /\ nc_hashtable_get(key) /\ phase' = "open" => Abstract!Get(Name[key])
    /\ nc_hashtable_del(key) /\ phase' = "open" => Abstract!Del(Name[key])
    /\ \A value \in ValueObjs \ owned :
         nc_hashtable_set(key, value) /\ phase' = "open" => Abstract!Set(Name[key], value)

\* Every call acts on the map as nc_hashtable.h says, and returns what it says,
\* found through the buckets while the map is read off the list.
RefinesMap == Abstract!Spec /\ [][ArgumentsAgree]_vars

\* nc_hashtable.h:119 and 129: -1 "on failure (out of memory)", "value if it is
\* found, or NULL otherwise": after a failed call the table can still be used.
CallsDefined == phase # "crashed"

\* nc_hashtable.h:163: during an iteration "other values may be added or deleted".
IterationSurvivesAdd ==
  [][nc_hashtable_iter_next /\ iter' = NULL => start \subseteq seen]_vars
=============================================================================
