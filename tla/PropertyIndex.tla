--------------------------- MODULE PropertyIndex ---------------------------
(***************************************************************************)
(* The index on numeric node properties (src/src/index/property_index.cpp):*)
(* a skip list of nodes by value for each label and property, here the     *)
(* sorted set that SkipList implements, and for each node the entries it   *)
(* was ever given, by which remove_node finds the lists it is in.  Nodes   *)
(* are ids; whether the graph knows them is not looked at.                 *)
(***************************************************************************)
EXTENDS Integers

CONSTANTS Node,
          IndexKey,    \* label and property, as make_key joins them
          Value, NoValue

VARIABLES index,       \* indices_: the value a node is listed under, or NoValue
          entries      \* node_entries_

IndexInit == /\ index = [k \in IndexKey |-> [x \in Node |-> NoValue]]
             /\ entries = [x \in Node |-> {}]

\* Fault: a node that has an entry for the key already gets no second one.
RecordFirst(x, k, v) == IF \E e \in entries[x] : e[1] = k THEN entries[x]
                        ELSE entries[x] \cup {<<k, v>>}
Record(x, k, v) == entries[x] \cup {<<k, v>>}

\* add: the list moves the node to its new value, the old entry stays.
IndexAdd(k, v, x) == /\ index' = [index EXCEPT ![k][x] = v]
                     /\ entries' = [entries EXCEPT ![x] = Record(x, k, v)]

\* remove_node: every entry is looked up and removed if it is still listed.
IndexRemove(x) ==
  /\ index' = [k \in IndexKey |->
       [index[k] EXCEPT ![x] = IF <<k, @>> \in entries[x] THEN NoValue ELSE @]]
  /\ entries' = [entries EXCEPT ![x] = {}]

\* range, and exact with lo = hi.
Listed(k, lo, hi) == {x \in Node : index[k][x] # NoValue
                                   /\ lo <= index[k][x] /\ index[k][x] <= hi}
=============================================================================
