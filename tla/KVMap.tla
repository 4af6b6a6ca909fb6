------------------------------- MODULE KVMap -------------------------------
(***************************************************************************)
(* What RobinHoodMap promises its caller: a finite map from keys to values *)
(* with set, get and del.  hashmap.hpp exposes nothing else of the table.  *)
(* result is the return value of the call that has just finished, and is   *)
(* cleared when the next call begins.                                      *)
(***************************************************************************)
CONSTANTS Key, Val,
          NoVal            \* the null pointer get returns for an absent key

VARIABLES map, result

Init == /\ map = [k \in Key |-> NoVal]
        /\ result = <<"none">>

Begin == /\ result # <<"none">> /\ result' = <<"none">>
         /\ UNCHANGED map

\* Returns true when the key was inserted, false when it was updated.
Set(k, v) == /\ map' = [map EXCEPT ![k] = v]
             /\ result' = <<"set", k, map[k] = NoVal>>

Get(k) == /\ result' = <<"get", k, map[k]>>
          /\ UNCHANGED map

\* Returns true when the key was there.
Del(k) == /\ map' = [map EXCEPT ![k] = NoVal]
          /\ result' = <<"del", k, map[k] # NoVal>>

Next == \/ Begin
        \/ /\ result = <<"none">>
           /\ \E k \in Key : \/ \E v \in Val : Set(k, v)
                             \/ Get(k)
                             \/ Del(k)

Spec == Init /\ [][Next]_<<map, result>>
=============================================================================
