----------------------------- MODULE Dictionary -----------------------------
(***************************************************************************)
(* What the hash table promises its callers: a finite map from keys to     *)
(* values in which a key is bound at most once.  `insert` refuses a key    *)
(* that is bound already, `delete` unbinds one, and nothing else changes   *)
(* what a lookup returns -- growing the table, in particular, does not.    *)
(***************************************************************************)
CONSTANTS Key, Value, NULL

VARIABLE dict       \* dict[k] is the value bound to k, NULL when k is free

DictType == dict \in [Key -> Value \cup {NULL}]

Init == dict = [k \in Key |-> NULL]

Bound(k) == dict[k] # NULL

Insert(k, v) == ~Bound(k) /\ dict' = [dict EXCEPT ![k] = v]

Delete(k) == Bound(k) /\ dict' = [dict EXCEPT ![k] = NULL]

Next == \E k \in Key : Delete(k) \/ \E v \in Value : Insert(k, v)

Spec == Init /\ [][Next]_dict
=============================================================================
