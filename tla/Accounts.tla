------------------------------- MODULE Accounts --------------------------------
(***************************************************************************)
(* What users.db promises: an admin once the server has asked for one,     *)
(* then users that are created under new names and deleted, and never the  *)
(* admin -- until the file is damaged or two commands get into each        *)
(* other's way; after that nothing, until an admin is asked for again.     *)
(***************************************************************************)
CONSTANTS Name, Hash

VARIABLES accounts, sound

Init == accounts = {} /\ sound = TRUE

Bootstrap(n, h) ==
  /\ accounts = {}
  /\ accounts' = {[name |-> n, hash |-> h, role |-> "admin"]} /\ sound' = TRUE

(* The name is new, so that it has one account and one password. *)
Create(n, h) ==
  /\ sound /\ accounts # {} /\ \A a \in accounts : a.name # n
  /\ accounts' = accounts \cup {[name |-> n, hash |-> h, role |-> "user"]}
  /\ UNCHANGED sound

Delete(n) ==
  /\ sound /\ \A a \in accounts : a.name = n => a.role = "user"
  /\ accounts' = {a \in accounts : a.name # n}
  /\ UNCHANGED sound

Break == sound' = FALSE /\ accounts' = {}

Next ==
  \/ Break
  \/ \E n \in Name : Delete(n) \/ \E h \in Hash : Bootstrap(n, h) \/ Create(n, h)

Spec == Init /\ [][Next]_<<accounts, sound>>
=============================================================================
