----------------------------- MODULE MCConnection ------------------------------
(***************************************************************************)
(* Three clients: one talks, waiting for its replies or not, and two come  *)
(* and go.  The last of the three finds no child left to fork.             *)
(***************************************************************************)
EXTENDS Connection

MCScript == [c \in Client |-> IF c = "talks" THEN <<"login", "work">> ELSE <<>>]
=============================================================================
