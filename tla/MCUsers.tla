-------------------------------- MODULE MCUsers --------------------------------
(***************************************************************************)
(* Two sessions, an admin and two more names, and up to three lines        *)
(* before a create-user.                                                   *)
(***************************************************************************)
EXTENDS Users
=============================================================================
