------------------------------- MODULE MCDbFile -------------------------------
(***************************************************************************)
(* Two sessions, a node's key and a leaf's, two commands that write each.  *)
(***************************************************************************)
EXTENDS DbFile
=============================================================================
