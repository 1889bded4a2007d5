------------------------------- MODULE MCCatalog -------------------------------
(***************************************************************************)
(* Two users, in two sessions of theirs or of one of them; users and       *)
(* sessions are interchangeable.                                           *)
(***************************************************************************)
EXTENDS Catalog, TLC

Symmetry == Permutations(User) \cup Permutations(Session) \cup Permutations(Db)
=============================================================================
