--------------------------------- MODULE Lines ---------------------------------
(***************************************************************************)
(* What a rewrite copies.  The database files and users.db are rewritten   *)
(* in the same way: every line is read, and written to a temporary file    *)
(* unless it is one to be dropped.                                         *)
(***************************************************************************)
EXTENDS Naturals, Sequences

(* The lines that are not among the dropped ones, in their order. *)
Without(lines, dropped) ==
  LET kept[i \in 0 .. Len(lines)] ==
        IF i = 0 THEN <<>>
        ELSE IF lines[i] \in dropped THEN kept[i - 1] ELSE Append(kept[i - 1], lines[i])
  IN  kept[Len(lines)]
=============================================================================
