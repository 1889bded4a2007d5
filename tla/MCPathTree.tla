----------------------------- MODULE MCPathTree ------------------------------
(***************************************************************************)
(* Small sessions.  The paths have two segments "a" and "b"; with MaxTokens *)
(* = 2, the three segments of deep are cut as sixteen are by add_node, and *)
(* loose is a second spelling of /a.                                       *)
(***************************************************************************)
EXTENDS PathTree

Loose(segs) == [spelling |-> "loose", segs |-> segs]

a == Plain(<<"a">>)
b == Plain(<<"b">>)
aa == Plain(<<"a", "a">>)
ab == Plain(<<"a", "b">>)
c == Plain(<<"c">>)
deep == Plain(<<"a", "b", "a">>)
loose == Loose(<<"a">>)
looseChild == Loose(<<"a", "b">>)

NodePaths == {a, b, c, aa, ab}
SpelledPaths == {a, b, ab, deep, loose, looseChild}
TwoPaths == {a, ab}
=============================================================================
