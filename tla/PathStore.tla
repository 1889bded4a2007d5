------------------------------ MODULE PathStore ------------------------------
(***************************************************************************)
(* What one session on a database promises about its paths: the paths it   *)
(* holds are the ones a later session will find.  A path is created under  *)
(* a path that exists, a removed path takes its subtree along, and both    *)
(* are saved with the command.  A session may also be lost -- it stepped   *)
(* on freed memory -- and from then on nothing is promised of the store.   *)
(***************************************************************************)
EXTENDS Naturals, Sequences

CONSTANTS PathSet       \* nonempty sequences of path segments

VARIABLES
  status,   \* "closed", "open" or "lost"
  paths,    \* the paths of the open session
  saved     \* the paths a session that opens now will find

vars == <<status, paths, saved>>

SomePaths(ps) == \A p \in ps : p \in PathSet

Under(p, q) == \E n \in 1 .. Len(q) : p = SubSeq(q, 1, n)

Parent(p) == SubSeq(p, 1, Len(p) - 1)

Init == status = "closed" /\ paths = {} /\ saved = {}

Open == /\ status = "closed"
        /\ status' = "open" /\ paths' = saved /\ UNCHANGED saved

Create(p) ==
  /\ status = "open"
  /\ p \notin paths /\ (Len(p) = 1 \/ Parent(p) \in paths)
  /\ paths' = paths \cup {p} /\ saved' = saved \cup {p}
  /\ UNCHANGED status

Remove(p) ==
  /\ status = "open"
  /\ p \in paths
  /\ paths' = {q \in paths : ~Under(p, q)} /\ saved' = {q \in saved : ~Under(p, q)}
  /\ UNCHANGED status

Close == /\ status \in {"closed", "open"}
         /\ status' = "closed" /\ paths' = {} /\ UNCHANGED saved

Lose == /\ status \in {"open", "lost"}
        /\ status' = "lost" /\ paths' = {} /\ SomePaths(saved')

Next == Open \/ Close \/ Lose \/ \E p \in PathSet : Create(p) \/ Remove(p)

Spec == Init /\ [][Next]_vars
==============================================================================
