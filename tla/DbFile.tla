-------------------------------- MODULE DbFile --------------------------------
(***************************************************************************)
(* Several sessions on one database's file (src/src/utils.c): processes    *)
(* that append lines to it and rewrite it, one file operation at a time,   *)
(* any of which may be a process's last.  Nothing is locked.               *)
(*                                                                         *)
(* A file is the set of its lines: no operation changes their order, which *)
(* PathTree is about.  The commands a session gives are left open, too:    *)
(* its own tree, PathTree again, decides which it may give.                *)
(*                                                                         *)
(* A command drops lines, adds one, or does both: update_leaf first drops  *)
(* the old line, as delete-leaf does, and then opens the file once more    *)
(* for the new one.                                                        *)
(*                                                                         *)
(* Copying a file is one step.  A file only grows until it is replaced, so *)
(* reading it block by block yields what it holds when the last block is   *)
(* read.  A handle opened for appending stays on the file it was opened    *)
(* on: once that file is removed or replaced, what is written is lost.     *)
(***************************************************************************)
CONSTANTS
  Session,    \* the processes
  Key, Value, \* a line is its key, and a value that says which command wrote it
  NodeKey     \* the keys that are nodes' paths; the others are path|key| of leaves

ASSUME NodeKeyAssumption == NodeKey \subseteq Key

Line == [key : Key, value : Value]

VARIABLES
  exists, file, \* database/<name>.db, and its lines
  temp,         \* the lines of each process's temp-<pid>.db
  pc,           \* where each process is
  cmd,          \* the keys its command drops, and the lines it adds
  acked,        \* history: lines answered OK, until a command that drops them is answered
  used,         \* history: lines some command has been given
  raced, lost   \* history: two commands collided; a process died half way

disk == <<exists, file>>
vars == <<disk, temp, pc, cmd, acked, used, raced, lost>>

(* create-node or create-leaf; remove-node or delete-leaf; update-leaf. *)
Adding(l) == [drop |-> {}, put |-> {l}]
Dropping(k) == [drop |-> {k}, put |-> {}]
Replacing(l) == [drop |-> {l.key}, put |-> {l}]
Nothing == [drop |-> {}, put |-> {}]

Without(ls, ks) == {l \in ls : l.key \notin ks}

IsNode(l) == l.key \in NodeKey

(* Some other process is in one of these states. *)
Other(s, states) == \E t \in Session \ {s} : pc[t] \in states

(* Mutant: remove_from_file returns once the file is removed. *)
CutShort(s, next) == pc' = [pc EXCEPT ![s] = "idle"]

(* add_node or add_leaf, and update_leaf, with their file open. *)
Appending == {"append", "reopened"}

(* The handles of others that are open for appending lose their file. *)
Cut(s, next) ==
  pc' = [t \in Session |-> IF t = s THEN next ELSE IF pc[t] \in Appending THEN "stale" ELSE pc[t]]

Init ==
  /\ exists = TRUE /\ file = {}
  /\ temp = [s \in Session |-> {}]
  /\ pc = [s \in Session |-> "idle"] /\ cmd = [s \in Session |-> Nothing]
  /\ acked = {} /\ used = {} /\ raced = FALSE /\ lost = FALSE

-----------------------------------------------------------------------------
(* add_to_file and add_leaf_to_file. *)

(* fopen "a", which creates the file if there is none. *)
Open(s, next) ==
  /\ pc' = [pc EXCEPT ![s] = next]
  /\ exists' = TRUE /\ UNCHANGED file

(* Mutant: add_leaf replies before it writes, as add_node does. *)
AnsweredFirstAll(l) == {l}

(* add_node replies before it appends, add_leaf and update_leaf afterwards. *)
AnsweredFirst(l) == IF IsNode(l) THEN {l} ELSE {}

(* A line stands for one command, so that none is added twice. *)
Add(s, l) ==
  /\ pc[s] = "idle" /\ l \notin used
  /\ cmd' = [cmd EXCEPT ![s] = Adding(l)] /\ used' = used \cup {l}
  /\ Open(s, "append") /\ acked' = acked \cup AnsweredFirst(l)
  /\ UNCHANGED <<temp, raced, lost>>

(* fputs and fclose, and the reply.  A copy under way has not seen this line. *)
Write(s) ==
  /\ pc[s] \in Appending \cup {"stale"}
  /\ pc' = [pc EXCEPT ![s] = "idle"] /\ cmd' = [cmd EXCEPT ![s] = Nothing]
  /\ file' = IF pc[s] = "stale" THEN file ELSE file \cup cmd[s].put
  /\ raced' = (raced \/ Other(s, {"copied", "removed"}))
  /\ acked' = Without(acked, cmd[s].drop) \cup cmd[s].put
  /\ UNCHANGED <<exists, temp, used, lost>>

-----------------------------------------------------------------------------
(* remove_from_file and remove_leaf_from_file. *)

(* Mutant: the temporary file is opened to append. *)
CopiedOver(s, ks) == temp[s] \cup Without(file, ks)

(* Mutant: the key of a dropped line stays in the copy. *)
CopiedKey(s, ks) == Without(file, ks) \cup {[key |-> k] : k \in ks}

(* fopen "w" of the temporary file, and every line but the keys'. *)
Copied(s, ks) == Without(file, ks)

(* remove-node, delete-leaf, or the first half of update-leaf. *)
Rewrite(s, c) ==
  /\ pc[s] = "idle" /\ exists /\ c.put \cap used = {}
  /\ pc' = [pc EXCEPT ![s] = "copied"] /\ temp' = [temp EXCEPT ![s] = Copied(s, c.drop)]
  /\ cmd' = [cmd EXCEPT ![s] = c] /\ used' = used \cup c.put
  /\ UNCHANGED <<disk, acked, raced, lost>>

(* With no file to copy it closes a null pointer, and that is its end. *)
RewriteNothing(s) ==
  /\ pc[s] = "idle" /\ ~exists
  /\ pc' = [pc EXCEPT ![s] = "dead"] /\ temp' = [temp EXCEPT ![s] = {}]
  /\ UNCHANGED <<disk, cmd, acked, used, raced, lost>>

(* An update in its gap is about to append a line that this one drops. *)
DropsNext(s) ==
  \E t \in Session \ {s} : pc[t] = "renamed" /\ \E l \in cmd[t].put : l.key \in cmd[s].drop

(* remove(db_path): what the others have written since the copy goes too. *)
Remove(s) ==
  /\ pc[s] = "copied"
  /\ exists' = FALSE /\ file' = {}
  /\ Cut(s, "removed")
  /\ raced' = (raced \/ Other(s, Appending \cup {"copied", "removed"}) \/ DropsNext(s))
  /\ UNCHANGED <<temp, cmd, acked, used, lost>>

(* rename(temp_file_name, db_path) replaces a file made in the meantime. *)
Renamed(s) ==
  /\ exists' = TRUE /\ file' = temp[s] /\ temp' = [temp EXCEPT ![s] = {}]
  /\ raced' = (raced \/ Other(s, Appending \cup {"copied"}))
  /\ UNCHANGED <<used, lost>>

(* remove_node and remove_leaf are answered now; update_leaf goes on. *)
Rename(s) ==
  /\ pc[s] = "removed" /\ Renamed(s)
  /\ \/ /\ cmd[s].put = {} /\ Cut(s, "idle")
        /\ cmd' = [cmd EXCEPT ![s] = Nothing] /\ acked' = Without(acked, cmd[s].drop)
     \/ cmd[s].put # {} /\ Cut(s, "renamed") /\ UNCHANGED <<cmd, acked>>

(* update_leaf's add_leaf_to_file. *)
Reopen(s) ==
  /\ pc[s] = "renamed" /\ Open(s, "reopened")
  /\ UNCHANGED <<temp, cmd, acked, used, raced, lost>>

-----------------------------------------------------------------------------
(* The command's lines are gone, and its new ones are not yet there. *)
HalfDone(s) == pc[s] \in {"removed", "renamed", "reopened"}

(* A process dies and leaves its temporary file; another one gets its pid. *)
Die(s) ==
  /\ pc[s] # "dead"
  /\ pc' = [pc EXCEPT ![s] = "dead"] /\ cmd' = [cmd EXCEPT ![s] = Nothing]
  /\ lost' = (lost \/ HalfDone(s))
  /\ UNCHANGED <<disk, temp, acked, used, raced>>

Connect(s) ==
  /\ pc[s] = "dead" /\ pc' = [pc EXCEPT ![s] = "idle"]
  /\ UNCHANGED <<disk, temp, cmd, acked, used, raced, lost>>

(* A session in the middle of its command goes on with it. *)
Continue(s) == Write(s) \/ Remove(s) \/ Rename(s) \/ Reopen(s)

Next ==
  \E s \in Session :
    \/ Continue(s) \/ RewriteNothing(s) \/ Die(s) \/ Connect(s)
    \/ \E l \in Line : Add(s, l)
    \/ \E k \in Key : Rewrite(s, Dropping(k))
    \/ \E l \in Line : ~IsNode(l) /\ Rewrite(s, Replacing(l))

Spec == Init /\ [][Next]_vars

(* No file operation waits for another process. *)
FairSpec == Spec /\ \A s \in Session : WF_vars(Continue(s))

-----------------------------------------------------------------------------
State == {"idle", "append", "reopened", "stale", "copied", "removed", "renamed", "dead"}

Command == {Adding(l) : l \in Line} \cup {Dropping(k) : k \in Key} \cup {Replacing(l) : l \in Line}

TypeOK ==
  /\ exists \in BOOLEAN /\ file \subseteq Line
  /\ temp \in [Session -> SUBSET Line]
  /\ pc \in [Session -> State]
  /\ cmd \in [Session -> Command \cup {Nothing}]
  /\ acked \subseteq Line /\ used \subseteq Line
  /\ raced \in BOOLEAN /\ lost \in BOOLEAN

Sound == ~raced /\ ~lost

(* What the file says, or will say once those who are half way are through. *)
Rewritten == {s \in Session : pc[s] = "removed"}
Coming == UNION {cmd[s].put : s \in {t \in Session : HalfDone(t)}}
Lines == Coming \cup IF Rewritten = {} THEN file ELSE UNION {temp[s] : s \in Rewritten}

(* The command each process has begun, and that has had no effect yet. *)
Pending ==
  [s \in Session |-> IF Sound /\ pc[s] \in {"append", "copied"} THEN {cmd[s]} ELSE {}]

(***************************************************************************)
(* Every command takes effect in one step between its first file operation *)
(* and its last, or not at all if its process dies: an append when it is   *)
(* written, remove_node, remove_leaf and update_leaf when the old file is  *)
(* removed.  So it is, as PathTree has it, until a process dies half way,  *)
(* which for update_leaf is until its append, or a command's file          *)
(* operation falls into another's rewrite or drops a line another is about *)
(* to append.  Other deaths, a temporary file left behind, a file created  *)
(* in the gap, or two copies made at once do no harm yet.                  *)
(***************************************************************************)
Store ==
  INSTANCE LineStore WITH lines <- IF Sound THEN Lines ELSE {}, pending <- Pending, sound <- Sound
LineStoreSpec == Store!Spec

(***************************************************************************)
(* A leaf that was answered OK is in the file until a command that drops   *)
(* its key is answered in turn, or is between its remove and its last file *)
(* operation: add_leaf writes before it answers, and update_leaf does not  *)
(* leave the old value dropped without the new one, unless it dies half    *)
(* way.  (A node may be answered for and never written.)                   *)
(***************************************************************************)
AckedLeavesKept ==
  Sound => \A l \in acked : IsNode(l) \/ l \in Lines
                             \/ \E s \in Session : HalfDone(s) /\ l.key \in cmd[s].drop

(***************************************************************************)
(* The file comes back: nobody but a process that dies leaves the database *)
(* without one.                                                            *)
(***************************************************************************)
FileReturns == ~exists ~> (exists \/ lost)
=============================================================================
