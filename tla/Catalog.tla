-------------------------------- MODULE Catalog --------------------------------
(***************************************************************************)
(* Databases and their owners (src/src/database.c): sessions that create,  *)
(* use, delete and rename databases, each of them a file, under the names  *)
(* that owners.db says they own.  Nothing is locked, no line of owners.db  *)
(* is ever taken back, and check_ownership keeps the file it opened.       *)
(*                                                                         *)
(* What the files hold is left to PathTree and DbFile; of their commands   *)
(* this module keeps what they do to the files' names.  The databases that *)
(* are called users and owners, which belong to the admin, are left out.   *)
(***************************************************************************)
EXTENDS Naturals, FiniteSets

CONSTANTS
  User, Db, \* the names of users and of databases
  Session,  \* the processes that serve a client
  MaxFd,    \* how many descriptors a session has
  None      \* no user, no database

ASSUME MaxFdAssumption == MaxFd \in Nat
ASSUME NoneAssumption == None \notin User /\ None \notin Db

VARIABLES
  files,    \* the databases that have a file
  owners,   \* the lines of owners.db
  user,     \* who each session is logged in as
  active,   \* its active_db
  loaded,   \* whether its tree was loaded from a file
  pc,       \* where its command is
  target,   \* the name that command creates
  fds,      \* how many descriptors it has lost
  gone,     \* history: names that were once without the file they had
  spoilt,   \* history: names given up, or created while their file was there
  stray     \* history: names a file came to that nobody owned

session == <<user, active, loaded, pc, target, fds>>
ghosts == <<gone, spoilt, stray>>
vars == <<files, owners, session, ghosts>>

Owns(u, d) == <<u, d>> \in owners
Owned(d) == \E u \in User : Owns(u, d)

Left(s) == MaxFd - fds[s]

Init ==
  /\ files = {} /\ owners = {}
  /\ user = [s \in Session |-> None] /\ active = [s \in Session |-> None]
  /\ loaded = [s \in Session |-> FALSE] /\ pc = [s \in Session |-> "off"]
  /\ target = [s \in Session |-> None] /\ fds = [s \in Session |-> 0]
  /\ gone = {} /\ spoilt = {} /\ stray = {}

-----------------------------------------------------------------------------
(* A session begins with its login, and ends by logout, or anywhere. *)
Login(s, u) ==
  /\ pc[s] = "off"
  /\ pc' = [pc EXCEPT ![s] = "idle"] /\ user' = [user EXCEPT ![s] = u]
  /\ UNCHANGED <<files, owners, active, loaded, target, fds, ghosts>>

End(s) ==
  /\ pc[s] # "off"
  /\ pc' = [pc EXCEPT ![s] = "off"] /\ user' = [user EXCEPT ![s] = None]
  /\ active' = [active EXCEPT ![s] = None] /\ loaded' = [loaded EXCEPT ![s] = FALSE]
  /\ target' = [target EXCEPT ![s] = None] /\ fds' = [fds EXCEPT ![s] = 0]
  /\ spoilt' = spoilt \cup IF pc[s] = "gap" THEN {active[s]} ELSE {}
  /\ stray' = stray \cup IF pc[s] = "opened" THEN {target[s]} ELSE {}
  /\ UNCHANGED <<files, owners, gone>>

-----------------------------------------------------------------------------
(* create_database: tests for the file, makes it, and then says whose it is. *)
CheckCreate(s, d) ==
  /\ pc[s] = "idle" /\ Left(s) >= 1 /\ d \notin files
  /\ pc' = [pc EXCEPT ![s] = "checked"] /\ target' = [target EXCEPT ![s] = d]
  /\ UNCHANGED <<files, owners, user, active, loaded, fds, ghosts>>

(* Some session is between its remove and its rename of this file. *)
InGap(d) == \E s \in Session : pc[s] = "gap" /\ active[s] = d

Collision(d) == IF d \in files \/ InGap(d) THEN {d} ELSE {}

(* fopen "w", which empties a file that has come since. *)
OpenCreate(s) ==
  /\ pc[s] = "checked" /\ pc' = [pc EXCEPT ![s] = "opened"]
  /\ files' = files \cup {target[s]}
  /\ spoilt' = spoilt \cup Collision(target[s])
  /\ UNCHANGED <<owners, user, active, loaded, target, fds, gone, stray>>

(* add_ownership; its failure, -1 in an unsigned int16, is not 0 and passes. *)
Own(s) ==
  /\ pc[s] = "opened" /\ pc' = [pc EXCEPT ![s] = "idle"]
  /\ target' = [target EXCEPT ![s] = None]
  /\ IF Left(s) >= 2
       THEN owners' = owners \cup {<<user[s], target[s]>>} /\ UNCHANGED stray
       ELSE stray' = stray \cup {target[s]} /\ UNCHANGED owners
  /\ UNCHANGED <<files, user, active, loaded, fds, gone, spoilt>>

-----------------------------------------------------------------------------
(* The commands on a database of one's own: each begins with               *)
(* check_ownership, which costs it a descriptor.                           *)

Lose(s, n) == fds' = [fds EXCEPT ![s] = @ + n]

(* Mutants: a deletion takes the owner's line back; a rename adds one. *)
LineTakenBack(s, d) == owners \ {<<user[s], d>>}
LineAdded(s, e) == owners \cup {<<user[s], e>>}

(* Neither touches owners.db. *)
OwnersAfterDelete(s, d) == owners

OwnersAfterRename(s, e) == owners

GiveUp(d) == gone' = gone \cup {d} /\ spoilt' = spoilt \cup {d}

Delete(s, d) ==
  /\ pc[s] = "idle" /\ Left(s) >= 1 /\ Owns(user[s], d) /\ d \in files
  /\ files' = files \ {d} /\ GiveUp(d)
  /\ owners' = OwnersAfterDelete(s, d)
  /\ Lose(s, 1)
  /\ UNCHANGED <<user, active, loaded, pc, target, stray>>

(* rename replaces a file that has the new name. *)
Rename(s, d, e) ==
  /\ pc[s] = "idle" /\ Left(s) >= 1 /\ Owns(user[s], d) /\ d \in files /\ e # d
  /\ files' = (files \ {d}) \cup {e} /\ GiveUp(d)
  /\ stray' = stray \cup IF Owned(e) THEN {} ELSE {e}
  /\ owners' = OwnersAfterRename(s, e)
  /\ Lose(s, 1)
  /\ UNCHANGED <<user, active, loaded, pc, target>>

(* Nothing else comes of it: the database is another's, has no file, gets  *)
(* its own name, or use_database has no descriptor left to open it with.   *)
Refuse(s) ==
  /\ pc[s] = "idle" /\ Left(s) >= 1
  /\ Lose(s, 1)
  /\ UNCHANGED <<files, owners, user, active, loaded, pc, target, ghosts>>

(* Mutants: use_database closes its file; load_tree keeps one, too. *)
LostByUseClosed == 1
LostByUseAndLoad == 3

(* Neither check_ownership nor use_database closes its file. *)
LostByUse == 2

(* use_database drops the tree it had. *)
Use(s, d) ==
  /\ pc[s] = "idle" /\ Left(s) >= 2 /\ Owns(user[s], d) /\ d \in files
  /\ pc' = [pc EXCEPT ![s] = "loading"]
  /\ active' = [active EXCEPT ![s] = d] /\ loaded' = [loaded EXCEPT ![s] = FALSE]
  /\ UNCHANGED <<files, owners, user, target, fds, ghosts>>

(* load_tree opens the file once more; when it cannot, the tree is empty   *)
(* and the reply is OK all the same.                                       *)
Load(s) ==
  /\ pc[s] = "loading" /\ pc' = [pc EXCEPT ![s] = "idle"]
  /\ loaded' = [loaded EXCEPT ![s] = Left(s) >= 3 /\ active[s] \in files]
  /\ Lose(s, LostByUse)
  /\ UNCHANGED <<files, owners, user, active, target, ghosts>>

-----------------------------------------------------------------------------
(* The commands on the active database, which ask nobody. *)

(* fopen "a" makes a file that is not there. *)
AppendLine(s) ==
  /\ pc[s] = "idle" /\ active[s] # None /\ Left(s) >= 1
  /\ files' = files \cup {active[s]}
  /\ UNCHANGED <<owners, session, ghosts>>

(* A rewrite's copy and remove; it holds both files open for the copy.  A  *)
(* file deleted between them comes back as AppendLine would bring it.      *)
RemoveFile(s) ==
  /\ pc[s] = "idle" /\ active[s] \in files /\ Left(s) >= 2
  /\ pc' = [pc EXCEPT ![s] = "gap"]
  /\ files' = files \ {active[s]} /\ gone' = gone \cup {active[s]}
  /\ UNCHANGED <<owners, user, active, loaded, target, fds, spoilt, stray>>

RenameFile(s) ==
  /\ pc[s] = "gap" /\ pc' = [pc EXCEPT ![s] = "idle"]
  /\ files' = files \cup {active[s]}
  /\ UNCHANGED <<owners, user, active, loaded, target, fds, ghosts>>

-----------------------------------------------------------------------------
Next ==
  \E s \in Session :
    \/ End(s) \/ OpenCreate(s) \/ Own(s) \/ Load(s)
    \/ Refuse(s) \/ AppendLine(s) \/ RemoveFile(s) \/ RenameFile(s)
    \/ \E u \in User : Login(s, u)
    \/ \E d \in Db : CheckCreate(s, d) \/ Delete(s, d) \/ Use(s, d)
    \/ \E d, e \in Db : Rename(s, d, e)

Spec == Init /\ [][Next]_vars

-----------------------------------------------------------------------------
TypeOK ==
  /\ files \subseteq Db /\ owners \subseteq User \X Db
  /\ user \in [Session -> User \cup {None}]
  /\ active \in [Session -> Db \cup {None}] /\ loaded \in [Session -> BOOLEAN]
  /\ pc \in [Session -> {"off", "idle", "checked", "opened", "loading", "gap"}]
  /\ target \in [Session -> Db \cup {None}] /\ fds \in [Session -> 0..MaxFd]
  /\ gone \subseteq Db /\ spoilt \subseteq Db /\ stray \subseteq Db

(***************************************************************************)
(* Every file belongs to somebody, or will once create_database is         *)
(* through -- also one that an append or a rewrite brings back after its   *)
(* deletion -- unless it was renamed to a name of nobody's, or its         *)
(* creation ended between the file and its line in owners.db.              *)
(***************************************************************************)
FileHasOwner ==
  \A d \in files : \/ Owned(d) \/ d \in stray
                   \/ \E s \in Session : pc[s] = "opened" /\ target[s] = d

(***************************************************************************)
(* A name has two owners only if its file was given up once, or it was     *)
(* created while a file was there or on its way: the test for the file in  *)
(* create_database is what keeps owners apart, and it sees no owners.db.   *)
(***************************************************************************)
OneOwner ==
  \A d \in Db : \A u, v \in User :
    Owns(u, d) /\ Owns(v, d) => u = v \/ d \in spoilt

(***************************************************************************)
(* A session whose tree was not loaded, which use_database answers OK,     *)
(* does not write into a database that has been there all along: it has    *)
(* no descriptor left to write with, or the file was away meanwhile.       *)
(***************************************************************************)
EmptyTreeIsHarmless ==
  \A s \in Session :
    pc[s] # "loading" /\ active[s] # None /\ ~loaded[s] =>
      Left(s) = 0 \/ active[s] \in gone

(***************************************************************************)
(* README.md:99: list-databases is to "List databases owned by the         *)
(* caller".  It lists the names in the caller's lines of owners.db.        *)
(***************************************************************************)
ListedIsThere ==
  \A s \in Session : \A d \in Db :
    pc[s] = "idle" /\ Owns(user[s], d) => d \in files \/ InGap(d)
=============================================================================
