--------------------------------- MODULE Users ---------------------------------
(***************************************************************************)
(* Users and login (src/src/users.c): the start of the server, which asks  *)
(* for an admin when there is no users.db, and sessions that log in,       *)
(* create users and delete them, one file operation at a time.             *)
(*                                                                         *)
(* A file is what newlines cut it into: "a\nb" has two lines, "a\n" has a  *)
(* second, empty one, and no file at all is the empty sequence.  A line    *)
(* holds one account, unless a write has joined two.  Passwords are left   *)
(* out -- a login is one whose password was right -- but not their hashes, *)
(* which tell two lines of one name apart.                                 *)
(*                                                                         *)
(* A session is off until it is logged in.  The server is stopped with all *)
(* its sessions, as from its terminal.                                     *)
(***************************************************************************)
EXTENDS Naturals, SequencesExt, Lines

CONSTANTS
  Session,  \* the processes that serve a client
  Name,     \* user names
  Hash,     \* hashes of passwords
  MaxLines  \* bound: create-user is not given once users.db or a copy has as many lines

ASSUME NameAssumption == Name # {}
ASSUME HashAssumption == Hash # {}
ASSUME MaxLinesAssumption == MaxLines \in Nat

VARIABLES
  server,  \* down, at the prompt for an admin, granting it the files, or serving
  file,    \* users.db
  owners,  \* who has been given users.db and owners.db
  pc, as,  \* where each session is, and the name and role it logged in with
  target,  \* the name its command is about
  temp,    \* its temp-<pid>.db
  raced,   \* history: two commands collided
  hurt     \* history: users.db was lost, emptied, or begun anew in a gap

session == <<pc, as, target, temp>>
ghosts == <<raced, hurt>>
vars == <<server, file, owners, session, ghosts>>

Role == {"admin", "user"}
Account == [name : Name, hash : Hash, role : Role]
Caller == [name : Name, role : Role]

Missing == <<>>
Blank == <<<<>>>>

(* What a session that is off has in their place. *)
NoCaller == CHOOSE c \in Caller : c.role = "user"
NoName == CHOOSE n \in Name : TRUE

(* What sscanf makes of a line: its first name; a role only if nothing follows. *)
Begins(line, n) == line # <<>> /\ Head(line).name = n
RoleOn(line) == IF Len(line) = 1 THEN Head(line).role ELSE "user"

Found(f, n) == \E i \in DOMAIN f : Begins(f[i], n)
FirstLine(f, n) == f[CHOOSE i \in DOMAIN f : Begins(f[i], n) /\ \A j \in 1..i - 1 : ~Begins(f[j], n)]

(* crypt_gensalt and crypt: a hash that no line of the name has, if one is left. *)
Fresh(f, n, h) == \A i \in DOMAIN f : Begins(f[i], n) => Head(f[i]).hash # h
NewHash(f, n) == CHOOSE h \in Hash : (\E k \in Hash : Fresh(f, n, k)) => Fresh(f, n, h)

Init ==
  /\ server = "down" /\ file = Missing /\ owners = {}
  /\ pc = [s \in Session |-> "off"] /\ temp = [s \in Session |-> Missing]
  /\ as = [s \in Session |-> NoCaller] /\ target = [s \in Session |-> NoName]
  /\ raced = FALSE /\ hurt = FALSE

-----------------------------------------------------------------------------
(* init and create_admin: before any client is accepted. *)

(* A missing file is created at once; one that is there is taken as it is. *)
Start ==
  /\ server = "down"
  /\ IF file = Missing THEN file' = Blank /\ server' = "prompt"
                       ELSE server' = "serving" /\ UNCHANGED file
  /\ UNCHANGED <<owners, session, ghosts>>

(* Both prompts, and the admin's line. *)
TypeAdmin(n) ==
  /\ server = "prompt" /\ server' = "granting"
  /\ file' = <<<<[name |-> n, hash |-> NewHash(file, n), role |-> "admin"]>>>>
  /\ raced' = FALSE /\ hurt' = FALSE
  /\ UNCHANGED <<owners, session>>

(* The lines in owners.db. *)
Grant ==
  /\ server = "granting" /\ server' = "serving"
  /\ owners' = owners \cup {Head(Head(file)).name}
  /\ UNCHANGED <<file, session, ghosts>>

(* At any moment; every session ends with it. *)
Stop ==
  /\ server # "down" /\ server' = "down"
  /\ pc' = [s \in Session |-> "off"] /\ temp' = [s \in Session |-> Missing]
  /\ as' = [s \in Session |-> NoCaller] /\ target' = [s \in Session |-> NoName]
  /\ hurt' = (hurt \/ server = "prompt" \/ \E s \in Session : pc[s] = "removed")
  /\ UNCHANGED <<file, owners, raced>>

-----------------------------------------------------------------------------
(* login, and a session's end: logout, or its death at any moment. *)
Login(s, n) ==
  /\ server = "serving" /\ pc[s] = "off" /\ Found(file, n)
  /\ pc' = [pc EXCEPT ![s] = "in"]
  /\ as' = [as EXCEPT ![s] = [name |-> n, role |-> RoleOn(FirstLine(file, n))]]
  /\ UNCHANGED <<server, file, owners, target, temp, ghosts>>

End(s) ==
  /\ pc[s] # "off" /\ pc' = [pc EXCEPT ![s] = "off"]
  /\ temp' = [temp EXCEPT ![s] = Missing]
  /\ as' = [as EXCEPT ![s] = NoCaller] /\ target' = [target EXCEPT ![s] = NoName]
  /\ hurt' = (hurt \/ pc[s] = "removed")
  /\ UNCHANGED <<server, file, owners, raced>>

-----------------------------------------------------------------------------
(* create_user: looks for the name, opens the file to append, and writes   *)
(* once the password is hashed.                                            *)

(* In another's gap there is no file, and no name is taken. *)
CheckName(s, n) ==
  /\ pc[s] = "in" /\ as[s].role = "admin"
  /\ ~Found(file, n) /\ \A f \in {file} \cup Range(temp) : Len(f) < MaxLines
  /\ pc' = [pc EXCEPT ![s] = "checked"] /\ target' = [target EXCEPT ![s] = n]
  /\ raced' = (raced \/ file = Missing)
  /\ UNCHANGED <<server, file, owners, as, temp, hurt>>

OpenUsers(s) ==
  /\ pc[s] = "checked" /\ pc' = [pc EXCEPT ![s] = "open"]
  /\ file' = IF file = Missing THEN Blank ELSE file
  /\ hurt' = (hurt \/ file = Missing)
  /\ UNCHANGED <<server, owners, as, target, temp, raced>>

(* create_user's account. *)
User(n) == [name |-> n, hash |-> NewHash(file, n), role |-> "user"]

(* Mutant: the newline is written after the account. *)
AppendedAfter(n) ==
  Append(Front(file) \o <<Append(Last(file), User(n))>>, <<>>)

(* Mutant: the role is left out. *)
AppendedBare(n) == Append(file, <<[name |-> n, hash |-> NewHash(file, n)]>>)

(* A newline and the account; no newline after it. *)
Appended(n) == Append(file, <<User(n)>>)

(* Some other session is in one of these states. *)
Other(s, states) == \E t \in Session \ {s} : pc[t] \in states

(* Another session has looked for the same name, and is to write it. *)
SameName(s) ==
  \E t \in Session \ {s} : pc[t] \in {"checked", "open", "stale"} /\ target[t] = target[s]

(* What is written to a file that has been removed since is lost. *)
WriteUser(s) ==
  /\ pc[s] \in {"open", "stale"} /\ pc' = [pc EXCEPT ![s] = "in"]
  /\ file' = IF pc[s] = "open" THEN Appended(target[s]) ELSE file
  /\ raced' = (raced \/ Other(s, {"copied", "removed"}) \/ SameName(s))
  /\ target' = [target EXCEPT ![s] = NoName]
  /\ UNCHANGED <<server, owners, as, temp, hurt>>

-----------------------------------------------------------------------------
(* delete_user: copies the lines of the others, removes, renames. *)

(* Mutant: a session may delete its own account. *)
MayDeleteAny(s, n) == as[s].role = "admin"

MayDelete(s, n) == as[s].role = "admin" /\ n # as[s].name

(* Mutant: the copy ends at the name. *)
DroppedRest(f, n) ==
  SubSeq(f, 1, (CHOOSE i \in DOMAIN f : Begins(f[i], n) /\ \A j \in 1..i - 1 : ~Begins(f[j], n)) - 1)
    \o Blank

(* Every line that begins with the name, with its newline if it has one. *)
Dropped(f, n) ==
  Append(Without(Front(f), {line \in Range(f) : Begins(line, n)}),
         IF Begins(Last(f), n) THEN <<>> ELSE Last(f))

CopyUsers(s, n) ==
  /\ pc[s] = "in" /\ MayDelete(s, n) /\ Found(file, n)
  /\ pc' = [pc EXCEPT ![s] = "copied"] /\ temp' = [temp EXCEPT ![s] = Dropped(file, n)]
  /\ UNCHANGED <<server, file, owners, as, target, ghosts>>

(* Mutant: it returns once the file is removed. *)
CutShort(s, next) == pc' = [pc EXCEPT ![s] = "in"]

(* Handles others have open for appending lose their file. *)
Cut(s, next) ==
  pc' = [t \in Session |-> IF t = s THEN next ELSE IF pc[t] = "open" THEN "stale" ELSE pc[t]]

RemoveUsers(s) ==
  /\ pc[s] = "copied" /\ Cut(s, "removed")
  /\ file' = Missing
  /\ raced' = (raced \/ Other(s, {"open", "copied", "removed"}))
  /\ UNCHANGED <<server, owners, as, target, temp, hurt>>

RenameUsers(s) ==
  /\ pc[s] = "removed" /\ Cut(s, "in")
  /\ file' = temp[s] /\ temp' = [temp EXCEPT ![s] = Missing]
  /\ raced' = (raced \/ Other(s, {"open", "copied"}))
  /\ UNCHANGED <<server, owners, as, target, hurt>>

-----------------------------------------------------------------------------
(* The catalogue's commands on a database that is called users: its owner  *)
(* deletes it or gives it another name, or someone gives that name to      *)
(* another database, whose lines are no accounts.                          *)
LoseUsers(s) ==
  /\ pc[s] = "in" /\ file # Missing
  /\ \/ as[s].name \in owners /\ file' = Missing
     \/ file' = Blank
  /\ Cut(s, "in") /\ hurt' = TRUE
  /\ UNCHANGED <<server, owners, as, target, temp, raced>>

-----------------------------------------------------------------------------
(* A session in the middle of its command goes on with it. *)
Continue(s) == OpenUsers(s) \/ WriteUser(s) \/ RemoveUsers(s) \/ RenameUsers(s)

Next ==
  \/ Start \/ Grant \/ Stop
  \/ \E n \in Name : TypeAdmin(n)
  \/ \E s \in Session :
       \/ End(s) \/ Continue(s) \/ LoseUsers(s)
       \/ \E n \in Name : Login(s, n) \/ CheckName(s, n) \/ CopyUsers(s, n)

Spec == Init /\ [][Next]_vars

(* No file operation waits for another process. *)
FairSpec == Spec /\ \A s \in Session : WF_vars(Continue(s))

-----------------------------------------------------------------------------
TypeOK ==
  /\ server \in {"down", "prompt", "granting", "serving"}
  /\ file \in Seq(Seq(Account)) /\ owners \subseteq Name
  /\ pc \in [Session -> {"off", "in", "checked", "open", "stale", "copied", "removed"}]
  /\ as \in [Session -> Caller] /\ target \in [Session -> Name]
  /\ temp \in [Session -> Seq(Seq(Account))]
  /\ raced \in BOOLEAN /\ hurt \in BOOLEAN

(***************************************************************************)
(* No two accounts are ever on one line, whichever of them was appended,   *)
(* deleted or last: create_admin ends its line without a newline and       *)
(* create_user begins with one.                                            *)
(***************************************************************************)
LinesWhole == \A i \in DOMAIN file : Len(file[i]) <= 1

AccountsIn(f) == {Head(line) : line \in {l \in Range(f) : l # <<>>}}
Admins(f) == {a.name : a \in {b \in AccountsIn(f) : b.role = "admin"}}

(***************************************************************************)
(* One admin, and the same one, is in the file, in the copies about to     *)
(* replace it, and behind every session that holds the role, however       *)
(* sessions collide and die -- until the file is gone or begun anew.       *)
(* README.md:121: delete-user refuses the caller's own account, "to avoid  *)
(* an accidental admin lockout".                                           *)
(***************************************************************************)
AdminKept ==
  server = "serving" /\ ~hurt =>
    \E n \in Name :
      /\ IF file = Missing THEN \E s \in Session : pc[s] = "removed" ELSE Admins(file) = {n}
      /\ \A s \in Session : pc[s] \in {"copied", "removed"} => Admins(temp[s]) = {n}
      /\ \A s \in Session : as[s].role = "admin" => as[s].name = n

(***************************************************************************)
(* The file operations amount to a set of accounts, one to a name:         *)
(* creating and deleting take effect at once, never touch the admin, and   *)
(* no stop or start of the server changes it or asks for a second admin -- *)
(* while nothing has hurt the file, no command has raced another's         *)
(* rewrite, and no two sessions create one name at a time.  users.c:105:   *)
(* "Check for a duplicate username first".                                 *)
(***************************************************************************)
Sound == ~raced /\ ~hurt
Rewritten == {s \in Session : pc[s] = "removed"}
AccountsNow ==
  IF Rewritten = {} THEN AccountsIn(file) ELSE UNION {AccountsIn(temp[s]) : s \in Rewritten}
Abstract == INSTANCE Accounts WITH accounts <- IF Sound THEN AccountsNow ELSE {}, sound <- Sound
AccountsSpec == Abstract!Spec

(***************************************************************************)
(* users.db comes back: no session but one that dies leaves a server       *)
(* without it, which would refuse every login.                             *)
(***************************************************************************)
UsersReturn == file = Missing /\ server = "serving" ~> file # Missing \/ hurt \/ server = "down"

(***************************************************************************)
(* users.c:10: "If no admin, would prompt for creation of admin, else      *)
(* would continue login".                                                  *)
(***************************************************************************)
AdminAskedFor == [][server = "down" /\ server' = "serving" => Admins(file) # {}]_vars
=============================================================================
