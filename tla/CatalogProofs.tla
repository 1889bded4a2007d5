----------------------------- MODULE CatalogProofs -----------------------------
(***************************************************************************)
(* For every number of users, databases, sessions and descriptors: a       *)
(* file has an owner, a name has one owner, and an empty tree is not       *)
(* written over a database -- each but for the exceptions it names.        *)
(***************************************************************************)
EXTENDS Catalog, TLAPS

(* Where a session is says what it has. *)
SessionOK ==
  \A s \in Session :
    /\ pc[s] # "off" => user[s] \in User
    /\ pc[s] \in {"checked", "opened"} => target[s] \in Db
    /\ pc[s] \in {"loading", "gap"} => active[s] \in Db
    /\ pc[s] = "loading" => Left(s) >= 2

(* A session's active database is its user's: no line of owners.db goes. *)
ActiveIsOwned ==
  \A s \in Session : active[s] # None => pc[s] # "off" /\ Owns(user[s], active[s])

(* A name that had a file has it, gets it back, or was given up. *)
Present(d) == d \in files \/ d \in spoilt \/ InGap(d)

NamesPresent ==
  /\ \A d \in Db : Owned(d) => Present(d)
  /\ \A s \in Session : pc[s] = "opened" => Present(target[s])

(* Who is about to become an owner will be the only one. *)
CreatesAlone ==
  \A s \in Session : pc[s] = "opened" /\ target[s] \notin spoilt =>
    /\ ~Owned(target[s])
    /\ \A t \in Session : pc[t] = "opened" /\ target[t] = target[s] => t = s

(* The file being loaded was there when use_database opened it. *)
LoadsAFile ==
  \A s \in Session : pc[s] = "loading" => active[s] \in files \cup gone

(* The inductive invariant: what types each session, then what the theorems say. *)
Typed == TypeOK /\ SessionOK /\ ActiveIsOwned

IInv ==
  /\ Typed
  /\ NamesPresent /\ CreatesAlone /\ OneOwner
  /\ FileHasOwner
  /\ LoadsAFile /\ EmptyTreeIsHarmless

(* One step of Next, with its operands named. *)
LEMMA NextCases ==
  ASSUME Next, NEW P,
         \A s \in Session : End(s) => P,
         \A s \in Session, u \in User : Login(s, u) => P,
         \A s \in Session, d \in Db : CheckCreate(s, d) => P,
         \A s \in Session : OpenCreate(s) => P,
         \A s \in Session : Own(s) => P,
         \A s \in Session, d \in Db : Delete(s, d) => P,
         \A s \in Session, d, e \in Db : Rename(s, d, e) => P,
         \A s \in Session : Refuse(s) => P,
         \A s \in Session, d \in Db : Use(s, d) => P,
         \A s \in Session : Load(s) => P,
         \A s \in Session : AppendLine(s) => P,
         \A s \in Session : RemoveFile(s) => P,
         \A s \in Session : RenameFile(s) => P
  PROVE  P
BY DEF Next

-----------------------------------------------------------------------------
(* Types. *)

LEMMA TypedInit == Init => Typed
BY MaxFdAssumption DEF Init, Typed, TypeOK, SessionOK, ActiveIsOwned

(* A descriptor that is there to lose. *)
LEMMA LoseType ==
  ASSUME TypeOK, NEW s \in Session, NEW n \in Nat, Left(s) >= n, Lose(s, n)
  PROVE  /\ fds' \in [Session -> 0..MaxFd]
         /\ \A t \in Session : t # s => Left(t)' = Left(t)
         /\ Left(s)' = Left(s) - n
<1>1. fds \in [Session -> 0..MaxFd] /\ MaxFd \in Nat
  BY MaxFdAssumption DEF TypeOK
<1>2. fds' = [fds EXCEPT ![s] = fds[s] + n]
  BY <1>1 DEF Lose
<1>3. fds[s] + n \in 0..MaxFd
  BY <1>1 DEF Left
<1>4. fds'[s] = fds[s] + n /\ \A t \in Session : t # s => fds'[t] = fds[t]
  BY <1>1, <1>2
<1>5. QED
  BY <1>1, <1>2, <1>3, <1>4 DEF Left

LEMMA TypedStart ==
  ASSUME Typed, NEW s \in Session,
         End(s) \/ \E u \in User : Login(s, u)
  PROVE  Typed'
<1>1. TypeOK'
  <2>1. CASE End(s)
    <3>1. spoilt' \subseteq Db /\ stray' \subseteq Db
      BY <2>1 DEF Typed, TypeOK, SessionOK, End
    <3>2. fds' \in [Session -> 0..MaxFd]
      BY <2>1, MaxFdAssumption DEF Typed, TypeOK, End
    <3>3. QED
      BY <2>1, <3>1, <3>2 DEF Typed, TypeOK, End
  <2>2. CASE \E u \in User : Login(s, u)
    BY <2>2 DEF Typed, TypeOK, Login, ghosts
  <2>3. QED
    BY <2>1, <2>2
<1>2. SessionOK'
  BY DEF Typed, TypeOK, SessionOK, Left, End, Login
<1>3. ActiveIsOwned'
  BY DEF Typed, TypeOK, ActiveIsOwned, Owns, End, Login
<1>4. QED
  BY <1>1, <1>2, <1>3 DEF Typed

LEMMA TypedCreate ==
  ASSUME Typed, NEW s \in Session,
         (\E d \in Db : CheckCreate(s, d)) \/ OpenCreate(s) \/ Own(s)
  PROVE  Typed'
<1>1. TypeOK'
  BY DEF Typed, TypeOK, SessionOK, CheckCreate, OpenCreate, Own, Collision, ghosts
<1>2. SessionOK'
  BY DEF Typed, TypeOK, SessionOK, Left, CheckCreate, OpenCreate, Own
<1>3. ActiveIsOwned'
  BY DEF Typed, TypeOK, ActiveIsOwned, Owns, CheckCreate, OpenCreate, Own
<1>4. QED
  BY <1>1, <1>2, <1>3 DEF Typed

LEMMA TypedLose ==
  ASSUME Typed, NEW s \in Session,
         \/ \E d \in Db : Delete(s, d) \/ \E e \in Db : Rename(s, d, e)
         \/ Refuse(s)
  PROVE  Typed'
<1>1. Left(s) >= 1 /\ Lose(s, 1) /\ pc[s] = "idle"
  BY DEF Delete, Rename, Refuse
<1>2. /\ fds' \in [Session -> 0..MaxFd]
      /\ \A t \in Session : t # s => Left(t)' = Left(t)
  BY <1>1, LoseType DEF Typed
<1>3. TypeOK'
  BY <1>2 DEF Typed, TypeOK, Delete, Rename, Refuse, GiveUp, OwnersAfterDelete,
     OwnersAfterRename, ghosts
<1>4. pc' = pc /\ user' = user /\ target' = target /\ active' = active /\ owners' = owners
  BY DEF Delete, Rename, Refuse, OwnersAfterDelete, OwnersAfterRename
<1>5. SessionOK'
  BY <1>1, <1>2, <1>4 DEF Typed, SessionOK
<1>6. ActiveIsOwned'
  BY <1>4 DEF Typed, ActiveIsOwned, Owns
<1>7. QED
  BY <1>3, <1>5, <1>6 DEF Typed

LEMMA TypedUse ==
  ASSUME Typed, NEW s \in Session, NEW d \in Db, Use(s, d)
  PROVE  Typed'
<1>1. TypeOK'
  BY DEF Typed, TypeOK, Use, ghosts
<1>2. SessionOK'
  BY DEF Typed, TypeOK, SessionOK, Left, Use
<1>3. ActiveIsOwned'
  BY DEF Typed, TypeOK, ActiveIsOwned, Owns, Use
<1>4. QED
  BY <1>1, <1>2, <1>3 DEF Typed

LEMMA TypedLoad ==
  ASSUME Typed, NEW s \in Session, Load(s)
  PROVE  Typed'
<1>1. Left(s) >= 2 /\ Lose(s, 2)
  BY DEF Typed, SessionOK, Load, LostByUse
<1>2. /\ fds' \in [Session -> 0..MaxFd]
      /\ \A t \in Session : t # s => Left(t)' = Left(t)
  BY <1>1, LoseType DEF Typed
<1>3. TypeOK'
  BY <1>2 DEF Typed, TypeOK, Load, ghosts
<1>4. SessionOK'
  BY <1>2 DEF Typed, TypeOK, SessionOK, Load
<1>5. ActiveIsOwned'
  BY DEF Typed, TypeOK, ActiveIsOwned, Owns, Load
<1>6. QED
  BY <1>3, <1>4, <1>5 DEF Typed

LEMMA TypedFile ==
  ASSUME Typed, NEW s \in Session,
         AppendLine(s) \/ RemoveFile(s) \/ RenameFile(s)
  PROVE  Typed'
<1>1. active[s] # None => active[s] \in Db
  BY DEF Typed, TypeOK
<1>2. active[s] \in Db
  BY <1>1 DEF Typed, TypeOK, SessionOK, AppendLine, RemoveFile, RenameFile
<1>3. TypeOK'
  BY <1>2 DEF Typed, TypeOK, AppendLine, RemoveFile, RenameFile, session, ghosts
<1>4. SessionOK'
  BY <1>2 DEF Typed, TypeOK, SessionOK, Left, AppendLine, RemoveFile, RenameFile, session
<1>5. ActiveIsOwned'
  BY DEF Typed, TypeOK, ActiveIsOwned, Owns, AppendLine, RemoveFile, RenameFile, session
<1>6. QED
  BY <1>3, <1>4, <1>5 DEF Typed

LEMMA TypedNext ==
  ASSUME Typed, [Next]_vars
  PROVE  Typed'
<1>1. CASE Next
  BY <1>1, NextCases, TypedStart, TypedCreate, TypedLose, TypedUse, TypedLoad, TypedFile
<1>2. CASE UNCHANGED vars
  BY <1>2 DEF Typed, TypeOK, SessionOK, ActiveIsOwned, Owns, Left, vars, session, ghosts
<1>3. QED
  BY <1>1, <1>2

(***************************************************************************)
(* However sessions interleave, end and run out of descriptors, files and  *)
(* lines of owners.db are about databases and users, and no session opens  *)
(* more files than it may.                                                 *)
(***************************************************************************)
THEOREM TypeCorrect == Spec => []TypeOK
<1>1. Typed => TypeOK
  BY DEF Typed
<1>2. QED
  BY <1>1, TypedInit, TypedNext, PTL DEF Spec

-----------------------------------------------------------------------------
(* Names and their owners. *)

(* Only add_ownership writes to owners.db, and what is spoilt stays so. *)
LEMMA Grows ==
  ASSUME Next
  PROVE  /\ spoilt \subseteq spoilt' /\ gone \subseteq gone' /\ stray \subseteq stray'
         /\ owners \subseteq owners'
         /\ (\E s \in Session : Own(s)) \/ owners' = owners
BY NextCases DEF End, Login, CheckCreate, OpenCreate, Own, Delete, Rename, Refuse, Use, Load,
   AppendLine, RemoveFile, RenameFile, GiveUp, OwnersAfterDelete, OwnersAfterRename, ghosts

(* Where a file goes, its name is given up or a rewrite is about to bring it back. *)
LEMMA StaysPresent ==
  ASSUME Typed, Next, NEW d \in Db, Present(d)
  PROVE  Present(d)'
<1>1. CASE d \in spoilt
  BY <1>1, Grows DEF Present
<1>2. CASE d \in files
  <2>1. ASSUME NEW s \in Session, NEW e \in Db, Delete(s, e) PROVE Present(d)'
    BY <1>2, <2>1 DEF Delete, GiveUp, Present
  <2>2. ASSUME NEW s \in Session, NEW e \in Db, NEW f \in Db, Rename(s, e, f) PROVE Present(d)'
    BY <1>2, <2>2 DEF Rename, GiveUp, Present
  <2>3. ASSUME NEW s \in Session, RemoveFile(s) PROVE Present(d)'
    BY <1>2, <2>3 DEF RemoveFile, Present, InGap, Typed, TypeOK
  <2>4. ASSUME files \subseteq files' PROVE Present(d)'
    BY <1>2, <2>4 DEF Present
  <2>5. QED
    BY <2>1, <2>2, <2>3, <2>4, NextCases DEF End, Login, CheckCreate, OpenCreate, Own,
       Refuse, Use, Load, AppendLine, RenameFile
<1>3. CASE InGap(d)
  <2>1. PICK g \in Session : pc[g] = "gap" /\ active[g] = d
    BY <1>3 DEF InGap
  <2>2. ASSUME pc'[g] = "gap" /\ active'[g] = d PROVE Present(d)'
    BY <2>2 DEF Present, InGap
  <2>3. ASSUME NEW s \in Session, End(s) PROVE Present(d)'
    BY <2>1, <2>2, <2>3 DEF End, Present, Typed, TypeOK
  <2>4. ASSUME NEW s \in Session, RenameFile(s) PROVE Present(d)'
    BY <2>1, <2>2, <2>4 DEF RenameFile, Present, Typed, TypeOK
  <2>5. ASSUME NEW s \in Session,
               \/ \E u \in User : Login(s, u)
               \/ \E e \in Db : CheckCreate(s, e) \/ Delete(s, e) \/ Use(s, e)
               \/ \E e, f \in Db : Rename(s, e, f)
               \/ OpenCreate(s) \/ Own(s) \/ Refuse(s) \/ Load(s)
               \/ AppendLine(s) \/ RemoveFile(s)
        PROVE  Present(d)'
    <3>1. pc'[g] = "gap" /\ active'[g] = d
      BY <2>1, <2>5 DEF Login, CheckCreate, Delete, Use, Rename, OpenCreate, Own, Refuse,
         Load, AppendLine, RemoveFile, session, Typed, TypeOK
    <3>2. QED
      BY <2>2, <3>1
  <2>6. QED
    BY <2>3, <2>4, <2>5, NextCases
<1>4. QED
  BY <1>1, <1>2, <1>3 DEF Present

(* The openers of a file, and the names they create. *)
LEMMA OpenersNext ==
  ASSUME Typed, Next, NEW t \in Session, pc'[t] = "opened"
  PROVE  /\ target'[t] = target[t] /\ target[t] \in Db
         /\ pc[t] = "opened" \/ OpenCreate(t)
<1>1. \A s \in Session : OpenCreate(s) => pc[s] = "checked" /\ target' = target
                       /\ \A u \in Session : u # s => pc'[u] = pc[u]
  BY DEF Typed, TypeOK, OpenCreate
<1>2. /\ target'[t] = target[t]
      /\ pc[t] = "opened" \/ OpenCreate(t)
  BY <1>1, NextCases DEF Typed, TypeOK, End, Login, CheckCreate, Own, Delete, Rename, Refuse,
     Use, Load, AppendLine, RemoveFile, RenameFile, session
<1>3. QED
  BY <1>1, <1>2 DEF Typed, SessionOK

LEMMA PresentNext ==
  ASSUME Typed, NamesPresent, Next
  PROVE  NamesPresent'
<1>1. ASSUME NEW d \in Db, Owned(d)' PROVE Present(d)'
  <2>1. CASE Owned(d)
    BY <2>1, StaysPresent DEF NamesPresent
  <2>2. CASE ~Owned(d)
    <3>1. PICK s \in Session : Own(s) /\ target[s] = d
      BY <1>1, <2>2, Grows DEF Owned, Owns, Own
    <3>2. Present(d)
      BY <3>1 DEF NamesPresent, Own
    <3>3. QED
      BY <3>2, StaysPresent
  <2>3. QED
    BY <2>1, <2>2
<1>2. ASSUME NEW t \in Session, pc'[t] = "opened" PROVE Present(target[t])'
  <2>1. target'[t] = target[t] /\ target[t] \in Db
    BY <1>2, OpenersNext
  <2>2. CASE pc[t] = "opened"
    BY <2>1, <2>2, StaysPresent DEF NamesPresent, Present, InGap
  <2>3. CASE OpenCreate(t)
    BY <2>1, <2>3 DEF OpenCreate, Present
  <2>4. QED
    BY <1>2, <2>2, <2>3, OpenersNext
<1>3. QED
  BY <1>1, <1>2 DEF NamesPresent

LEMMA AloneNext ==
  ASSUME Typed, NamesPresent, CreatesAlone, Next
  PROVE  CreatesAlone'
<1> SUFFICES ASSUME NEW s \in Session, pc'[s] = "opened", target'[s] \notin spoilt'
             PROVE  /\ ~Owned(target[s])'
                    /\ \A t \in Session : pc'[t] = "opened" /\ target'[t] = target'[s] => t = s
  BY DEF CreatesAlone
<1> DEFINE d == target[s]
<1>1. target'[s] = d /\ d \in Db /\ d \notin spoilt
  BY OpenersNext, Grows
<1>2. CASE OpenCreate(s)
  <2>1. d \notin files /\ ~InGap(d) /\ owners' = owners
    BY <1>1, <1>2 DEF OpenCreate, Collision
  <2>2. ~Present(d)
    BY <1>1, <2>1 DEF Present
  <2>3. ~Owned(d)
    BY <1>1, <2>2 DEF NamesPresent
  <2>4. \A t \in Session : pc[t] = "opened" => target[t] # d
    BY <2>2 DEF NamesPresent
  <2>5. \A t \in Session : t # s => pc'[t] = pc[t] /\ target'[t] = target[t]
    BY <1>2 DEF OpenCreate, Typed, TypeOK
  <2>6. QED
    BY <1>1, <2>1, <2>3, <2>4, <2>5 DEF Owned, Owns
<1>3. CASE pc[s] = "opened"
  <2>1. ~Owned(d) /\ \A t \in Session : pc[t] = "opened" /\ target[t] = d => t = s
    BY <1>1, <1>3 DEF CreatesAlone
  <2>2. \A t \in Session : Own(t) => target[t] # d
    <3>1. SUFFICES ASSUME NEW t \in Session, Own(t), target[t] = d PROVE FALSE
      OBVIOUS
    <3>2. t = s
      BY <2>1, <3>1 DEF Own
    <3>3. QED
      BY <3>1, <3>2 DEF Own, Typed, TypeOK
  <2>3. \A u \in User : <<u, d>> \notin owners'
    BY <2>1, <2>2, Grows DEF Owned, Owns, Own
  <2>4. ASSUME NEW t \in Session, pc'[t] = "opened", target'[t] = d PROVE t = s
    <3>1. CASE pc[t] = "opened"
      BY <2>1, <2>4, <3>1, OpenersNext
    <3>2. CASE OpenCreate(t)
      <4>1. target[t] = d /\ d \notin files /\ ~InGap(d)
        BY <1>1, <2>4, <3>2 DEF OpenCreate, Collision
      <4>2. QED
        BY <1>1, <1>3, <4>1 DEF NamesPresent, Present
    <3>3. QED
      BY <2>4, <3>1, <3>2, OpenersNext
  <2>5. QED
    BY <1>1, <2>3, <2>4 DEF Owned, Owns
<1>4. QED
  BY <1>2, <1>3, OpenersNext

LEMMA OneOwnerNext ==
  ASSUME Typed, CreatesAlone, OneOwner, Next
  PROVE  OneOwner'
<1> SUFFICES ASSUME NEW d \in Db, NEW u \in User, NEW v \in User,
                    Owns(u, d)', Owns(v, d)', d \notin spoilt'
             PROVE  u = v
  BY DEF OneOwner
<1>1. d \notin spoilt
  BY Grows
<1>2. CASE owners' = owners
  BY <1>1, <1>2 DEF OneOwner, Owns
<1>3. ASSUME NEW s \in Session, Own(s) PROVE u = v
  <2>1. CASE target[s] = d
    <3>1. ~Owned(d)
      BY <1>1, <1>3, <2>1 DEF CreatesAlone, Own
    <3>2. QED
      BY <1>3, <3>1 DEF Own, Owned, Owns
  <2>2. CASE target[s] # d
    <3>1. Owns(u, d) /\ Owns(v, d)
      BY <1>3, <2>2 DEF Own, Owns
    <3>2. QED
      BY <1>1, <3>1 DEF OneOwner
  <2>3. QED
    BY <2>1, <2>2
<1>4. QED
  BY <1>2, <1>3, Grows

(* A file that comes is being created, brought back, or put in a stray place. *)
LEMMA HasOwnerNext ==
  ASSUME Typed, FileHasOwner, Next
  PROVE  FileHasOwner'
<1> SUFFICES ASSUME NEW d \in files', d \notin stray',
                    \A t \in Session : ~(pc'[t] = "opened" /\ target'[t] = d)
             PROVE  Owned(d)'
  BY DEF FileHasOwner
<1>1. Owned(d) => Owned(d)'
  BY Grows DEF Owned, Owns
<1>2. d \notin stray
  BY Grows
<1>3. ASSUME d \in files, NEW t \in Session, pc[t] = "opened", target[t] = d PROVE Owned(d)'
  <2>1. CASE Own(t)
    BY <1>3, <2>1 DEF Own, Typed, TypeOK, SessionOK, Owned, Owns
  <2>2. CASE End(t)
    BY <1>3, <2>2 DEF End
  <2>3. CASE ~Own(t) /\ ~End(t)
    <3>1. pc'[t] = "opened" /\ target'[t] = d
      BY <1>3, <2>3, NextCases DEF End, Login, CheckCreate, OpenCreate, Own, Delete, Rename,
         Refuse, Use, Load, AppendLine, RemoveFile, RenameFile, session, Typed, TypeOK
    <3>2. QED
      BY <3>1
  <2>4. QED
    BY <2>1, <2>2, <2>3
<1>4. CASE d \in files
  BY <1>1, <1>2, <1>3, <1>4 DEF FileHasOwner
<1>5. CASE d \notin files
  <2>1. ASSUME NEW s \in Session, OpenCreate(s) PROVE FALSE
    <3>1. d = target[s] /\ pc'[s] = "opened" /\ target'[s] = d
      BY <1>5, <2>1 DEF OpenCreate, Typed, TypeOK
    <3>2. QED
      BY <3>1
  <2>2. ASSUME NEW s \in Session, AppendLine(s) \/ RenameFile(s) PROVE Owned(d)
    <3>1. d = active[s] /\ active[s] # None
      BY <1>5, <2>2, NoneAssumption DEF AppendLine, RenameFile, Typed, SessionOK
    <3>2. user[s] \in User /\ Owns(user[s], d)
      BY <3>1 DEF Typed, SessionOK, ActiveIsOwned
    <3>3. QED
      BY <3>2 DEF Owned
  <2>3. ASSUME NEW s \in Session, NEW e \in Db, NEW f \in Db, Rename(s, e, f) PROVE Owned(d)
    BY <1>5, <2>3 DEF Rename
  <2>4. ASSUME files' \subseteq files PROVE FALSE
    BY <1>5, <2>4
  <2>5. QED
    BY <1>1, <2>1, <2>2, <2>3, <2>4, NextCases DEF End, Login, CheckCreate, Own, Delete,
       Refuse, Use, Load, RemoveFile
<1>6. QED
  BY <1>4, <1>5

(* A file goes only with a name that is gone. *)
LEMMA FilesGo ==
  ASSUME Typed, Next
  PROVE  files \subseteq files' \cup gone'
BY NextCases DEF End, Login, CheckCreate, OpenCreate, Own, Delete, Rename, Refuse, Use, Load,
   AppendLine, RemoveFile, RenameFile, GiveUp, ghosts

(* No step gives a session a descriptor, but its end. *)
LEMMA LeftNext ==
  ASSUME Typed, Next, NEW t \in Session, Left(t) = 0, active'[t] # None
  PROVE  Left(t)' = 0
<1>1. ASSUME NEW s \in Session, NEW n \in Nat, Left(s) >= n, n > 0, Lose(s, n)
      PROVE  Left(t)' = Left(t)
  BY <1>1, LoseType DEF Typed
<1>2. ASSUME NEW s \in Session, Load(s) PROVE Left(t)' = Left(t)
  BY <1>1, <1>2 DEF Load, LostByUse, Typed, SessionOK
<1>3. ASSUME NEW s \in Session, End(s) PROVE Left(t)' = Left(t)
  <2>1. active'[s] = None
    BY <1>3 DEF End, Typed, TypeOK
  <2>2. QED
    BY <1>3, <2>1 DEF End, Typed, TypeOK, Left
<1>4. ASSUME NEW s \in Session,
             \/ \E e \in Db : Delete(s, e) \/ \E f \in Db : Rename(s, e, f)
             \/ Refuse(s)
      PROVE  Left(t)' = Left(t)
  BY <1>1, <1>4 DEF Delete, Rename, Refuse
<1>5. fds' = fds => Left(t)' = Left(t)
  BY DEF Left
<1>6. QED
  BY <1>2, <1>3, <1>4, <1>5, NextCases DEF Login, CheckCreate, OpenCreate, Own, Use,
     AppendLine, RemoveFile, RenameFile, session

LEMMA HarmlessNext ==
  ASSUME Typed, LoadsAFile, EmptyTreeIsHarmless, Next
  PROVE  LoadsAFile' /\ EmptyTreeIsHarmless'
<1>1. ASSUME NEW t \in Session, pc'[t] = "loading" PROVE active'[t] \in files' \cup gone'
  <2>1. \/ active'[t] = active[t] /\ pc[t] = "loading"
        \/ \E d \in Db : Use(t, d)
    BY <1>1, NextCases DEF End, Login, CheckCreate, OpenCreate, Own, Delete, Rename, Refuse,
       Use, Load, AppendLine, RemoveFile, RenameFile, session, Typed, TypeOK
  <2>2. CASE \E d \in Db : Use(t, d)
    BY <2>2 DEF Use, Typed, TypeOK
  <2>3. CASE active'[t] = active[t] /\ pc[t] = "loading"
    BY <2>3, FilesGo, Grows DEF LoadsAFile
  <2>4. QED
    BY <2>1, <2>2, <2>3
<1>2. ASSUME NEW t \in Session, pc'[t] # "loading", active'[t] # None, ~loaded'[t]
      PROVE  Left(t)' = 0 \/ active'[t] \in gone'
  <2>1. CASE Load(t)
    <3>1. Left(t) >= 2 /\ Left(t)' = Left(t) - 2
      BY <2>1, LoseType DEF Load, LostByUse, Typed, SessionOK
    <3>2. active' = active /\ loaded'[t] = (Left(t) >= 3 /\ active[t] \in files)
      BY <2>1 DEF Load, Typed, TypeOK
    <3>3. CASE Left(t) >= 3
      BY <1>2, <2>1, <3>2, <3>3, Grows DEF LoadsAFile, Load
    <3>4. CASE ~(Left(t) >= 3)
      BY <3>1, <3>4, MaxFdAssumption DEF Typed, TypeOK, Left
    <3>5. QED
      BY <3>3, <3>4
  <2>2. CASE ~Load(t)
    <3>1. pc[t] # "loading" /\ active'[t] = active[t] /\ loaded'[t] = loaded[t]
      BY <1>2, <2>2, NextCases DEF End, Login, CheckCreate, OpenCreate, Own, Delete, Rename,
         Refuse, Use, Load, AppendLine, RemoveFile, RenameFile, session, Typed, TypeOK
    <3>2. Left(t) = 0 \/ active[t] \in gone
      BY <1>2, <3>1 DEF EmptyTreeIsHarmless
    <3>3. QED
      BY <1>2, <3>1, <3>2, LeftNext, Grows
  <2>3. QED
    BY <2>1, <2>2
<1>3. QED
  BY <1>1, <1>2 DEF LoadsAFile, EmptyTreeIsHarmless

-----------------------------------------------------------------------------
LEMMA InvInit == Init => IInv
<1>1. ASSUME Init
      PROVE  /\ NamesPresent /\ CreatesAlone /\ OneOwner /\ FileHasOwner
             /\ LoadsAFile /\ EmptyTreeIsHarmless
  BY <1>1 DEF Init, NamesPresent, CreatesAlone, OneOwner, FileHasOwner, LoadsAFile,
     EmptyTreeIsHarmless, Owned, Owns
<1>2. QED
  BY <1>1, TypedInit DEF IInv

LEMMA InvNext ==
  ASSUME IInv, [Next]_vars
  PROVE  IInv'
<1>1. CASE Next
  BY <1>1, TypedNext, PresentNext, AloneNext, OneOwnerNext, HasOwnerNext, HarmlessNext DEF IInv
<1>2. CASE UNCHANGED vars
  <2>1. Typed'
    BY <1>2, TypedNext DEF IInv
  <2>2. NamesPresent' /\ CreatesAlone' /\ OneOwner' /\ FileHasOwner'
    BY <1>2 DEF IInv, NamesPresent, CreatesAlone, OneOwner, FileHasOwner, Present, InGap,
       Owned, Owns, vars, session, ghosts
  <2>3. LoadsAFile' /\ EmptyTreeIsHarmless'
    BY <1>2 DEF IInv, LoadsAFile, EmptyTreeIsHarmless, Left, vars, session, ghosts
  <2>4. QED
    BY <2>1, <2>2, <2>3 DEF IInv
<1>3. QED
  BY <1>1, <1>2

(***************************************************************************)
(* create_database's test for the file keeps two owners of one name apart  *)
(* until the file is given up or the test is passed in a gap.              *)
(***************************************************************************)
THEOREM NameHasOneOwner == Spec => []OneOwner
<1>1. IInv => OneOwner
  BY DEF IInv
<1>2. QED
  BY <1>1, InvInit, InvNext, PTL DEF Spec

(***************************************************************************)
(* No command leaves a file without an owner, but a rename to a name of    *)
(* nobody's and a create that ends early or finds no descriptor.           *)
(***************************************************************************)
THEOREM FilesHaveOwners == Spec => []FileHasOwner
<1>1. IInv => FileHasOwner
  BY DEF IInv
<1>2. QED
  BY <1>1, InvInit, InvNext, PTL DEF Spec

(***************************************************************************)
(* The tree that use_database leaves empty, for want of a descriptor, is   *)
(* never written into the database: there is no descriptor left for that.  *)
(***************************************************************************)
THEOREM EmptyTreesAreHarmless == Spec => []EmptyTreeIsHarmless
<1>1. IInv => EmptyTreeIsHarmless
  BY DEF IInv
<1>2. QED
  BY <1>1, InvInit, InvNext, PTL DEF Spec
=============================================================================
