------------------------------ MODULE UsersProofs ------------------------------
(***************************************************************************)
(* For any number of sessions and names: the lines of users.db stay whole, *)
(* it keeps its one admin, and its file operations amount to a set of      *)
(* accounts.                                                               *)
(***************************************************************************)
EXTENDS Users, LinesProofs

-----------------------------------------------------------------------------
(* Files with at most one account on a line. *)

WholeLine == {line \in Seq(Account) : Len(line) <= 1}
WholeFile == Seq(WholeLine)

LEMMA WholeLines ==
  /\ <<>> \in WholeLine
  /\ \A a \in Account : <<a>> \in WholeLine /\ <<a>> # <<>> /\ Head(<<a>>) = a /\ Len(<<a>>) = 1
  /\ \A line \in WholeLine : line # <<>> => Head(line) \in Account /\ Len(line) = 1
<1>1. <<>> \in WholeLine
  BY DEF WholeLine
<1>2. ASSUME NEW a \in Account
      PROVE  <<a>> \in WholeLine /\ <<a>> # <<>> /\ Head(<<a>>) = a /\ Len(<<a>>) = 1
  <2>1. <<a>> \in Seq(Account) /\ Len(<<a>>) = 1
    OBVIOUS
  <2>2. QED
    BY <2>1 DEF WholeLine
<1>3. ASSUME NEW line \in WholeLine, line # <<>>
      PROVE  Head(line) \in Account /\ Len(line) = 1
  <2>1. line \in Seq(Account) /\ Len(line) \in Nat /\ Len(line) <= 1 /\ Len(line) # 0
    BY <1>3, EmptySeq DEF WholeLine
  <2>2. Len(line) = 1
    BY <2>1
  <2>3. QED
    BY <1>3, <2>1, <2>2, HeadTailProperties
<1>4. QED
  BY <1>1, <1>2, <1>3

LEMMA AccountsInType ==
  ASSUME NEW f \in WholeFile
  PROVE  AccountsIn(f) \subseteq Account
<1>1. \A line \in Range(f) : line \in WholeLine
  BY DEF WholeFile, Range
<1>2. QED
  BY <1>1, WholeLines DEF AccountsIn

LEMMA SpecialFiles ==
  /\ Missing \in WholeFile /\ Blank \in WholeFile /\ Blank # Missing
  /\ AccountsIn(Missing) = {} /\ AccountsIn(Blank) = {}
  /\ \A a \in Account : <<<<a>>>> \in WholeFile /\ <<<<a>>>> # Missing /\ AccountsIn(<<<<a>>>>) = {a}
<1>1. \A l \in WholeLine : <<l>> \in WholeFile /\ <<l>> # <<>> /\ Range(<<l>>) = {l}
  BY DEF WholeFile, Range
<1>2. Missing \in WholeFile /\ Range(Missing) = {}
  BY DEF WholeFile, Range, Missing
<1>3. Blank \in WholeFile /\ Blank # Missing /\ Range(Blank) = {<<>>}
  BY <1>1, WholeLines DEF Blank, Missing
<1>4. \A a \in Account : <<<<a>>>> \in WholeFile /\ <<<<a>>>> # Missing /\ Range(<<<<a>>>>) = {<<a>>}
  BY <1>1, WholeLines DEF Missing
<1>5. \A a \in Account : AccountsIn(<<<<a>>>>) = {a}
  BY <1>4, WholeLines DEF AccountsIn
<1>6. QED
  BY <1>2, <1>3, <1>4, <1>5 DEF AccountsIn

(* create_user's line. *)
LEMMA AppendedFacts ==
  ASSUME NEW f \in WholeFile, NEW a \in Account
  PROVE  /\ Append(f, <<a>>) \in WholeFile /\ Append(f, <<a>>) # Missing
         /\ AccountsIn(Append(f, <<a>>)) = AccountsIn(f) \cup {a}
<1>1. <<a>> \in WholeLine /\ <<a>> # <<>> /\ Head(<<a>>) = a
  BY WholeLines
<1>2. Append(f, <<a>>) \in WholeFile /\ Append(f, <<a>>) # Missing
  <2>1. f \in Seq(WholeLine)
    BY DEF WholeFile
  <2>2. QED
    BY <1>1, <2>1, AppendProperties DEF WholeFile, Missing
<1>3. Range(Append(f, <<a>>)) = Range(f) \cup {<<a>>}
  BY <1>1, RangeAppend DEF WholeFile
<1>4. QED
  BY <1>1, <1>2, <1>3 DEF AccountsIn

(***************************************************************************)
(* delete_user's copy: the accounts but those with the name, whether or    *)
(* not one of them is on the last line.                                    *)
(***************************************************************************)
LEMMA DroppedFacts ==
  ASSUME NEW f \in WholeFile, f # Missing, NEW n \in Name
  PROVE  /\ Dropped(f, n) \in WholeFile /\ Dropped(f, n) # Missing
         /\ AccountsIn(Dropped(f, n)) = {a \in AccountsIn(f) : a.name # n}
<1> DEFINE drop == {line \in Range(f) : Begins(line, n)}
           front == Front(f)
           last == IF Begins(Last(f), n) THEN <<>> ELSE Last(f)
           rest == Without(front, drop)
<1>1. /\ front \in WholeFile /\ Last(f) \in WholeLine /\ Last(f) \in Range(f)
      /\ Range(f) = Range(front) \cup {Last(f)}
  <2>1. /\ Len(f) \in Nat \ {0} /\ f \in Seq(WholeLine)
        /\ \A i \in 1 .. Len(f) : f[i] \in WholeLine
    BY DEF WholeFile, Missing
  <2>2. /\ front \in Seq(WholeLine) /\ Len(front) = Len(f) - 1
        /\ \A i \in 1 .. Len(f) - 1 : front[i] = f[i]
    <3>1. front = SubSeq(f, 1, Len(f) - 1)
      BY DEF Front
    <3>2. PICK m \in Nat : Len(f) = m + 1 /\ Len(f) - 1 = m
      BY <2>1
    <3>3. \A i \in 1 .. m : f[i] \in WholeLine
      BY <2>1, <3>2
    <3>4. /\ SubSeq(f, 1, m) \in Seq(WholeLine)
          /\ Len(SubSeq(f, 1, m)) = IF 1 <= m THEN m - 1 + 1 ELSE 0
          /\ \A i \in 1 .. m - 1 + 1 : SubSeq(f, 1, m)[i] = f[1 + i - 1]
      BY <3>3, SubSeqProperties
    <3> HIDE DEF front
    <3>5. QED
      BY <3>1, <3>2, <3>4
  <2>3. 1 .. Len(f) = (1 .. Len(f) - 1) \cup {Len(f)}
    BY <2>1
  <2>4. DOMAIN f = 1 .. Len(f) /\ DOMAIN front = 1 .. Len(f) - 1
    BY <2>1, <2>2
  <2> HIDE DEF front
  <2>5. QED
    BY <2>1, <2>2, <2>3, <2>4 DEF Last, Range, WholeFile
<1>2. rest \in WholeFile /\ Range(rest) = Range(front) \ drop
  BY <1>1, WithoutFacts DEF WholeFile
<1>3. last \in WholeLine
  BY <1>1, WholeLines
<1>4. Dropped(f, n) = Append(rest, last)
  BY DEF Dropped
<1> HIDE DEF rest, last
<1>5. Append(rest, last) \in WholeFile /\ Append(rest, last) # Missing
  BY <1>2, <1>3 DEF WholeFile, Missing
<1>6. Range(Append(rest, last)) = (Range(front) \ drop) \cup {last}
  BY <1>2, <1>3, RangeAppend DEF WholeFile
<1>7. \A line \in Range(f) : line # <<>> => (Begins(line, n) <=> Head(line).name = n)
  BY DEF Begins
<1>8. {l \in Range(Append(rest, last)) : l # <<>>} =
        {l \in Range(f) : l # <<>> /\ Head(l).name # n}
  BY <1>1, <1>6, <1>7 DEF last
<1>9. QED
  BY <1>4, <1>5, <1>8 DEF AccountsIn

(* What login reads: the line of an account with the name. *)
LEMMA FirstLineFacts ==
  ASSUME NEW f \in WholeFile, NEW n \in Name, Found(f, n)
  PROVE  /\ f # Missing
         /\ [name |-> n, role |-> RoleOn(FirstLine(f, n))] \in Caller
         /\ \E a \in AccountsIn(f) : a.name = n /\ a.role = RoleOn(FirstLine(f, n))
<1> DEFINE S == {i \in 1 .. Len(f) : Begins(f[i], n)}
           P(i) == i \in DOMAIN f /\ Begins(f[i], n) /\ \A j \in 1 .. i - 1 : ~Begins(f[j], n)
<1>1. Len(f) \in Nat /\ DOMAIN f = 1 .. Len(f) /\ \A i \in 1 .. Len(f) : f[i] \in WholeLine
  BY DEF WholeFile
<1>2. PICK i \in S : \A j \in S : i <= j
  <2>1. S \in SUBSET Nat /\ S # {}
    BY <1>1 DEF Found
  <2> HIDE DEF S
  <2>2. QED
    BY <2>1, LeastNumber
<1>3. P(i)
  BY <1>1, <1>2
<1> DEFINE k == CHOOSE x \in DOMAIN f : Begins(f[x], n) /\ \A j \in 1 .. x - 1 : ~Begins(f[j], n)
<1>4. k \in DOMAIN f /\ Begins(f[k], n)
  BY <1>3
<1>5. FirstLine(f, n) = f[k]
  BY DEF FirstLine
<1> HIDE DEF k
<1>6. f[k] \in WholeLine /\ f[k] # <<>> /\ Head(f[k]).name = n
  BY <1>1, <1>4 DEF Begins
<1>7. Len(f[k]) = 1 /\ Head(f[k]) \in Account
  BY <1>6, WholeLines
<1>8. [name |-> n, role |-> Head(f[k]).role] \in Caller
  BY <1>6, <1>7 DEF Account, Caller
<1>9. f[k] \in Range(f)
  BY <1>4 DEF Range
<1>10. Head(f[k]) \in AccountsIn(f)
  BY <1>6, <1>9 DEF AccountsIn
<1>11. f # Missing
  BY <1>1, <1>4 DEF Missing
<1>12. QED
  BY <1>5, <1>6, <1>7, <1>8, <1>10, <1>11 DEF RoleOn

-----------------------------------------------------------------------------
(* Shape: the types, with whole lines; nobody is served before the server    *)
(* serves; the file is what init and create_admin have made it while they    *)
(* run, it is there while a handle on it is open, and no copy is empty.      *)
Shape ==
  /\ server \in {"down", "prompt", "granting", "serving"}
  /\ file \in WholeFile /\ owners \subseteq Name
  /\ pc \in [Session -> {"off", "in", "checked", "open", "stale", "copied", "removed"}]
  /\ as \in [Session -> Caller] /\ target \in [Session -> Name]
  /\ temp \in [Session -> WholeFile]
  /\ raced \in BOOLEAN /\ hurt \in BOOLEAN
  /\ server # "serving" => \A s \in Session : pc[s] = "off"
  /\ server = "prompt" => file = Blank
  /\ server = "granting" => \E a \in Account : file = <<<<a>>>>
  /\ \A s \in Session : /\ pc[s] = "off" => as[s].role = "user"
                        /\ pc[s] = "open" => file # Missing
                        /\ pc[s] \in {"copied", "removed"} => temp[s] # Missing

(* One name is the admin's: in the file or the copy about to replace it, in  *)
(* every copy, behind every session that has the role; and no create-user    *)
(* is under way for it, unless one looked for it while the file was gone.    *)
AdminIs(n) ==
  /\ IF file = Missing THEN \E s \in Session : pc[s] = "removed" ELSE Admins(file) = {n}
  /\ \A s \in Session :
       /\ pc[s] \in {"copied", "removed"} => Admins(temp[s]) = {n}
       /\ as[s].role = "admin" => as[s].name = n
       /\ ~raced /\ pc[s] \in {"checked", "open", "stale"} => target[s] # n

(* There is one from create_admin on. *)
OneAdmin ==
  ~hurt => \/ server = "down" /\ file = Missing
           \/ server = "prompt"
           \/ \E n \in Name : AdminIs(n)

(* One rewrite at a time, and its copy is the file but for one user. *)
CopySound ==
  Sound =>
    /\ \A s, t \in Session : pc[s] = "removed" /\ pc[t] = "removed" => s = t
    /\ \A s \in Session :
         /\ pc[s] = "removed" => file = Missing
         /\ pc[s] = "copied" =>
              \E n \in Name \ Admins(file) :
                AccountsIn(temp[s]) = {a \in AccountsIn(file) : a.name # n}

IInv == Shape /\ OneAdmin /\ CopySound

-----------------------------------------------------------------------------
(* Shape is preserved. *)

LEMMA NoOne ==
  NoCaller \in Caller /\ NoCaller.role = "user" /\ NoName \in Name
<1>1. PICK n \in Name : TRUE
  BY NameAssumption
<1>2. [name |-> n, role |-> "user"] \in Caller
  BY DEF Caller, Role
<1>3. \E c \in Caller : c.role = "user"
  BY <1>2
<1>4. QED
  BY <1>1, <1>3 DEF NoCaller, NoName

(* The lines that create_admin and create_user write. *)
LEMMA NewLines ==
  ASSUME NEW n \in Name
  PROVE  /\ NewHash(file, n) \in Hash
         /\ [name |-> n, hash |-> NewHash(file, n), role |-> "admin"] \in Account
         /\ User(n) \in Account /\ User(n).name = n /\ User(n).role = "user"
<1>1. NewHash(file, n) \in Hash
  <2> DEFINE Taken(h) == (\E k \in Hash : Fresh(file, n, k)) => Fresh(file, n, h)
  <2>1. \E h \in Hash : Taken(h)
    BY HashAssumption
  <2>2. (CHOOSE h \in Hash : Taken(h)) \in Hash
    BY <2>1
  <2>3. QED
    BY <2>2 DEF NewHash
<1>2. QED
  BY <1>1 DEF Account, Role, User

LEMMA ShapeInit == Init => Shape
BY NoOne, SpecialFiles DEF Init, Shape

LEMMA ShapeServer ==
  ASSUME Shape, Start \/ Grant \/ Stop \/ (\E n \in Name : TypeAdmin(n))
  PROVE  Shape'
<1>1. CASE Start
  BY <1>1, SpecialFiles DEF Shape, Start, session, ghosts
<1>2. CASE Grant
  <2>1. PICK a \in Account : file = <<<<a>>>>
    BY <1>2 DEF Shape, Grant
  <2>2. Head(Head(file)) = a
    BY <2>1
  <2>3. owners' \subseteq Name
    BY <1>2, <2>2 DEF Shape, Grant, Account
  <2>4. QED
    BY <1>2, <2>3 DEF Shape, Grant, session, ghosts
<1>3. CASE Stop
  BY <1>3, NoOne, SpecialFiles DEF Shape, Stop
<1>4. ASSUME NEW n \in Name, TypeAdmin(n) PROVE Shape'
  <2>1. PICK a \in Account : file' = <<<<a>>>>
    BY <1>4, NewLines DEF TypeAdmin
  <2>2. file' \in WholeFile /\ file' # Missing
    BY <2>1, SpecialFiles
  <2>3. QED
    BY <1>4, <2>1, <2>2 DEF Shape, TypeAdmin, session
<1>5. QED
  BY <1>1, <1>2, <1>3, <1>4

LEMMA ShapeSession ==
  ASSUME Shape, NEW s \in Session,
         End(s) \/ (\E n \in Name : Login(s, n) \/ CheckName(s, n) \/ CopyUsers(s, n))
  PROVE  Shape'
<1>1. CASE End(s)
  BY <1>1, NoOne, SpecialFiles DEF Shape, End
<1>2. ASSUME NEW n \in Name, Login(s, n) PROVE Shape'
  <2>1. [name |-> n, role |-> RoleOn(FirstLine(file, n))] \in Caller
    BY <1>2, FirstLineFacts DEF Login, Shape
  <2>2. QED
    BY <1>2, <2>1 DEF Shape, Login, ghosts
<1>3. ASSUME NEW n \in Name, CheckName(s, n) PROVE Shape'
  BY <1>3 DEF Shape, CheckName
<1>4. ASSUME NEW n \in Name, CopyUsers(s, n) PROVE Shape'
  <2>1. file # Missing
    BY <1>4, FirstLineFacts DEF Shape, CopyUsers
  <2>2. Dropped(file, n) \in WholeFile /\ Dropped(file, n) # Missing
    BY <2>1, DroppedFacts DEF Shape
  <2>3. QED
    BY <1>4, <2>2 DEF Shape, CopyUsers, ghosts
<1>5. QED
  BY <1>1, <1>2, <1>3, <1>4

LEMMA ShapeFile ==
  ASSUME Shape, NEW s \in Session, Continue(s) \/ LoseUsers(s)
  PROVE  Shape'
<1>1. CASE OpenUsers(s)
  BY <1>1, SpecialFiles DEF Shape, OpenUsers
<1>2. CASE WriteUser(s)
  <2> DEFINE a == User(target[s])
  <2>1. a \in Account
    BY NewLines DEF Shape
  <2>2. Append(file, <<a>>) \in WholeFile /\ Append(file, <<a>>) # Missing
    BY <2>1, AppendedFacts DEF Shape
  <2> HIDE DEF a
  <2>3. Appended(target[s]) = Append(file, <<a>>)
    BY DEF Appended, a
  <2>4. file' \in WholeFile /\ (file # Missing => file' # Missing) /\ server = "serving"
    BY <1>2, <2>2, <2>3 DEF WriteUser, Shape
  <2>5. QED
    BY <1>2, <2>4, NoOne DEF Shape, WriteUser
<1>3. CASE RemoveUsers(s)
  BY <1>3, SpecialFiles DEF Shape, RemoveUsers, Cut
<1>4. CASE RenameUsers(s)
  BY <1>4, SpecialFiles DEF Shape, RenameUsers, Cut
<1>5. CASE LoseUsers(s)
  BY <1>5, SpecialFiles DEF Shape, LoseUsers, Cut
<1>6. QED
  BY <1>1, <1>2, <1>3, <1>4, <1>5 DEF Continue

LEMMA ShapeNext == Shape /\ [Next]_vars => Shape'
<1> SUFFICES ASSUME Shape, [Next]_vars PROVE Shape'
  OBVIOUS
<1>1. CASE UNCHANGED vars
  BY <1>1 DEF Shape, vars, session, ghosts
<1>2. QED
  BY <1>1, ShapeServer, ShapeSession, ShapeFile DEF Next

LEMMA ShapeMeans == Shape => TypeOK /\ LinesWhole
<1> SUFFICES ASSUME Shape PROVE TypeOK /\ LinesWhole
  OBVIOUS
<1>1. WholeLine \subseteq Seq(Account)
  BY DEF WholeLine
<1>2. WholeFile \subseteq Seq(Seq(Account))
  BY <1>1, SeqMonotonic DEF WholeFile
<1>3. TypeOK
  BY <1>2 DEF Shape, TypeOK
<1>4. \A i \in DOMAIN file : file[i] \in WholeLine
  BY DEF Shape, WholeFile
<1>5. QED
  BY <1>3, <1>4 DEF LinesWhole, WholeLine

LEMMA ShapeAlways == Spec => []Shape
BY ShapeInit, ShapeNext, PTL DEF Spec

(***************************************************************************)
(* users.db is a sequence of lines of accounts, and so is every copy;      *)
(* every session is where its command puts it.                             *)
(***************************************************************************)
THEOREM TypeCorrect == Spec => []TypeOK
BY ShapeAlways, ShapeMeans, PTL

(***************************************************************************)
(* No two accounts get onto one line, in any order of appends, rewrites,   *)
(* stops and losses of the file.                                           *)
(***************************************************************************)
THEOREM LinesStayWhole == Spec => []LinesWhole
BY ShapeAlways, ShapeMeans, PTL

-----------------------------------------------------------------------------
(* One admin. *)

LEMMA AdminsFacts ==
  /\ \A f, a : a \in AccountsIn(f) /\ a.role = "admin" => a.name \in Admins(f)
  /\ \A f, n : n \in Admins(f) => \E a \in AccountsIn(f) : a.role = "admin" /\ a.name = n
BY DEF Admins

LEMMA FoundName ==
  ASSUME NEW f \in WholeFile, NEW n \in Admins(f)
  PROVE  Found(f, n)
<1>1. PICK a \in AccountsIn(f) : a.name = n
  BY DEF Admins
<1>2. PICK i \in DOMAIN f : f[i] # <<>> /\ Head(f[i]) = a
  BY <1>1 DEF AccountsIn, Range
<1>3. QED
  BY <1>1, <1>2 DEF Found, Begins

LEMMA AdminsOf ==
  /\ \A a \in Account : a.role = "admin" => Admins(<<<<a>>>>) = {a.name}
  /\ \A f \in WholeFile, a \in Account :
       a.role = "user" => Admins(Append(f, <<a>>)) = Admins(f)
  /\ \A f \in WholeFile, n \in Name :
       f # Missing => Admins(Dropped(f, n)) = Admins(f) \ {n}
<1>1. ASSUME NEW a \in Account, a.role = "admin" PROVE Admins(<<<<a>>>>) = {a.name}
  <2>1. AccountsIn(<<<<a>>>>) = {a}
    BY SpecialFiles
  <2>2. QED
    BY <1>1, <2>1 DEF Admins
<1>2. ASSUME NEW f \in WholeFile, NEW a \in Account, a.role = "user"
      PROVE  Admins(Append(f, <<a>>)) = Admins(f)
  <2>1. AccountsIn(Append(f, <<a>>)) = AccountsIn(f) \cup {a}
    BY AppendedFacts
  <2>2. QED
    BY <1>2, <2>1 DEF Admins
<1>3. ASSUME NEW f \in WholeFile, NEW n \in Name, f # Missing
      PROVE  Admins(Dropped(f, n)) = Admins(f) \ {n}
  BY <1>3, DroppedFacts DEF Admins
<1>4. QED
  BY <1>1, <1>2, <1>3

LEMMA OneAdminServer ==
  ASSUME Shape, OneAdmin, Start \/ Grant \/ Stop \/ (\E n \in Name : TypeAdmin(n))
  PROVE  OneAdmin'
<1>1. CASE Start
  BY <1>1 DEF OneAdmin, AdminIs, Start, session, ghosts
<1>2. CASE Grant
  BY <1>2 DEF OneAdmin, AdminIs, Grant, session, ghosts
<1>3. CASE Stop
  BY <1>3, NoOne DEF OneAdmin, AdminIs, Stop
<1>4. ASSUME NEW n \in Name, TypeAdmin(n) PROVE OneAdmin'
  <2> DEFINE a == [name |-> n, hash |-> NewHash(file, n), role |-> "admin"]
  <2>1. a \in Account /\ a.role = "admin" /\ a.name = n /\ file' = <<<<a>>>>
    BY <1>4, NewLines DEF TypeAdmin
  <2> HIDE DEF a
  <2>2. file' # Missing /\ Admins(file') = {n}
    BY <2>1, SpecialFiles, AdminsOf
  <2>3. \A s \in Session : pc'[s] = "off" /\ as'[s].role = "user"
    BY <1>4 DEF TypeAdmin, Shape, session
  <2>4. AdminIs(n)'
    BY <2>2, <2>3 DEF AdminIs
  <2>5. QED
    BY <2>4 DEF OneAdmin
<1>5. QED
  BY <1>1, <1>2, <1>3, <1>4

LEMMA OneAdminSession ==
  ASSUME Shape, OneAdmin, NEW s \in Session,
         End(s) \/ (\E n \in Name : Login(s, n) \/ CheckName(s, n) \/ CopyUsers(s, n))
  PROVE  OneAdmin'
<1>1. SUFFICES ASSUME ~hurt' PROVE \E n \in Name : AdminIs(n)'
  BY DEF OneAdmin
<1>2. ~hurt /\ server = "serving"
  BY <1>1 DEF Shape, End, Login, CheckName, CopyUsers, ghosts
<1>3. PICK n \in Name : AdminIs(n)
  BY <1>2 DEF OneAdmin
<1>4. SUFFICES AdminIs(n)'
  OBVIOUS
<1>5. CASE End(s)
  BY <1>1, <1>3, <1>5, NoOne DEF AdminIs, Shape, End
<1>6. ASSUME NEW m \in Name, Login(s, m) PROVE AdminIs(n)'
  <2> DEFINE a == [name |-> m, role |-> RoleOn(FirstLine(file, m))]
  <2>1. /\ file # Missing
        /\ \E b \in AccountsIn(file) : b.name = a.name /\ b.role = a.role
    BY <1>6, FirstLineFacts DEF Login, Shape
  <2>2. a.role = "admin" => a.name = n
    BY <1>3, <2>1, AdminsFacts DEF AdminIs
  <2>3. /\ as' = [as EXCEPT ![s] = a] /\ pc' = [pc EXCEPT ![s] = "in"]
        /\ UNCHANGED <<file, temp, target, raced>>
    BY <1>6 DEF Login, ghosts
  <2> HIDE DEF a
  <2>4. QED
    BY <1>3, <2>1, <2>2, <2>3 DEF AdminIs, Shape
<1>7. ASSUME NEW m \in Name, CheckName(s, m) PROVE AdminIs(n)'
  <2>1. raced' \/ n # m
    <3>1. CASE file = Missing
      BY <1>7, <3>1 DEF CheckName
    <3>2. CASE file # Missing
      <4>1. n \in Admins(file)
        BY <1>3, <3>2 DEF AdminIs
      <4>2. QED
        BY <1>7, <4>1, FoundName DEF CheckName, Shape
    <3>3. QED
      BY <3>1, <3>2
  <2>2. QED
    BY <1>3, <1>7, <2>1 DEF AdminIs, Shape, CheckName
<1>8. ASSUME NEW m \in Name, CopyUsers(s, m) PROVE AdminIs(n)'
  <2>1. file # Missing
    BY <1>8, FirstLineFacts DEF Shape, CopyUsers
  <2>2. m # n
    BY <1>3, <1>8 DEF AdminIs, CopyUsers, MayDelete
  <2>3. Admins(Dropped(file, m)) = {n}
    BY <1>3, <2>1, <2>2, AdminsOf DEF AdminIs, Shape
  <2>4. QED
    BY <1>3, <1>8, <2>1, <2>3 DEF AdminIs, Shape, CopyUsers, ghosts
<1>9. QED
  BY <1>5, <1>6, <1>7, <1>8

LEMMA OneAdminFile ==
  ASSUME Shape, OneAdmin, NEW s \in Session, Continue(s) \/ LoseUsers(s)
  PROVE  OneAdmin'
<1>1. SUFFICES ASSUME ~hurt' PROVE \E n \in Name : AdminIs(n)'
  BY DEF OneAdmin
<1>2. ~hurt /\ server = "serving" /\ ~LoseUsers(s)
  BY <1>1 DEF Shape, Continue, OpenUsers, WriteUser, RemoveUsers, RenameUsers, LoseUsers
<1>3. PICK n \in Name : AdminIs(n)
  BY <1>2 DEF OneAdmin
<1>4. SUFFICES AdminIs(n)'
  OBVIOUS
<1>5. CASE OpenUsers(s)
  BY <1>1, <1>3, <1>5 DEF AdminIs, Shape, OpenUsers
<1>6. CASE WriteUser(s)
  <2>1. pc[s] = "open" => file' # Missing /\ Admins(file') = {n}
    <3>1. SUFFICES ASSUME pc[s] = "open" PROVE file' # Missing /\ Admins(file') = {n}
      OBVIOUS
    <3> DEFINE a == User(target[s])
    <3>2. a \in Account /\ a.role = "user" /\ file \in WholeFile
      BY NewLines DEF Shape
    <3>3. file' = Append(file, <<a>>)
      BY <1>6, <3>1 DEF WriteUser, Appended
    <3> HIDE DEF a
    <3>4. Admins(file) = {n}
      BY <1>3, <3>1 DEF AdminIs, Shape
    <3>5. Admins(Append(file, <<a>>)) = Admins(file)
      BY <3>2, AdminsOf
    <3>6. Append(file, <<a>>) # Missing
      BY <3>2, AppendedFacts
    <3>7. QED
      BY <3>3, <3>4, <3>5, <3>6
  <2>2. QED
    BY <1>3, <1>6, <2>1 DEF AdminIs, Shape, WriteUser
<1>7. CASE RemoveUsers(s)
  BY <1>3, <1>7 DEF AdminIs, Shape, RemoveUsers, Cut
<1>8. CASE RenameUsers(s)
  BY <1>3, <1>8 DEF AdminIs, Shape, RenameUsers, Cut
<1>9. QED
  BY <1>2, <1>5, <1>6, <1>7, <1>8 DEF Continue

LEMMA OneAdminNext == Shape /\ OneAdmin /\ [Next]_vars => OneAdmin'
<1> SUFFICES ASSUME Shape, OneAdmin, [Next]_vars PROVE OneAdmin'
  OBVIOUS
<1>1. CASE UNCHANGED vars
  BY <1>1 DEF OneAdmin, AdminIs, vars, session, ghosts
<1>2. QED
  BY <1>1, OneAdminServer, OneAdminSession, OneAdminFile DEF Next

(***************************************************************************)
(* The same one admin everywhere, through every collision of creations and *)
(* deletions, death of a session and restart of the server: delete_user's  *)
(* guard on the caller's own account is enough, because nobody but the     *)
(* admin gets that far, and no other line has the role.                    *)
(***************************************************************************)
THEOREM AdminStays == Spec => []AdminKept
<1>1. Init => OneAdmin
  BY DEF Init, OneAdmin
<1>2. Shape /\ OneAdmin => AdminKept
  BY DEF OneAdmin, AdminIs, AdminKept
<1>3. QED
  BY <1>1, <1>2, ShapeAlways, OneAdminNext, PTL DEF Spec

-----------------------------------------------------------------------------
(* Rewrites. *)

LEMMA CopySoundNext == IInv /\ [Next]_vars => CopySound'
<1> SUFFICES ASSUME IInv, [Next]_vars, Sound' PROVE CopySound'
  BY DEF CopySound
<1> USE DEF IInv
<1>1. CASE UNCHANGED vars
  BY <1>1 DEF CopySound, Sound, AccountsIn, Admins, vars, session, ghosts
<1>2. CASE Start \/ Grant \/ Stop \/ (\E n \in Name : TypeAdmin(n))
  <2>1. \A s \in Session : pc'[s] = "off"
    BY <1>2 DEF Start, Grant, Stop, TypeAdmin, Shape, session
  <2>2. QED
    BY <2>1 DEF CopySound
<1>3. ASSUME NEW s \in Session,
             \/ End(s) \/ Continue(s) \/ LoseUsers(s)
             \/ \E n \in Name : Login(s, n) \/ CheckName(s, n) \/ CopyUsers(s, n)
      PROVE  CopySound'
  <2>1. Sound /\ ~LoseUsers(s)
    BY <1>3 DEF Sound, Shape, End, Continue, OpenUsers, WriteUser, RemoveUsers, RenameUsers,
                LoseUsers, Login, CheckName, CopyUsers, ghosts
  <2>2. CASE End(s)
    BY <2>1, <2>2 DEF CopySound, Sound, Shape, End, AccountsIn, Admins
  <2>3. ASSUME NEW n \in Name, Login(s, n) \/ CheckName(s, n) PROVE CopySound'
    <3>1. UNCHANGED <<file, temp>>
      BY <2>3 DEF Login, CheckName, ghosts
    <3>2. \A t \in Session, at \in {"copied", "removed"} : pc'[t] = at => pc[t] = at
      BY <2>3 DEF Login, CheckName, Shape
    <3>3. Admins(file)' = Admins(file) /\ \A t \in Session : AccountsIn(temp[t])' = AccountsIn(temp[t])
      BY <3>1 DEF Admins, AccountsIn
    <3>4. AccountsIn(file)' = AccountsIn(file)
      BY <3>1 DEF AccountsIn
    <3>5. QED
      BY <2>1, <3>1, <3>2, <3>3, <3>4 DEF CopySound
  <2>4. ASSUME NEW n \in Name, CopyUsers(s, n) PROVE CopySound'
    <3>1. file # Missing /\ file \in WholeFile
      BY <2>4, FirstLineFacts DEF Shape, CopyUsers
    <3>2. AccountsIn(Dropped(file, n)) = {a \in AccountsIn(file) : a.name # n}
      BY <3>1, DroppedFacts
    <3>3. n \notin Admins(file)
      <4>1. ~hurt /\ server = "serving"
        BY <2>1, <2>4 DEF Sound, Shape, CopyUsers
      <4>2. PICK m \in Name : AdminIs(m)
        BY <4>1 DEF OneAdmin
      <4>3. Admins(file) = {m} /\ as[s].name = m
        BY <2>4, <3>1, <4>2 DEF AdminIs, CopyUsers, MayDelete
      <4>4. QED
        BY <2>4, <4>3 DEF CopyUsers, MayDelete
    <3>4. QED
      BY <2>1, <2>4, <3>1, <3>2, <3>3 DEF CopySound, Shape, CopyUsers, AccountsIn, Admins
  <2>5. CASE OpenUsers(s)
    <3>1. file' = file
      BY <2>5 DEF OpenUsers, Sound
    <3>2. QED
      BY <2>1, <2>5, <3>1 DEF CopySound, Shape, OpenUsers, AccountsIn, Admins
  <2>6. CASE WriteUser(s)
    <3>1. \A t \in Session : pc'[t] \notin {"copied", "removed"}
      BY <2>6 DEF WriteUser, Sound, Other, Shape
    <3>2. QED
      BY <3>1 DEF CopySound
  <2>7. CASE RemoveUsers(s)
    <3>1. \A t \in Session : t # s => pc'[t] \notin {"copied", "removed"}
      BY <2>7 DEF RemoveUsers, Cut, Sound, Other, Shape
    <3>2. pc'[s] = "removed" /\ file' = Missing
      BY <2>7 DEF RemoveUsers, Cut
    <3>3. QED
      BY <3>1, <3>2 DEF CopySound
  <2>8. CASE RenameUsers(s)
    <3>1. \A t \in Session : t # s => pc[t] \notin {"copied", "removed"}
      BY <2>1, <2>8 DEF RenameUsers, Sound, Other, CopySound
    <3>2. \A t \in Session : pc'[t] \notin {"copied", "removed"}
      BY <2>8, <3>1 DEF RenameUsers, Cut, Shape
    <3>3. QED
      BY <3>2 DEF CopySound
  <2>9. QED
    BY <1>3, <2>1, <2>2, <2>3, <2>4, <2>5, <2>6, <2>7, <2>8 DEF Continue
<1>4. QED
  BY <1>1, <1>2, <1>3 DEF Next

LEMMA InvAlways == Spec => []IInv
<1>1. Init => IInv
  BY ShapeInit DEF IInv, Init, OneAdmin, CopySound
<1>2. IInv /\ [Next]_vars => IInv'
  BY ShapeNext, OneAdminNext, CopySoundNext DEF IInv
<1>3. QED
  BY <1>1, <1>2, PTL DEF Spec

-----------------------------------------------------------------------------
(* The accounts that the file, or the copy that is about to replace it,      *)
(* amounts to.                                                               *)

LEMMA NowInFile ==
  ASSUME \A s \in Session : pc[s] # "removed"
  PROVE  AccountsNow = AccountsIn(file)
BY DEF AccountsNow, Rewritten

LEMMA NowInCopy ==
  ASSUME CopySound, Sound, NEW s \in Session, pc[s] = "removed"
  PROVE  AccountsNow = AccountsIn(temp[s])
<1>1. Rewritten = {s}
  BY DEF Rewritten, CopySound
<1>2. QED
  BY <1>1 DEF AccountsNow

(* The name a create-user is about is not taken, as long as nobody else's is the same. *)
NameFree ==
  Sound => \A s \in Session : pc[s] \in {"checked", "open"} =>
             \A a \in AccountsNow : a.name # target[s]

(* While the file is sound, only these two steps change its accounts. *)
LEMMA NowWrite ==
  ASSUME IInv, NameFree, Sound, Sound', NEW s \in Session, WriteUser(s)
  PROVE  /\ pc[s] = "open" \/ AccountsNow' = AccountsNow
         /\ pc[s] = "open" =>
              /\ AccountsNow # {} /\ \A a \in AccountsNow : a.name # target[s]
              /\ AccountsNow' = AccountsNow \cup {User(target[s])}
<1> USE DEF IInv
<1>1. \A t \in Session : pc[t] # "removed" /\ pc'[t] # "removed"
  BY DEF WriteUser, Sound, Other, Shape
<1>2. AccountsNow = AccountsIn(file) /\ AccountsNow' = AccountsIn(file')
  BY <1>1, NowInFile DEF AccountsNow, Rewritten, AccountsIn
<1>3. CASE pc[s] = "stale"
  BY <1>2, <1>3 DEF WriteUser
<1>4. CASE pc[s] = "open"
  <2> DEFINE a == User(target[s])
  <2>1. a \in Account /\ file \in WholeFile /\ file # Missing
    BY <1>4, NewLines DEF Shape
  <2>2. AccountsIn(file') = AccountsIn(file) \cup {a}
    <3>1. file' = Append(file, <<a>>)
      BY <1>4 DEF WriteUser, Appended
    <3> HIDE DEF a
    <3>2. QED
      BY <2>1, <3>1, AppendedFacts
  <2>3. ~hurt /\ server = "serving"
    BY <1>4 DEF Sound, Shape
  <2>4. PICK n \in Name : AdminIs(n)
    BY <2>3 DEF OneAdmin
  <2>5. n \in Admins(file)
    BY <2>1, <2>4 DEF AdminIs
  <2>6. AccountsIn(file) # {}
    BY <2>5, AdminsFacts
  <2>7. QED
    BY <1>2, <1>4, <2>2, <2>6 DEF NameFree
<1>5. QED
  BY <1>3, <1>4 DEF WriteUser

LEMMA NowRemove ==
  ASSUME IInv, Sound, Sound', NEW s \in Session, RemoveUsers(s)
  PROVE  \E n \in Name : /\ \A a \in AccountsNow : a.name = n => a.role = "user"
                         /\ AccountsNow' = {a \in AccountsNow : a.name # n}
<1> USE DEF IInv
<1>1. \A t \in Session : pc[t] # "removed"
  BY DEF RemoveUsers, Sound, Other
<1>2. AccountsNow = AccountsIn(file)
  BY <1>1, NowInFile
<1>3. Rewritten' = {s} /\ temp' = temp
  BY <1>1 DEF RemoveUsers, Cut, Rewritten, Shape
<1>4. AccountsNow' = AccountsIn(temp[s])
  BY <1>3 DEF AccountsNow, AccountsIn
<1>5. PICK n \in Name \ Admins(file) :
        AccountsIn(temp[s]) = {a \in AccountsIn(file) : a.name # n}
  BY DEF RemoveUsers, CopySound
<1>6. \A a \in AccountsIn(file) : a.name = n => a.role = "user"
  <2>1. AccountsIn(file) \subseteq Account
    BY AccountsInType DEF Shape
  <2>2. QED
    BY <1>5, <2>1, AdminsFacts DEF Account, Role
<1>7. QED
  BY <1>2, <1>4, <1>5, <1>6

LEMMA NowSame ==
  ASSUME IInv, IInv', Sound, Sound',
         \/ Start \/ Grant \/ Stop
         \/ \E s \in Session :
              \/ End(s) \/ OpenUsers(s) \/ RenameUsers(s)
              \/ \E n \in Name : Login(s, n) \/ CheckName(s, n) \/ CopyUsers(s, n)
  PROVE  AccountsNow' = AccountsNow
<1> USE DEF IInv
<1>1. ASSUME file' = file, \A s \in Session : pc[s] # "removed" /\ pc'[s] # "removed"
      PROVE  AccountsNow' = AccountsNow
  BY <1>1 DEF AccountsNow, Rewritten, AccountsIn
<1>2. ASSUME file' = file, Rewritten' = Rewritten, \A s \in Rewritten : temp'[s] = temp[s]
      PROVE  AccountsNow' = AccountsNow
  BY <1>2 DEF AccountsNow, AccountsIn
<1>3. CASE Start
  <2>1. \A s \in Session : pc[s] # "removed" /\ pc'[s] # "removed"
    BY <1>3 DEF Start, Shape, session
  <2>2. AccountsIn(file') = AccountsIn(file)
    BY <1>3, SpecialFiles DEF Start
  <2>3. QED
    BY <2>1, <2>2 DEF AccountsNow, Rewritten, AccountsIn
<1>4. CASE Grant
  BY <1>1, <1>4 DEF Grant, Shape, session
<1>5. CASE Stop
  BY <1>1, <1>5 DEF Stop, Sound
<1>6. ASSUME NEW s \in Session,
             End(s) \/ \E n \in Name : Login(s, n) \/ CheckName(s, n) \/ CopyUsers(s, n)
      PROVE  AccountsNow' = AccountsNow
  <2>1. file' = file
    BY <1>6 DEF End, Login, CheckName, CopyUsers
  <2>2. Rewritten' = Rewritten
    <3>1. CASE End(s)
      BY <3>1 DEF End, Rewritten, Shape, Sound
    <3>2. ASSUME NEW n \in Name, Login(s, n) \/ CheckName(s, n) \/ CopyUsers(s, n)
          PROVE  Rewritten' = Rewritten
      <4>1. \E at \in {"in", "checked", "copied"} : pc' = [pc EXCEPT ![s] = at]
        BY <3>2 DEF Login, CheckName, CopyUsers
      <4>2. pc[s] # "removed"
        BY <3>2 DEF Login, CheckName, CopyUsers
      <4>3. QED
        BY <4>1, <4>2 DEF Rewritten, Shape
    <3>3. QED
      BY <1>6, <3>1, <3>2
  <2>3. \A t \in Rewritten : temp'[t] = temp[t]
    BY <1>6 DEF End, Login, CheckName, CopyUsers, Rewritten, Shape, Sound
  <2>4. QED
    BY <1>2, <2>1, <2>2, <2>3
<1>7. ASSUME NEW s \in Session, OpenUsers(s) PROVE AccountsNow' = AccountsNow
  <2>1. file' = file /\ temp' = temp
    BY <1>7 DEF OpenUsers, Sound
  <2>2. Rewritten' = Rewritten
    BY <1>7 DEF OpenUsers, Rewritten, Shape
  <2>3. QED
    BY <1>2, <2>1, <2>2
<1>8. ASSUME NEW s \in Session, RenameUsers(s) PROVE AccountsNow' = AccountsNow
  <2>1. AccountsNow = AccountsIn(temp[s])
    BY <1>8, NowInCopy DEF RenameUsers
  <2>2. \A t \in Session : pc'[t] # "removed"
    BY <1>8 DEF RenameUsers, Cut, Shape, CopySound
  <2>3. AccountsNow' = AccountsIn(file')
    BY <2>2 DEF AccountsNow, Rewritten, AccountsIn
  <2>4. QED
    BY <1>8, <2>1, <2>3 DEF RenameUsers
<1>9. QED
  BY <1>3, <1>4, <1>5, <1>6, <1>7, <1>8

LEMMA NameFreeNext == IInv /\ IInv' /\ NameFree /\ [Next]_vars => NameFree'
<1> SUFFICES ASSUME IInv, IInv', NameFree, [Next]_vars, Sound'
             PROVE  NameFree'
  BY DEF NameFree
<1>1. CASE UNCHANGED vars
  BY <1>1 DEF NameFree, Sound, AccountsNow, Rewritten, AccountsIn, vars, session, ghosts
<1>2. CASE Start \/ Grant \/ Stop \/ (\E n \in Name : TypeAdmin(n))
  <2>1. \A s \in Session : pc'[s] = "off"
    BY <1>2 DEF Start, Grant, Stop, TypeAdmin, IInv, Shape, session
  <2>2. QED
    BY <2>1 DEF NameFree
<1>3. ASSUME NEW s \in Session,
             \/ End(s) \/ Continue(s) \/ LoseUsers(s)
             \/ \E n \in Name : Login(s, n) \/ CheckName(s, n) \/ CopyUsers(s, n)
      PROVE  NameFree'
  <2>1. Sound /\ ~LoseUsers(s)
    BY <1>3 DEF Sound, IInv, Shape, End, Continue, OpenUsers, WriteUser, RemoveUsers,
                RenameUsers, LoseUsers, Login, CheckName, CopyUsers, ghosts
  <2>2. ASSUME NEW n \in Name, CheckName(s, n) PROVE NameFree'
    <3>1. file # Missing
      BY <2>2 DEF CheckName, Sound
    <3>2. \A t \in Session : pc[t] # "removed"
      BY <2>1, <3>1 DEF IInv, CopySound
    <3>3. AccountsNow = AccountsIn(file) /\ AccountsNow' = AccountsNow
      BY <2>1, <2>2, <3>2, NowInFile, NowSame
    <3>4. \A a \in AccountsIn(file) : a.name # n
      BY <2>2 DEF CheckName, Found, Begins, AccountsIn, Range
    <3>5. pc' = [pc EXCEPT ![s] = "checked"] /\ target' = [target EXCEPT ![s] = n]
      BY <2>2 DEF CheckName
    <3>6. QED
      BY <2>1, <3>3, <3>4, <3>5 DEF NameFree, IInv, Shape
  <2>3. CASE \/ End(s) \/ OpenUsers(s) \/ RenameUsers(s)
             \/ \E n \in Name : Login(s, n) \/ CopyUsers(s, n)
    <3>1. AccountsNow' = AccountsNow
      BY <2>1, <2>3, NowSame
    <3>2. \A t \in Session : pc'[t] \in {"checked", "open"} =>
            pc[t] \in {"checked", "open"} /\ target'[t] = target[t]
      <4>1. CASE End(s)
        BY <4>1 DEF End, IInv, Shape
      <4>2. CASE OpenUsers(s)
        BY <4>2 DEF OpenUsers, IInv, Shape
      <4>3. CASE RenameUsers(s)
        BY <4>3 DEF RenameUsers, Cut, IInv, Shape
      <4>4. ASSUME NEW n \in Name, Login(s, n) \/ CopyUsers(s, n)
            PROVE  \A t \in Session : pc'[t] \in {"checked", "open"} =>
                     pc[t] \in {"checked", "open"} /\ target'[t] = target[t]
        BY <4>4 DEF Login, CopyUsers, IInv, Shape
      <4>5. QED
        BY <2>3, <4>1, <4>2, <4>3, <4>4
    <3>3. QED
      BY <2>1, <3>1, <3>2 DEF NameFree
  <2>4. CASE WriteUser(s)
    <3>1. AccountsNow' \subseteq AccountsNow \cup {User(target[s])}
      BY <2>1, <2>4, NowWrite DEF WriteUser
    <3>2. ~SameName(s) /\ User(target[s]).name = target[s]
      BY <2>4, NewLines DEF WriteUser, Sound, IInv, Shape
    <3>3. \A t \in Session : pc'[t] \in {"checked", "open"} =>
            /\ t # s /\ pc[t] \in {"checked", "open"} /\ target'[t] = target[t]
            /\ target[t] # target[s]
      BY <2>4, <3>2 DEF WriteUser, SameName, IInv, Shape
    <3>4. QED
      BY <2>1, <3>1, <3>2, <3>3 DEF NameFree
  <2>5. CASE RemoveUsers(s)
    <3>1. AccountsNow' \subseteq AccountsNow
      BY <2>1, <2>5, NowRemove
    <3>2. \A t \in Session : pc'[t] \in {"checked", "open"} =>
            pc[t] \in {"checked", "open"} /\ target'[t] = target[t]
      BY <2>5 DEF RemoveUsers, Cut, IInv, Shape
    <3>3. QED
      BY <2>1, <3>1, <3>2 DEF NameFree
  <2>6. QED
    BY <1>3, <2>1, <2>2, <2>3, <2>4, <2>5 DEF Continue
<1>4. QED
  BY <1>1, <1>2, <1>3 DEF Next

LEMMA NamesAlways == Spec => []NameFree
<1>1. Init => NameFree
  BY DEF Init, NameFree
<1>2. QED
  BY <1>1, NameFreeNext, InvAlways, PTL DEF Spec

-----------------------------------------------------------------------------
(* The set of accounts. *)

Amounts == IF Sound THEN AccountsNow ELSE {}

LEMMA AbstractStep ==
  ASSUME IInv, IInv', NameFree, [Next]_vars
  PROVE  [Abstract!Next]_<<Amounts, Sound>>
<1>1. CASE UNCHANGED vars
  BY <1>1 DEF Amounts, Sound, AccountsNow, Rewritten, AccountsIn, vars, session, ghosts
<1>2. CASE ~Sound'
  BY <1>2 DEF Amounts, Abstract!Next, Abstract!Break
<1>3. ASSUME Sound', NEW n \in Name, TypeAdmin(n)
      PROVE  [Abstract!Next]_<<Amounts, Sound>>
  <2>1. \A s \in Session : pc[s] # "removed" /\ pc'[s] # "removed"
    BY <1>3 DEF TypeAdmin, IInv, Shape, session
  <2>2. AccountsNow = AccountsIn(file) /\ AccountsNow' = AccountsIn(file')
    BY <2>1, NowInFile DEF AccountsNow, Rewritten, AccountsIn
  <2>3. file = Blank
    BY <1>3 DEF TypeAdmin, IInv, Shape
  <2>4. Amounts = {}
    BY <2>2, <2>3, SpecialFiles DEF Amounts
  <2> DEFINE h == NewHash(file, n)
             a == [name |-> n, hash |-> h, role |-> "admin"]
  <2>5. a \in Account /\ h \in Hash /\ file' = <<<<a>>>>
    BY <1>3, NewLines DEF TypeAdmin
  <2> HIDE DEF h
  <2>6. AccountsIn(file') = {a}
    BY <2>5, SpecialFiles
  <2>7. Amounts' = {a}
    BY <1>3, <2>2, <2>6 DEF Amounts
  <2>8. Abstract!Bootstrap(n, h) /\ h \in Hash
    BY <1>3, <2>4, <2>5, <2>7 DEF Abstract!Bootstrap, Amounts
  <2>9. QED
    BY <2>8 DEF Abstract!Next
<1>4. ASSUME Sound, Sound',
             \/ Start \/ Grant \/ Stop
             \/ \E s \in Session :
                  \/ End(s) \/ OpenUsers(s) \/ RenameUsers(s)
                  \/ \E n \in Name : Login(s, n) \/ CheckName(s, n) \/ CopyUsers(s, n)
      PROVE  [Abstract!Next]_<<Amounts, Sound>>
  BY <1>4, NowSame DEF Amounts
<1>5. ASSUME Sound, Sound', NEW s \in Session, WriteUser(s)
      PROVE  [Abstract!Next]_<<Amounts, Sound>>
  <2>1. Amounts = AccountsNow /\ Amounts' = AccountsNow' /\ target[s] \in Name
    BY <1>5 DEF Amounts, IInv, Shape
  <2>2. CASE pc[s] # "open"
    BY <1>5, <2>1, <2>2, NowWrite
  <2>3. CASE pc[s] = "open"
    <3>1. User(target[s]) = [name |-> target[s], hash |-> NewHash(file, target[s]), role |-> "user"]
      BY DEF User
    <3>2. Abstract!Create(target[s], NewHash(file, target[s]))
      BY <1>5, <2>1, <2>3, <3>1, NowWrite DEF Abstract!Create, Amounts
    <3>3. NewHash(file, target[s]) \in Hash
      BY <2>1, NewLines
    <3>4. QED
      BY <2>1, <3>2, <3>3 DEF Abstract!Next
  <2>4. QED
    BY <2>2, <2>3
<1>6. ASSUME Sound, Sound', NEW s \in Session, RemoveUsers(s)
      PROVE  [Abstract!Next]_<<Amounts, Sound>>
  <2>1. Amounts = AccountsNow /\ Amounts' = AccountsNow'
    BY <1>6 DEF Amounts
  <2>2. PICK n \in Name : /\ \A a \in AccountsNow : a.name = n => a.role = "user"
                          /\ AccountsNow' = {a \in AccountsNow : a.name # n}
    BY <1>6, NowRemove
  <2>3. Abstract!Delete(n)
    BY <1>6, <2>1, <2>2 DEF Abstract!Delete, Amounts
  <2>4. QED
    BY <2>3 DEF Abstract!Next
<1>7. ASSUME ~Sound, Sound' PROVE UNCHANGED vars \/ \E n \in Name : TypeAdmin(n)
  BY <1>7 DEF Next, Start, Grant, Stop, End, Continue, OpenUsers, WriteUser, RemoveUsers,
              RenameUsers, LoseUsers, Login, CheckName, CopyUsers, Sound, IInv, Shape, vars, ghosts
<1>8. ASSUME Sound', NEW s \in Session, LoseUsers(s) PROVE FALSE
  BY <1>8 DEF LoseUsers, Sound
<1>9. QED
  BY <1>1, <1>2, <1>3, <1>4, <1>5, <1>6, <1>7, <1>8 DEF Next, Continue

(***************************************************************************)
(* users.db implements a set of accounts with one to a name: create-user   *)
(* and delete-user, three file operations each, change it in one of them,  *)
(* and nothing else does, as long as no rewrite collides with another      *)
(* command, no two sessions create one name at a time, and the file is not *)
(* lost.                                                                   *)
(***************************************************************************)
THEOREM ImplementsAccounts == Spec => AccountsSpec
<1>1. Init => Amounts = {} /\ Sound
  <2> SUFFICES ASSUME Init PROVE Amounts = {} /\ Sound
    OBVIOUS
  <2>1. AccountsNow = AccountsIn(Missing)
    BY NowInFile DEF Init
  <2>2. QED
    BY <2>1, SpecialFiles DEF Amounts, Sound, Init
<1>2. Init => Abstract!Init
  BY <1>1 DEF Abstract!Init, Amounts, Sound
<1>3. IInv /\ IInv' /\ NameFree /\ [Next]_vars => [Abstract!Next]_<<Amounts, Sound>>
  BY AbstractStep
<1>4. QED
  BY <1>2, <1>3, InvAlways, NamesAlways, PTL DEF Spec, AccountsSpec, Abstract!Spec, Amounts
=============================================================================
