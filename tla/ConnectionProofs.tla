---------------------------- MODULE ConnectionProofs ----------------------------
(***************************************************************************)
(* For any number of clients, scripts and reads: whatever the cuts of the  *)
(* stream are taken for, what was sent runs once, in its turn and whole.   *)
(***************************************************************************)
EXTENDS Connection, LinesProofs

Piece == (Nat \ {0}) \X (1 .. 3)

Entry == [of : Nat \ {0}, cmd : Command, whole : BOOLEAN]

LEMMA PiecesFacts ==
  ASSUME NEW i \in Nat \ {0}
  PROVE  /\ Pieces(i) \in Seq(Piece) /\ Len(Pieces(i)) = 3
         /\ Pieces(i)[1] = <<i, 1>> /\ Pieces(i)[2] = <<i, 2>> /\ Pieces(i)[3] = <<i, 3>>
         /\ Front(Pieces(i)) \in Seq(Piece) /\ Len(Front(Pieces(i))) = 2
         /\ Front(Pieces(i))[1] = <<i, 1>> /\ Front(Pieces(i))[2] = <<i, 2>>
<1>1. \A k \in 1 .. 3 : <<i, k>> \in Piece
  BY DEF Piece
<1>2. /\ Pieces(i) \in Seq(Piece) /\ Len(Pieces(i)) = 3
      /\ \A k \in 1 .. 3 : Pieces(i)[k] = <<i, k>>
  BY <1>1 DEF Pieces
<1>3. Front(Pieces(i)) = SubSeq(Pieces(i), 1, 2)
  BY <1>2 DEF Front
<1>4. QED
  BY <1>2, <1>3

-----------------------------------------------------------------------------
(* The types; the functions of the clients are total. *)
Typed ==
  /\ parent \in {"runs", "stopped"} /\ backlog \in Seq(Client)
  /\ fds \in 0 .. MaxFd /\ forked \in 0 .. MaxChild
  /\ client \in [Client -> {"new", "connected", "closed"}]
  /\ child \in [Client -> {"none", "serves", "ended", "unforked"}]
  /\ sent \in [Client -> Nat] /\ \A c \in Client : sent[c] <= Len(Script[c])
  /\ unread \in [Client -> Seq(Piece)]
  /\ buffer \in [Client -> Seq(Piece)] /\ \A c \in Client : Len(buffer[c]) <= MaxRead
  /\ loggedIn \in [Client -> BOOLEAN]
  /\ done \in [Client -> Seq(Entry)] /\ \A c \in Client : Range(done[c]) \subseteq Run(c)
  /\ answered \in [Client -> Nat]
  /\ cut \in [Client -> BOOLEAN] /\ ahead \in [Client -> BOOLEAN]

(* What is not read yet is the end of what was sent, piece by piece; it *)
(* begins with a command where no read has cut one.                     *)
Stream(c) ==
  /\ \A x \in 1 .. Len(unread[c]) :
       3 * unread[c][x][1] + unread[c][x][2] = 3 * sent[c] + 3 - (Len(unread[c]) - x)
  /\ ~cut[c] => \A x \in 1 .. Len(unread[c]) : x = 1 => unread[c][x][2] = 1

(* Of a command of which something ran, the beginning is read, and more than *)
(* its newline is left only where that was a part of it.                     *)
RunsFirst(c) ==
  \A r \in Range(done[c]) : \A x \in 1 .. Len(unread[c]) :
    \/ r.of < unread[c][x][1]
    \/ r.of = unread[c][x][1] /\ unread[c][x][2] # 1 /\ (r.whole => unread[c][x][2] = 3)

InOrder(c) ==
  \A j, k \in 1 .. Len(done[c]) :
    j < k => /\ done[c][j].of <= done[c][k].of
             /\ done[c][j].whole \/ done[c][k].whole => done[c][j].of # done[c][k].of

Gated(c) ==
  /\ loggedIn[c] => \E j \in 1 .. Len(done[c]) : done[c][j].cmd = "login"
  /\ \A k \in 1 .. Len(done[c]) :
       /\ done[c][k].whole \/ cut[c]
       /\ RequiresLogin(done[c][k].cmd) => \E j \in 1 .. k - 1 : done[c][j].cmd = "login"

LoginBefore(c, i) == \E j \in 1 .. i - 1 : Script[c][j] = "login"

Allowed(c, k) == {i \in 1 .. k : RequiresLogin(Script[c][i]) => LoginBefore(c, i)}

(* A client that waits, and none of whose commands was cut, has at most the *)
(* last one unread, and that whole; what its child knows is what it has     *)
(* answered.                                                                *)
InStep(c) ==
  ~ahead[c] /\ ~cut[c] =>
    /\ \/ answered[c] = sent[c] /\ Len(unread[c]) = 0
       \/ answered[c] + 1 = sent[c] /\ Len(unread[c]) = 3
    /\ loggedIn[c] <=> LoginBefore(c, answered[c] + 1)
    /\ {r.of : r \in Range(done[c])} = Allowed(c, answered[c])

OneClient(c) == Stream(c) /\ RunsFirst(c) /\ InOrder(c) /\ Gated(c) /\ InStep(c)

IInv == Typed /\ \A c \in Client : OneClient(c)

-----------------------------------------------------------------------------
(* A turn. *)

(* What it reads, and what is left to read. *)
LEMMA TurnReads ==
  ASSUME Typed, NEW c \in Client, NEW n \in 1 .. MaxRead, Turn(c, n)
  PROVE  /\ n \in 1 .. Len(unread[c]) /\ Len(unread[c]) \in Nat /\ unread[c] \in Seq(Piece)
         /\ buffer'[c] \in Seq(Piece) /\ Len(buffer'[c]) = n
         /\ \A x \in 1 .. n : buffer'[c][x] = unread[c][x]
         /\ unread'[c] \in Seq(Piece) /\ Len(unread'[c]) = Len(unread[c]) - n
         /\ \A x \in 1 .. Len(unread'[c]) :
              x + n \in 1 .. Len(unread[c]) /\ unread'[c][x] = unread[c][x + n]
         /\ cut'[c] <=> cut[c] \/ unread[c][n][2] # 3
<1> DEFINE u == unread[c]
<1>1. n \in Nat /\ 1 <= n /\ n <= Len(u) /\ u \in Seq(Piece) /\ Len(u) \in Nat
  BY BoundsAssumption DEF Typed, Turn
<1>2. buffer'[c] = SubSeq(u, 1, n) /\ unread'[c] = SubSeq(u, n + 1, Len(u))
  BY DEF Turn, Received, Typed
<1>3. cut'[c] <=> cut[c] \/ u[n][2] # 3
  BY DEF Turn, Typed
<1> HIDE DEF u
<1>4. \A x \in 1 .. Len(u) : u[x] \in Piece
  BY <1>1
<1>5. /\ SubSeq(u, 1, n) \in Seq(Piece) /\ Len(SubSeq(u, 1, n)) = n
      /\ \A x \in 1 .. n : SubSeq(u, 1, n)[x] = u[x]
  BY <1>1, <1>4
<1>6. /\ SubSeq(u, n + 1, Len(u)) \in Seq(Piece)
      /\ Len(SubSeq(u, n + 1, Len(u))) = Len(u) - n
      /\ \A x \in 1 .. Len(u) - n : SubSeq(u, n + 1, Len(u))[x] = u[x + n]
  BY <1>1, <1>4
<1>7. \A x \in 1 .. Len(u) - n : x + n \in 1 .. Len(u)
  BY <1>1
<1>8. QED
  BY <1>1, <1>2, <1>3, <1>5, <1>6, <1>7 DEF u

(* What a text is taken for begins with its first piece, or with the second *)
(* after a newline.                                                         *)
LEMMA WordsFacts ==
  ASSUME NEW t \in Seq(Piece), t # <<>>
  PROVE  LET w == Words(t)
             h == IF t[1][2] = 3 THEN 1 ELSE 0
         IN  /\ w \in Seq(Piece) /\ Len(w) = Len(t) - h /\ Len(t) \in Nat
             /\ \A x \in 1 .. Len(w) : x + h \in 1 .. Len(t) /\ w[x] = t[x + h]
<1>1. Len(t) \in Nat /\ Len(t) >= 1 /\ Head(t) = t[1]
  BY HeadTailProperties, EmptySeq
<1>2. CASE t[1][2] = 3
  <2>1. Words(t) = Tail(t)
    BY <1>1, <1>2 DEF Words
  <2>2. /\ Tail(t) \in Seq(Piece) /\ Len(Tail(t)) = Len(t) - 1
        /\ \A x \in 1 .. Len(Tail(t)) : Tail(t)[x] = t[x + 1]
    BY <1>1, HeadTailProperties
  <2>3. \A x \in 1 .. Len(t) - 1 : x + 1 \in 1 .. Len(t)
    BY <1>1
  <2>4. QED
    BY <1>1, <1>2, <2>1, <2>2, <2>3
<1>3. CASE t[1][2] # 3
  <2>1. Words(t) = t
    BY <1>1, <1>3 DEF Words
  <2>2. \A x \in 1 .. Len(t) : x + 0 = x
    BY <1>1
  <2>3. QED
    BY <1>1, <1>3, <2>1, <2>2
<1>4. QED
  BY <1>2, <1>3

(* What a run was read from. *)
LEMMA SpelledFacts ==
  ASSUME Typed, NEW c \in Client, NEW t \in Seq(Piece), t # <<>>,
         NEW r \in Run(c), Spells(c, t, r)
  PROVE  LET h == IF t[1][2] = 3 THEN 2 ELSE 1
         IN  /\ h \in 1 .. Len(t) /\ t[h][1] = r.of
             /\ r.whole => /\ t[h][2] = 1 /\ t[Len(t)][1] = r.of /\ t[Len(t)][2] \in {2, 3}
                           /\ r.cmd = Script[c][r.of]
             /\ ~r.whole => t[h][2] = 2 \/ (t[h][2] = 1 /\ h = Len(t))
<1> DEFINE w == Words(t)
           i == r.of
           g == IF t[1][2] = 3 THEN 1 ELSE 0
<1>1. i \in Nat \ {0} /\ r.whole \in BOOLEAN
  BY DEF Run, Typed
<1>2. /\ w \in Seq(Piece) /\ Len(w) = Len(t) - g /\ Len(t) \in Nat
      /\ \A x \in 1 .. Len(w) : x + g \in 1 .. Len(t) /\ w[x] = t[x + g]
  BY WordsFacts
<1>3. g \in {0, 1} /\ (t[1][2] = 3 <=> g = 1)
  OBVIOUS
<1> HIDE DEF w, g
<1>4. Len(t) = Len(w) + g /\ g \in Nat
  BY <1>2, <1>3
<1>5. CASE r.whole
  <2>1. w \in {Pieces(i), Front(Pieces(i))} /\ r.cmd = Script[c][i]
    BY <1>5 DEF Spells, w
  <2> HIDE DEF i
  <2>2. /\ Len(w) \in {2, 3} /\ w[1] = <<i, 1>>
        /\ w[Len(w)] = <<i, 2>> \/ w[Len(w)] = <<i, 3>>
    BY <1>1, <2>1, PiecesFacts
  <2>3. /\ 1 + g \in 1 .. Len(t) /\ t[1 + g] = <<i, 1>>
        /\ Len(w) + g = Len(t) /\ t[Len(t)] = w[Len(w)]
    BY <1>2, <1>3, <2>2
  <2>4. t[1 + g][1] = i /\ t[1 + g][2] = 1 /\ t[Len(t)][1] = i /\ t[Len(t)][2] \in {2, 3}
    BY <2>2, <2>3
  <2>5. QED
    BY <1>3, <1>5, <2>1, <2>3, <2>4 DEF i
<1>6. CASE ~r.whole
  <2>1. w = <<<<i, 1>>>> \/ (w # <<>> /\ Head(w) = <<i, 2>>)
    BY <1>6 DEF Spells, w
  <2> HIDE DEF i
  <2>2. CASE w = <<<<i, 1>>>>
    <3>1. Len(w) = 1
      BY <2>2
    <3>2. w[1] = <<i, 1>>
      BY <2>2
    <3>3. 1 + g \in 1 .. Len(t) /\ t[1 + g] = <<i, 1>>
      <4>1. 1 \in 1 .. Len(w)
        BY <3>1
      <4>2. QED
        BY <1>2, <3>2, <4>1
    <3>4. t[1 + g][1] = i /\ t[1 + g][2] = 1
      BY <3>3
    <3>5. QED
      <4>1. 1 + g = Len(t)
        BY <1>4, <3>1
      <4>2. QED
        BY <1>3, <1>6, <3>3, <3>4, <4>1 DEF i
  <2>3. CASE w # <<>> /\ Head(w) = <<i, 2>>
    <3>1. Len(w) \in Nat /\ Len(w) >= 1 /\ w[1] = <<i, 2>>
      BY <1>2, <2>3, EmptySeq, HeadTailProperties
    <3>2. 1 + g \in 1 .. Len(t) /\ t[1 + g] = <<i, 2>>
      BY <1>2, <1>3, <3>1
    <3>3. t[1 + g][1] = i /\ t[1 + g][2] = 2
      BY <3>2
    <3>4. QED
      BY <1>3, <1>6, <3>2, <3>3 DEF i
  <2>4. QED
    BY <2>1, <2>2, <2>3
<1>7. QED
  BY <1>1, <1>5, <1>6

LEMMA RunsAreEntries ==
  ASSUME Typed, NEW c \in Client
  PROVE  Run(c) \subseteq Entry
<1>1. 1 .. sent[c] \subseteq Nat \ {0}
  BY DEF Typed
<1>2. QED
  BY <1>1 DEF Run, Entry

(* A turn runs nothing, or one command more. *)
LEMMA TurnDoes ==
  ASSUME Typed, NEW c \in Client, NEW n \in 1 .. MaxRead, Turn(c, n)
  PROVE  \/ /\ done'[c] = done[c] /\ (loggedIn'[c] <=> loggedIn[c])
            /\ \A r \in Run(c) : Spells(c, buffer'[c], r) /\ r.whole => ~MayRun(c, r.cmd)
         \/ \E r \in Run(c) :
              /\ Spells(c, buffer'[c], r) /\ MayRun(c, r.cmd)
              /\ done'[c] = Append(done[c], r)
              /\ loggedIn[c] => loggedIn'[c]
              /\ loggedIn'[c] => loggedIn[c] \/ r.cmd = "login"
              /\ r.whole /\ r.cmd = "login" => loggedIn'[c]
<1>1. CASE RunsNothing(c, buffer'[c])
  BY <1>1 DEF RunsNothing
<1>2. ASSUME NEW r \in Run(c), Spells(c, buffer'[c], r), Runs(c, r)
      PROVE  /\ Spells(c, buffer'[c], r) /\ MayRun(c, r.cmd)
             /\ done'[c] = Append(done[c], r)
             /\ loggedIn[c] => loggedIn'[c]
             /\ loggedIn'[c] => loggedIn[c] \/ r.cmd = "login"
             /\ r.whole /\ r.cmd = "login" => loggedIn'[c]
  <2>1. done'[c] = Append(done[c], r) /\ MayRun(c, r.cmd)
    BY <1>2 DEF Runs, Typed
  <2>2. PICK ok \in BOOLEAN :
          (r.whole => ok) /\ loggedIn' = [loggedIn EXCEPT ![c] = @ \/ (r.cmd = "login" /\ ok)]
    BY <1>2 DEF Runs
  <2>3. loggedIn'[c] = (loggedIn[c] \/ (r.cmd = "login" /\ ok))
    BY <2>2 DEF Typed
  <2>4. QED
    BY <1>2, <2>1, <2>2, <2>3
<1>3. QED
  BY <1>1, <1>2 DEF Turn

-----------------------------------------------------------------------------
(* Types. *)

LEMMA TypedInit == Init => Typed
BY BoundsAssumption, ScriptAssumption DEF Init, Typed, Range

LEMMA TypedParent ==
  ASSUME Typed, Accept \/ Stop \/ \E c \in Client : Connect(c) \/ Close(c)
  PROVE  Typed'
<1>1. CASE Accept
  <2>1. Head(backlog) \in Client /\ Tail(backlog) \in Seq(Client)
    BY <1>1, HeadTailProperties DEF Typed, Accept, MayAccept
  <2>2. /\ child' \in [Client -> {"none", "serves", "ended", "unforked"}]
        /\ forked' \in 0 .. MaxChild
    <3>1. CASE forked < MaxChild
      <4>1. child' = [child EXCEPT ![Head(backlog)] = "serves"] /\ forked' = forked + 1
        BY <1>1, <3>1 DEF Accept
      <4>2. QED
        BY <2>1, <3>1, <4>1, BoundsAssumption DEF Typed
    <3>2. CASE ~(forked < MaxChild)
      <4>1. child' = [child EXCEPT ![Head(backlog)] = "unforked"] /\ forked' = forked
        BY <1>1, <3>2 DEF Accept
      <4>2. QED
        BY <2>1, <4>1 DEF Typed
    <3>3. QED
      BY <3>1, <3>2
  <2>3. fds' \in 0 .. MaxFd
    BY <1>1, BoundsAssumption DEF Typed, Accept, MayAccept
  <2>4. /\ backlog' \in Seq(Client)
        /\ UNCHANGED <<parent, client, sent, ahead, unread, buffer, loggedIn, history>>
    BY <1>1, <2>1 DEF Accept
  <2>5. QED
    BY <2>2, <2>3, <2>4 DEF Typed, history, Run
<1>2. CASE Stop
  BY <1>2 DEF Typed, Stop, perChild, history, Run
<1>3. ASSUME NEW c \in Client, Connect(c) PROVE Typed'
  <2>1. Append(backlog, c) \in Seq(Client)
    BY DEF Typed
  <2>2. QED
    BY <1>3, <2>1 DEF Typed, Connect, perChild, history, Run
<1>4. ASSUME NEW c \in Client, Close(c) PROVE Typed'
  BY <1>4 DEF Typed, Close, perParent, perChild, history, Run
<1>5. QED
  BY <1>1, <1>2, <1>3, <1>4

LEMMA TypedSend ==
  ASSUME Typed, NEW c \in Client, Send(c)
  PROVE  Typed'
<1>1. sent[c] + 1 \in Nat \ {0} /\ sent[c] + 1 <= Len(Script[c])
  BY ScriptAssumption DEF Typed, Send
<1>2. unread[c] \o Pieces(sent[c] + 1) \in Seq(Piece)
  BY <1>1, PiecesFacts, ConcatProperties DEF Typed
<1>3. unread' \in [Client -> Seq(Piece)]
  BY <1>2 DEF Typed, Send
<1>4. sent' \in [Client -> Nat] /\ \A d \in Client : sent[d] <= sent'[d] /\ sent'[d] <= Len(Script[d])
  BY <1>1 DEF Typed, Send
<1>5. \A d \in Client : Run(d) \subseteq Run(d)'
  <2> SUFFICES ASSUME NEW d \in Client PROVE 1 .. sent[d] \subseteq 1 .. sent'[d]
    BY DEF Run
  <2>1. QED
    BY <1>4 DEF Typed
<1>6. \A d \in Client : Range(done[d]) \subseteq Run(d)'
  BY <1>5 DEF Typed
<1>7. ahead' \in [Client -> BOOLEAN]
  BY DEF Typed, Send
<1>8. UNCHANGED <<perParent, client, child, buffer, loggedIn, history>>
  BY DEF Send
<1>9. QED
  BY <1>3, <1>4, <1>6, <1>7, <1>8 DEF Typed, perParent, history

LEMMA TypedServe ==
  ASSUME Typed, NEW c \in Client, Serve(c) \/ Die(c)
  PROVE  Typed'
<1>1. CASE Hangup(c) \/ Die(c)
  BY <1>1 DEF Typed, Hangup, Die, perParent, history, Run
<1>2. ASSUME NEW n \in 1 .. MaxRead, Turn(c, n) PROVE Typed'
  <2>1. unread'[c] \in Seq(Piece) /\ buffer'[c] \in Seq(Piece) /\ Len(buffer'[c]) <= MaxRead
    BY <1>2, TurnReads, BoundsAssumption
  <2>2. unread' \in [Client -> Seq(Piece)] /\ buffer' \in [Client -> Seq(Piece)]
    BY <1>2, <2>1 DEF Typed, Turn
  <2>3. \A d \in Client : Len(buffer'[d]) <= MaxRead
    BY <1>2, <2>1 DEF Typed, Turn
  <2>4. done'[c] \in Seq(Entry) /\ Range(done'[c]) \subseteq Run(c)
    <3>1. CASE done'[c] = done[c]
      BY <3>1 DEF Typed
    <3>2. CASE done'[c] # done[c]
      <4>1. PICK r \in Run(c) : done'[c] = Append(done[c], r)
        BY <1>2, <3>2, TurnDoes
      <4>2. r \in Entry
        BY RunsAreEntries
      <4>3. done[c] \in Seq(Entry) /\ Range(done[c]) \subseteq Run(c)
        BY DEF Typed
      <4>4. Append(done[c], r) \in Seq(Entry)
        BY <4>2, <4>3
      <4>5. Range(Append(done[c], r)) = Range(done[c]) \cup {r}
        BY <4>2, <4>3, RangeAppend
      <4>6. QED
        BY <4>1, <4>3, <4>4, <4>5
    <3>3. QED
      BY <3>1, <3>2
  <2>5. \A d \in Client : d # c => done'[d] = done[d]
    BY <1>2 DEF Typed, Turn, Runs, RunsNothing
  <2>6. done' = [done EXCEPT ![c] = done'[c]]
    BY <1>2 DEF Typed, Turn, Runs, RunsNothing
  <2>7. done' \in [Client -> Seq(Entry)] /\ \A d \in Client : Range(done'[d]) \subseteq Run(d)
    BY <2>4, <2>5, <2>6 DEF Typed
  <2>8. loggedIn' \in [Client -> BOOLEAN]
    BY <1>2 DEF Typed, Turn, Runs, RunsNothing
  <2>9. cut' \in [Client -> BOOLEAN]
    BY <1>2 DEF Typed, Turn
  <2>10. child' \in [Client -> {"none", "serves", "ended", "unforked"}]
    <3>1. CASE RunsNothing(c, buffer'[c])
      BY <3>1 DEF Typed, RunsNothing
    <3>2. ASSUME NEW r \in Run(c), Runs(c, r)
          PROVE  child' \in [Client -> {"none", "serves", "ended", "unforked"}]
      <4>1. (IF r.cmd = "logout" THEN "ended" ELSE child[c]) \in {"none", "serves", "ended", "unforked"}
        BY DEF Typed
      <4>2. child' = [child EXCEPT ![c] = IF r.cmd = "logout" THEN "ended" ELSE child[c]]
        BY <3>2 DEF Runs, Typed
      <4>3. QED
        BY <4>1, <4>2 DEF Typed
    <3>3. QED
      BY <1>2, <3>1, <3>2 DEF Turn
  <2>11. answered' \in [Client -> Nat]
    BY <1>2 DEF Typed, Turn
  <2>12. UNCHANGED <<perParent, client, sent, ahead>>
    BY <1>2 DEF Turn
  <2>13. QED
    BY <2>2, <2>3, <2>7, <2>8, <2>9, <2>10, <2>11, <2>12 DEF Typed, perParent, Run
<1>3. QED
  BY <1>1, <1>2 DEF Serve

LEMMA TypedNext == Typed /\ [Next]_vars => Typed'
<1> SUFFICES ASSUME Typed, [Next]_vars PROVE Typed'
  OBVIOUS
<1>1. CASE UNCHANGED vars
  BY <1>1 DEF Typed, vars, perParent, perChild, history, Run
<1>2. QED
  BY <1>1, TypedParent, TypedSend, TypedServe DEF Next

(***************************************************************************)
(* Nothing is run that was not sent, the parent stays within its bounds,   *)
(* and what a child's buffer holds is never more than one read.            *)
(***************************************************************************)
THEOREM TypeCorrect == Spec => []TypeOK
<1>1. Typed => TypeOK
  BY DEF Typed, TypeOK
<1>2. QED
  BY <1>1, TypedInit, TypedNext, PTL DEF Spec

-----------------------------------------------------------------------------
(* One client's steps. *)

ofClient(c) == <<sent[c], unread[c], done[c], answered[c], cut[c], ahead[c], loggedIn[c]>>

LEMMA Unaffected ==
  ASSUME NEW c \in Client, ofClient(c)' = ofClient(c), OneClient(c)
  PROVE  OneClient(c)'
<1>1. /\ sent'[c] = sent[c] /\ unread'[c] = unread[c] /\ done'[c] = done[c]
      /\ answered'[c] = answered[c] /\ cut'[c] = cut[c] /\ ahead'[c] = ahead[c]
      /\ loggedIn'[c] = loggedIn[c]
  BY DEF ofClient
<1>2. Stream(c)'
  BY <1>1 DEF OneClient, Stream
<1>3. RunsFirst(c)'
  BY <1>1 DEF OneClient, RunsFirst
<1>4. InOrder(c)'
  BY <1>1 DEF OneClient, InOrder
<1>5. Gated(c)'
  BY <1>1 DEF OneClient, Gated
<1>6. InStep(c)'
  BY <1>1 DEF OneClient, InStep, LoginBefore, Allowed
<1>7. QED
  BY <1>2, <1>3, <1>4, <1>5, <1>6 DEF OneClient

(* Every step but these two of its own leaves a client as it is. *)
LEMMA OwnSteps ==
  ASSUME Typed, [Next]_vars, NEW c \in Client
  PROVE  \/ ofClient(c)' = ofClient(c)
         \/ Send(c) \/ \E n \in 1 .. MaxRead : Turn(c, n)
<1>1. CASE UNCHANGED vars
  BY <1>1 DEF ofClient, vars, perChild, history
<1>2. CASE Accept \/ Stop
  BY <1>2 DEF ofClient, Accept, Stop, perChild, history
<1>3. ASSUME NEW d \in Client, Connect(d) \/ Close(d) \/ Hangup(d) \/ Die(d)
      PROVE  ofClient(c)' = ofClient(c)
  BY <1>3 DEF ofClient, Connect, Close, Hangup, Die, perChild, history
<1>4. ASSUME NEW d \in Client, d # c, Send(d) PROVE ofClient(c)' = ofClient(c)
  BY <1>4 DEF ofClient, Send, Typed, history
<1>5. ASSUME NEW d \in Client, d # c, NEW n \in 1 .. MaxRead, Turn(d, n)
      PROVE  ofClient(c)' = ofClient(c)
  <2>1. UNCHANGED <<sent, ahead>> /\ unread'[c] = unread[c] /\ answered'[c] = answered[c] /\ cut'[c] = cut[c]
    BY <1>5 DEF Turn, Typed
  <2>2. done'[c] = done[c] /\ loggedIn'[c] = loggedIn[c]
    BY <1>5 DEF Turn, Runs, RunsNothing, Typed
  <2>3. QED
    BY <2>1, <2>2 DEF ofClient
<1>6. QED
  BY <1>1, <1>2, <1>3, <1>4, <1>5 DEF Next, Serve

LEMMA SendAppends ==
  ASSUME Typed, NEW c \in Client, Send(c)
  PROVE  LET u == unread[c]
             v == unread'[c]
         IN  /\ sent[c] \in Nat /\ sent'[c] = sent[c] + 1
             /\ Len(u) \in Nat /\ Len(v) = Len(u) + 3
             /\ \A x \in 1 .. Len(u) : u[x] \in Piece /\ v[x] = u[x]
             /\ \A x \in Len(u) + 1 .. Len(v) :
                  v[x][1] = sent[c] + 1 /\ v[x][2] = x - Len(u)
             /\ UNCHANGED <<done, answered, cut, loggedIn>>
<1> DEFINE i == sent[c] + 1
           u == unread[c]
           p == Pieces(i)
<1>1. /\ i \in Nat \ {0} /\ sent[c] \in Nat /\ sent'[c] = i /\ unread'[c] = u \o p
      /\ u \in Seq(Piece) /\ UNCHANGED <<done, answered, cut, loggedIn>>
  BY DEF Typed, Send, history
<1> HIDE DEF i, u, p
<1>2. /\ p \in Seq(Piece) /\ Len(p) = 3
      /\ p[1] = <<i, 1>> /\ p[2] = <<i, 2>> /\ p[3] = <<i, 3>>
  BY <1>1, PiecesFacts DEF p
<1>3. \A k \in 1 .. 3 : p[k][1] = i /\ p[k][2] = k
  BY <1>2
<1>4. /\ Len(u \o p) = Len(u) + 3 /\ Len(u) \in Nat
      /\ \A x \in 1 .. Len(u) : u[x] \in Piece /\ (u \o p)[x] = u[x]
      /\ \A x \in Len(u) + 1 .. Len(u) + 3 : (u \o p)[x] = p[x - Len(u)] /\ x - Len(u) \in 1 .. 3
  <2>1. /\ u \in Seq(Piece) /\ p \in Seq(Piece) /\ Len(p) = 3 /\ Len(u) \in Nat
    BY <1>1, <1>2
  <2>2. /\ Len(u \o p) = Len(u) + 3
        /\ \A x \in 1 .. Len(u) + 3 : (u \o p)[x] = IF x <= Len(u) THEN u[x] ELSE p[x - Len(u)]
    <3>1. /\ Len(u \o p) = Len(u) + Len(p)
          /\ \A x \in 1 .. Len(u) + Len(p) :
               (u \o p)[x] = IF x <= Len(u) THEN u[x] ELSE p[x - Len(u)]
      BY <2>1, ConcatProperties, Zenon
    <3>2. QED
      BY <2>1, <3>1
  <2>3. \A x \in 1 .. Len(u) : u[x] \in Piece
    BY <2>1
  <2>4. \A x \in 1 .. Len(u) : x \in 1 .. Len(u) + 3 /\ x <= Len(u)
    BY <2>1
  <2>5. \A x \in Len(u) + 1 .. Len(u) + 3 :
          x \in 1 .. Len(u) + 3 /\ ~(x <= Len(u)) /\ x - Len(u) \in 1 .. 3
    BY <2>1
  <2>6. QED
    BY <2>1, <2>2, <2>3, <2>4, <2>5
<1>5. \A x \in Len(u) + 1 .. Len(u) + 3 : (u \o p)[x][1] = i /\ (u \o p)[x][2] = x - Len(u)
  BY <1>3, <1>4
<1>6. QED
  BY <1>1, <1>4, <1>5 DEF i, u

LEMMA SendKeeps ==
  ASSUME Typed, NEW c \in Client, OneClient(c), Send(c)
  PROVE  OneClient(c)'
<1> DEFINE u == unread[c]
           v == unread'[c]
           s == sent[c]
<1>1. /\ s \in Nat /\ sent'[c] = s + 1 /\ Len(u) \in Nat /\ Len(v) = Len(u) + 3
      /\ \A x \in 1 .. Len(u) : u[x] \in Piece /\ v[x] = u[x]
      /\ \A x \in Len(u) + 1 .. Len(v) : v[x][1] = s + 1 /\ v[x][2] = x - Len(u)
      /\ UNCHANGED <<done, answered, cut, loggedIn>>
  BY SendAppends, Zenon
<1>2. /\ \A x \in 1 .. Len(u) : 3 * u[x][1] + u[x][2] = 3 * s + 3 - (Len(u) - x)
      /\ ~cut[c] => \A x \in 1 .. Len(u) : x = 1 => u[x][2] = 1
      /\ \A r \in Range(done[c]) : \A x \in 1 .. Len(u) :
           \/ r.of < u[x][1]
           \/ r.of = u[x][1] /\ u[x][2] # 1 /\ (r.whole => u[x][2] = 3)
  BY DEF OneClient, Stream, RunsFirst
<1>3. \A r \in Range(done[c]) : r.of \in Nat /\ r.of <= s
  BY DEF Typed, Run
<1> HIDE DEF u, v, s
<1>4. ASSUME NEW x \in 1 .. Len(v)
      PROVE  x \in 1 .. Len(u) \/ x \in Len(u) + 1 .. Len(v)
  BY <1>1
<1>5. Stream(c)'
  <2>1. ASSUME NEW x \in 1 .. Len(v)
        PROVE  3 * v[x][1] + v[x][2] = 3 * (s + 1) + 3 - (Len(v) - x)
    <3>1. CASE x \in 1 .. Len(u)
      <4>1. u[x][1] \in Nat /\ u[x][2] \in Nat /\ v[x] = u[x]
        BY <1>1, <3>1 DEF Piece
      <4>2. 3 * u[x][1] + u[x][2] = 3 * s + 3 - (Len(u) - x)
        BY <1>2, <3>1
      <4>3. s \in Nat /\ Len(u) \in Nat /\ Len(v) = Len(u) + 3
        BY <1>1
      <4>4. QED
        BY <4>1, <4>2, <4>3
    <3>2. CASE x \in Len(u) + 1 .. Len(v)
      <4>1. v[x][1] = s + 1 /\ v[x][2] = x - Len(u)
        BY <1>1, <3>2
      <4>2. s \in Nat /\ Len(u) \in Nat /\ Len(v) = Len(u) + 3
        BY <1>1
      <4>3. QED
        BY <4>1, <4>2
    <3>3. QED
      BY <1>4, <3>1, <3>2
  <2>2. ASSUME ~cut[c], NEW x \in 1 .. Len(v), x = 1 PROVE v[x][2] = 1
    <3>1. CASE x \in 1 .. Len(u)
      BY <1>1, <1>2, <2>2, <3>1
    <3>2. CASE x \in Len(u) + 1 .. Len(v)
      <4>1. Len(u) = 0
        BY <1>1, <2>2, <3>2
      <4>2. QED
        BY <1>1, <2>2, <3>2, <4>1
    <3>3. QED
      BY <1>4, <3>1, <3>2
  <2>3. QED
    BY <1>1, <2>1, <2>2 DEF Stream, v, s
<1>6. RunsFirst(c)'
  <2>1. ASSUME NEW r \in Range(done[c]), NEW x \in 1 .. Len(v)
        PROVE  \/ r.of < v[x][1]
               \/ r.of = v[x][1] /\ v[x][2] # 1 /\ (r.whole => v[x][2] = 3)
    <3>1. CASE x \in 1 .. Len(u)
      BY <1>1, <1>2, <3>1
    <3>2. CASE x \in Len(u) + 1 .. Len(v)
      BY <1>1, <1>3, <3>2
    <3>3. QED
      BY <1>4, <3>1, <3>2
  <2>2. QED
    BY <1>1, <2>1 DEF RunsFirst, v
<1>7. InOrder(c)' /\ Gated(c)'
  BY <1>1 DEF OneClient, InOrder, Gated
<1>8. InStep(c)'
  <2>1. SUFFICES ASSUME ~ahead'[c], ~cut'[c]
                 PROVE  /\ answered[c] + 1 = s + 1 /\ Len(v) = 3
                        /\ loggedIn[c] <=> LoginBefore(c, answered[c] + 1)
                        /\ {r.of : r \in Range(done[c])} = Allowed(c, answered[c])
    BY <1>1 DEF InStep, LoginBefore, Allowed, s, v
  <2>2. ~ahead[c] /\ ~(answered[c] < s)
    BY <2>1 DEF Send, Typed, s
  <2>3. /\ \/ answered[c] = s /\ Len(u) = 0
           \/ answered[c] + 1 = s /\ Len(u) = 3
        /\ loggedIn[c] <=> LoginBefore(c, answered[c] + 1)
        /\ {r.of : r \in Range(done[c])} = Allowed(c, answered[c])
    BY <1>1, <2>1, <2>2 DEF OneClient, InStep, s, u
  <2>4. answered[c] \in Nat
    BY DEF Typed
  <2>5. answered[c] = s /\ Len(u) = 0
    BY <1>1, <2>2, <2>3, <2>4
  <2>6. QED
    BY <1>1, <2>3, <2>5
<1>9. QED
  BY <1>5, <1>6, <1>7, <1>8 DEF OneClient

(* What a turn runs, by what was unread. *)
LEMMA TurnSpells ==
  ASSUME Typed, NEW c \in Client, NEW n \in 1 .. MaxRead, Turn(c, n),
         NEW r \in Run(c), Spells(c, buffer'[c], r)
  PROVE  LET u == unread[c]
             h == IF u[1][2] = 3 THEN 2 ELSE 1
         IN  /\ h \in 1 .. n /\ u[h][1] = r.of
             /\ r.whole => /\ u[h][2] = 1 /\ u[n][1] = r.of /\ u[n][2] \in {2, 3}
                           /\ r.cmd = Script[c][r.of]
             /\ ~r.whole => u[h][2] = 2 \/ (u[h][2] = 1 /\ h = n)
<1> DEFINE t == buffer'[c]
           u == unread[c]
           h == IF t[1][2] = 3 THEN 2 ELSE 1
<1>1. /\ t \in Seq(Piece) /\ Len(t) = n /\ n \in Nat /\ n >= 1
      /\ \A x \in 1 .. n : t[x] = u[x]
  BY TurnReads, BoundsAssumption
<1>2. t # <<>>
  BY <1>1, EmptySeq
<1>3. /\ h \in 1 .. Len(t) /\ t[h][1] = r.of
      /\ r.whole => /\ t[h][2] = 1 /\ t[Len(t)][1] = r.of /\ t[Len(t)][2] \in {2, 3}
                    /\ r.cmd = Script[c][r.of]
      /\ ~r.whole => t[h][2] = 2 \/ (t[h][2] = 1 /\ h = Len(t))
  BY <1>1, <1>2, SpelledFacts
<1>4. t[1] = u[1] /\ t[h] = u[h] /\ t[n] = u[n]
  <2>1. h \in 1 .. n /\ 1 \in 1 .. n /\ n \in 1 .. n
    BY <1>1, <1>3
  <2> HIDE DEF t, u, h
  <2>2. QED
    BY <1>1, <2>1
<1>5. h = IF u[1][2] = 3 THEN 2 ELSE 1
  BY <1>4
<1> HIDE DEF t, h
<1>6. QED
  BY <1>1, <1>3, <1>4, <1>5

LEMMA TurnStream ==
  ASSUME Typed, NEW c \in Client, Stream(c), NEW n \in 1 .. MaxRead, Turn(c, n)
  PROVE  Stream(c)'
<1> DEFINE u == unread[c]
           v == unread'[c]
           s == sent[c]
<1>1. /\ n \in 1 .. Len(u) /\ Len(u) \in Nat /\ Len(v) = Len(u) - n /\ u \in Seq(Piece)
      /\ \A x \in 1 .. Len(v) : x + n \in 1 .. Len(u) /\ v[x] = u[x + n]
      /\ cut'[c] <=> cut[c] \/ u[n][2] # 3
      /\ sent'[c] = s /\ s \in Nat
  BY TurnReads DEF Turn, Typed
<1>2. \A x \in 1 .. Len(u) : 3 * u[x][1] + u[x][2] = 3 * s + 3 - (Len(u) - x)
  BY DEF Stream
<1>3. \A x \in 1 .. Len(u) : u[x][1] \in Nat /\ u[x][2] \in 1 .. 3
  BY <1>1 DEF Piece
<1> HIDE DEF u, v, s
<1>4. ASSUME NEW x \in 1 .. Len(v)
      PROVE  3 * v[x][1] + v[x][2] = 3 * s + 3 - (Len(v) - x)
  <2>1. x + n \in 1 .. Len(u) /\ v[x] = u[x + n]
    BY <1>1
  <2>2. 3 * u[x + n][1] + u[x + n][2] = 3 * s + 3 - (Len(u) - (x + n))
    BY <1>2, <2>1
  <2>3. Len(u) - (x + n) = Len(v) - x
    BY <1>1
  <2>4. QED
    BY <2>1, <2>2, <2>3
<1>5. ASSUME ~cut'[c], NEW x \in 1 .. Len(v), x = 1 PROVE v[x][2] = 1
  <2>1. u[n][2] = 3 /\ n \in 1 .. Len(u) /\ n \in Nat
    BY <1>1, <1>5
  <2>2. 1 + n \in 1 .. Len(u) /\ v[x] = u[1 + n]
    BY <1>1, <1>5
  <2>3. /\ 3 * u[n][1] + u[n][2] = 3 * s + 3 - (Len(u) - n)
        /\ 3 * u[1 + n][1] + u[1 + n][2] = 3 * s + 3 - (Len(u) - (1 + n))
    BY <1>2, <2>1, <2>2
  <2>4. /\ u[n][1] \in Nat /\ u[1 + n][1] \in Nat /\ u[1 + n][2] \in 1 .. 3
        /\ s \in Nat /\ Len(u) \in Nat
    BY <1>1, <1>3, <2>1, <2>2
  <2> DEFINE a == u[n][1]
             d == u[1 + n][1]
             e == u[1 + n][2]
  <2> HIDE DEF a, d, e
  <2>5. 3 * a + 3 = 3 * s + 3 - (Len(u) - n) /\ 3 * d + e = 3 * s + 3 - (Len(u) - (1 + n))
    BY <2>1, <2>3 DEF a, d, e
  <2>6. a \in Nat /\ d \in Nat /\ e \in 1 .. 3 /\ s \in Nat /\ Len(u) \in Nat
    BY <2>4 DEF a, d, e
  <2>7. 3 * d + e = 3 * a + 4
    BY <2>1, <2>5, <2>6
  <2>8. e = 1
    BY <2>6, <2>7
  <2>9. QED
    BY <2>2, <2>8 DEF e
<1>6. QED
  BY <1>1, <1>4, <1>5 DEF Stream, v, s

(* The stream goes on, from what a turn read to what it leaves. *)
LEMMA Onwards ==
  ASSUME Typed, NEW c \in Client, Stream(c),
         NEW x \in 1 .. Len(unread[c]), NEW y \in 1 .. Len(unread[c]), x <= y
  PROVE  LET p == unread[c][x]
             q == unread[c][y]
         IN  /\ p[1] \in Nat /\ q[1] \in Nat /\ p[2] \in 1 .. 3 /\ q[2] \in 1 .. 3
             /\ p[1] < q[1] \/ (p[1] = q[1] /\ p[2] <= q[2] /\ (x < y => p[2] < q[2]))
<1> DEFINE u == unread[c]
<1>1. u \in Seq(Piece) /\ Len(u) \in Nat /\ sent[c] \in Nat
  BY DEF Typed
<1>2. /\ 3 * u[x][1] + u[x][2] = 3 * sent[c] + 3 - (Len(u) - x)
      /\ 3 * u[y][1] + u[y][2] = 3 * sent[c] + 3 - (Len(u) - y)
  BY DEF Stream
<1>3. /\ u[x][1] \in Nat /\ u[y][1] \in Nat /\ u[x][2] \in 1 .. 3 /\ u[y][2] \in 1 .. 3
  BY <1>1 DEF Piece
<1> DEFINE a == u[x][1]
           b == u[x][2]
           d == u[y][1]
           e == u[y][2]
           s == sent[c]
           k == Len(u)
<1>4. /\ 3 * a + b = 3 * s + 3 - (k - x)
      /\ 3 * d + e = 3 * s + 3 - (k - y)
  BY <1>2
<1>5. /\ a \in Nat /\ d \in Nat /\ b \in 1 .. 3 /\ e \in 1 .. 3
      /\ s \in Nat /\ k \in Nat /\ x \in 1 .. k /\ y \in 1 .. k
  BY <1>1, <1>3
<1> HIDE DEF u, a, b, d, e, s, k
<1>6. a < d \/ (a = d /\ b <= e /\ (x < y => b < e))
  <2>1. x \in Nat /\ y \in Nat /\ b \in Nat /\ e \in Nat
    BY <1>5
  <2>2. 3 * d + e = 3 * a + b + (y - x)
    BY <1>4, <1>5, <2>1
  <2>3. QED
    BY <1>5, <2>1, <2>2
<1>7. QED
  BY <1>5, <1>6 DEF u, a, b, d, e

LEMMA TurnRunsFirst ==
  ASSUME Typed, NEW c \in Client, Stream(c), RunsFirst(c), NEW n \in 1 .. MaxRead, Turn(c, n)
  PROVE  RunsFirst(c)'
<1> DEFINE u == unread[c]
           v == unread'[c]
           First(r, p) ==
             \/ r.of < p[1]
             \/ r.of = p[1] /\ p[2] # 1 /\ (r.whole => p[2] = 3)
<1>1. /\ n \in 1 .. Len(u) /\ Len(u) \in Nat
      /\ \A x \in 1 .. Len(v) : x + n \in 1 .. Len(u) /\ v[x] = u[x + n]
  BY TurnReads
<1>2. \A r \in Range(done[c]) : \A x \in 1 .. Len(u) : First(r, u[x])
  BY DEF RunsFirst
<1>3. SUFFICES ASSUME NEW r \in Range(done'[c]), NEW x \in 1 .. Len(v)
               PROVE  First(r, u[x + n])
  <2>1. SUFFICES ASSUME NEW r \in Range(done'[c]), NEW x \in 1 .. Len(v)
                 PROVE  First(r, v[x])
    BY DEF RunsFirst
  <2>2. v[x] = u[x + n]
    BY <1>1
  <2>3. QED
    BY <2>2
<1>4. x + n \in 1 .. Len(u) /\ n < x + n /\ n <= x + n
  BY <1>1
<1>5. CASE r \in Range(done[c])
  BY <1>2, <1>4, <1>5
<1>6. CASE r \notin Range(done[c])
  <2>1. PICK s \in Run(c) : Spells(c, buffer'[c], s) /\ done'[c] = Append(done[c], s)
    BY <1>6, TurnDoes
  <2>2. r = s
    <3>1. done[c] \in Seq(Entry) /\ s \in Entry
      BY RunsAreEntries DEF Typed
    <3>2. Range(done'[c]) = Range(done[c]) \cup {s}
      BY <2>1, <3>1, RangeAppend
    <3>3. QED
      BY <1>6, <3>2
  <2> DEFINE h == IF u[1][2] = 3 THEN 2 ELSE 1
             y == x + n
  <2>3. /\ h \in 1 .. n /\ u[h][1] = r.of
        /\ r.whole => u[h][2] = 1 /\ u[n][1] = r.of /\ u[n][2] \in {2, 3}
        /\ ~r.whole => u[h][2] = 2 \/ (u[h][2] = 1 /\ h = n)
    BY <2>1, <2>2, TurnSpells
  <2> HIDE DEF u, v, h
  <2>4. h \in 1 .. Len(u) /\ h <= y /\ h < y
    BY <1>1, <1>4, <2>3
  <2> HIDE DEF y
  <2>5. y \in 1 .. Len(u) /\ n <= y /\ n < y
    BY <1>4 DEF y
  <2>6. CASE r.whole
    <3>1. /\ u[n][2] \in 1 .. 3 /\ u[y][2] \in 1 .. 3
          /\ u[n][1] < u[y][1] \/ (u[n][1] = u[y][1] /\ u[n][2] < u[y][2])
      BY <1>1, <2>5, Onwards DEF u
    <3>2. r.of < u[y][1] \/ (r.of = u[y][1] /\ u[y][2] = 3)
      BY <2>3, <2>6, <3>1
    <3>3. QED
      BY <3>2 DEF y
  <2>7. CASE ~r.whole
    <3>1. /\ u[h][2] \in 1 .. 3 /\ u[y][2] \in 1 .. 3
          /\ u[h][1] < u[y][1] \/ (u[h][1] = u[y][1] /\ u[h][2] < u[y][2])
      BY <2>4, <2>5, Onwards DEF u
    <3>2. r.of < u[y][1] \/ (r.of = u[y][1] /\ u[y][2] # 1)
      BY <2>3, <3>1
    <3>3. QED
      BY <2>7, <3>2 DEF y
  <2>8. QED
    BY <2>6, <2>7
<1>7. QED
  BY <1>5, <1>6

(* What runs comes after all that ran, and only a cut lets a part run. *)
LEMMA TurnInOrder ==
  ASSUME Typed, NEW c \in Client, OneClient(c), NEW n \in 1 .. MaxRead, Turn(c, n)
  PROVE  InOrder(c)' /\ Gated(c)'
<1> DEFINE u == unread[c]
           d == done[c]
           e == done'[c]
<1>1. /\ d \in Seq(Entry) /\ Len(d) \in Nat /\ n \in 1 .. Len(u) /\ Len(u) \in Nat
      /\ u \in Seq(Piece) /\ cut[c] \in BOOLEAN /\ cut'[c] \in BOOLEAN
      /\ cut'[c] <=> cut[c] \/ u[n][2] # 3
  <2>1. cut'[c] \in BOOLEAN
    BY TypedServe DEF Serve, Typed
  <2>2. QED
    BY <2>1, TurnReads DEF Typed
<1>2. CASE e = d /\ (loggedIn'[c] <=> loggedIn[c])
  BY <1>1, <1>2 DEF OneClient, InOrder, Gated
<1>3. ASSUME NEW r \in Run(c), Spells(c, buffer'[c], r), MayRun(c, r.cmd),
             e = Append(d, r), loggedIn'[c] => loggedIn[c] \/ r.cmd = "login"
      PROVE  InOrder(c)' /\ Gated(c)'
  <2>1. r \in Entry /\ r.of \in Nat /\ r.whole \in BOOLEAN
    BY RunsAreEntries DEF Entry
  <2> HIDE DEF d, e, u
  <2>2. /\ Len(e) = Len(d) + 1 /\ e[Len(d) + 1] = r /\ \A z \in 1 .. Len(d) : e[z] = d[z]
    BY <1>1, <1>3, <2>1, AppendProperties
  <2>3. ASSUME NEW z \in 1 .. Len(e) PROVE z \in 1 .. Len(d) \/ z = Len(d) + 1
    BY <1>1, <2>2
  <2> DEFINE h == IF u[1][2] = 3 THEN 2 ELSE 1
  <2>4. /\ h \in 1 .. n /\ u[h][1] = r.of
        /\ r.whole => u[h][2] = 1
        /\ ~r.whole => u[h][2] = 2 \/ (u[h][2] = 1 /\ h = n)
    BY <1>3, TurnSpells DEF u
  <2>5. h \in 1 .. Len(u) /\ 1 \in 1 .. Len(u)
    BY <1>1, <2>4
  <2>6. ASSUME NEW j \in 1 .. Len(d)
        PROVE  d[j].of <= r.of /\ (d[j].whole \/ r.whole => d[j].of # r.of)
    <3>1. d[j] \in Range(d) /\ d[j].of \in Nat
      <4>1. DOMAIN d = 1 .. Len(d) /\ d[j] \in Entry
        BY <1>1
      <4>2. QED
        BY <4>1 DEF Range, Entry
    <3>2. \/ d[j].of < u[h][1]
          \/ d[j].of = u[h][1] /\ u[h][2] # 1 /\ (d[j].whole => u[h][2] = 3)
      BY <2>5, <3>1 DEF OneClient, RunsFirst, u, d
    <3> HIDE DEF h
    <3>3. CASE d[j].of < u[h][1]
      BY <2>1, <2>4, <3>1, <3>3
    <3>4. CASE d[j].of = u[h][1] /\ u[h][2] # 1 /\ (d[j].whole => u[h][2] = 3)
      <4>1. ~r.whole /\ u[h][2] = 2 /\ ~d[j].whole
        BY <2>1, <2>4, <3>4
      <4>2. QED
        BY <2>1, <2>4, <3>4, <4>1
    <3>5. QED
      BY <3>2, <3>3, <3>4
  <2>7. InOrder(c)'
    <3> SUFFICES ASSUME NEW j \in 1 .. Len(e), NEW k \in 1 .. Len(e), j < k
                 PROVE  e[j].of <= e[k].of /\ (e[j].whole \/ e[k].whole => e[j].of # e[k].of)
      BY DEF InOrder, e
    <3>1. CASE k \in 1 .. Len(d)
      <4>1. j \in 1 .. Len(d)
        BY <1>1, <3>1
      <4>2. e[j] = d[j] /\ e[k] = d[k]
        BY <2>2, <3>1, <4>1
      <4>3. d[j].of <= d[k].of /\ (d[j].whole \/ d[k].whole => d[j].of # d[k].of)
        BY <3>1, <4>1 DEF OneClient, InOrder, d
      <4>4. QED
        BY <4>2, <4>3
    <3>2. CASE k = Len(d) + 1
      <4>1. j \in 1 .. Len(d)
        BY <1>1, <3>2
      <4>2. e[j] = d[j] /\ e[k] = r
        BY <2>2, <3>2, <4>1
      <4>3. QED
        BY <2>6, <4>1, <4>2
    <3>3. QED
      BY <2>3, <3>1, <3>2
  <2>8. r.whole \/ cut'[c]
    <3>1. SUFFICES ASSUME ~r.whole PROVE cut'[c]
      OBVIOUS
    <3>2. CASE u[h][2] = 2
      <4>1. u[1][2] # 1
        BY <3>2
      <4>2. cut[c]
        BY <2>5, <4>1 DEF OneClient, Stream, u
      <4>3. QED
        BY <1>1, <4>2
    <3>3. CASE u[h][2] = 1 /\ h = n
      <4>1. u[n][2] = 1
        BY <3>3
      <4>2. QED
        BY <1>1, <4>1
    <3>4. QED
      BY <2>4, <3>1, <3>2, <3>3
  <2>9. /\ loggedIn[c] => \E j \in 1 .. Len(d) : d[j].cmd = "login"
        /\ \A k \in 1 .. Len(d) :
             /\ d[k].whole \/ cut[c]
             /\ RequiresLogin(d[k].cmd) => \E j \in 1 .. k - 1 : d[j].cmd = "login"
    BY DEF OneClient, Gated, d
  <2>10. loggedIn'[c] => \E j \in 1 .. Len(e) : e[j].cmd = "login"
    <3>1. CASE r.cmd = "login"
      <4>1. Len(d) + 1 \in 1 .. Len(e) /\ e[Len(d) + 1].cmd = "login"
        BY <1>1, <2>2, <3>1
      <4>2. QED
        BY <4>1
    <3>2. CASE loggedIn[c]
      <4>1. PICK j \in 1 .. Len(d) : d[j].cmd = "login"
        BY <2>9, <3>2
      <4>2. j \in 1 .. Len(e) /\ e[j].cmd = "login"
        BY <1>1, <2>2, <4>1
      <4>3. QED
        BY <4>2
    <3>3. QED
      BY <1>3, <3>1, <3>2
  <2>11. ASSUME NEW k \in 1 .. Len(e)
         PROVE  /\ e[k].whole \/ cut'[c]
                /\ RequiresLogin(e[k].cmd) => \E j \in 1 .. k - 1 : e[j].cmd = "login"
    <3>1. CASE k \in 1 .. Len(d)
      <4>1. e[k] = d[k] /\ (d[k].whole \/ cut[c])
        BY <2>2, <2>9, <3>1
      <4>2. ASSUME RequiresLogin(e[k].cmd) PROVE \E j \in 1 .. k - 1 : e[j].cmd = "login"
        <5>1. PICK j \in 1 .. k - 1 : d[j].cmd = "login"
          BY <2>9, <3>1, <4>1, <4>2
        <5>2. j \in 1 .. Len(d)
          BY <1>1, <3>1
        <5>3. QED
          BY <2>2, <5>1, <5>2
      <4>3. QED
        BY <1>1, <4>1, <4>2
    <3>2. CASE k = Len(d) + 1
      <4>1. e[k] = r /\ k - 1 = Len(d)
        BY <1>1, <2>2, <3>2
      <4>2. ASSUME RequiresLogin(r.cmd) PROVE \E j \in 1 .. Len(d) : e[j].cmd = "login"
        <5>1. loggedIn[c]
          BY <1>3, <4>2 DEF MayRun
        <5>2. PICK j \in 1 .. Len(d) : d[j].cmd = "login"
          BY <2>9, <5>1
        <5>3. QED
          BY <2>2, <5>2
      <4>3. QED
        BY <2>8, <4>1, <4>2
    <3>3. QED
      BY <2>3, <3>1, <3>2
  <2>12. Gated(c)'
    BY <2>10, <2>11 DEF Gated, e
  <2>13. QED
    BY <2>7, <2>12
<1>4. QED
  BY <1>2, <1>3, TurnDoes

-----------------------------------------------------------------------------
(* A client that waits. *)

LEMMA LoginSoFar ==
  ASSUME NEW c \in Client, NEW i \in Nat \ {0}
  PROVE  /\ LoginBefore(c, i + 1) <=> LoginBefore(c, i) \/ Script[c][i] = "login"
         /\ (RequiresLogin(Script[c][i]) => LoginBefore(c, i)) =>
              Allowed(c, i) = Allowed(c, i - 1) \cup {i}
         /\ RequiresLogin(Script[c][i]) /\ ~LoginBefore(c, i) =>
              Allowed(c, i) = Allowed(c, i - 1)
<1>1. 1 .. (i + 1) - 1 = (1 .. i - 1) \cup {i} /\ 1 .. i = (1 .. i - 1) \cup {i}
  OBVIOUS
<1>2. LoginBefore(c, i + 1) <=> LoginBefore(c, i) \/ Script[c][i] = "login"
  BY <1>1 DEF LoginBefore
<1>3. QED
  BY <1>1, <1>2 DEF Allowed

(* Uncut, a turn reads the one command that is unread, and all of it. *)
LEMMA TurnReadsAll ==
  ASSUME Typed, NEW c \in Client, OneClient(c), NEW n \in 1 .. MaxRead, Turn(c, n),
         ~ahead'[c], ~cut'[c]
  PROVE  /\ ~ahead[c] /\ ~cut[c] /\ sent[c] \in Nat \ {0} /\ answered[c] + 1 = sent[c]
         /\ answered'[c] = sent[c] /\ sent'[c] = sent[c]
         /\ buffer'[c] = Pieces(sent[c]) /\ Len(unread'[c]) = 0
<1> DEFINE i == sent[c]
           u == unread[c]
           t == buffer'[c]
<1>1. /\ n \in 1 .. Len(u) /\ u \in Seq(Piece) /\ Len(u) \in Nat
      /\ t \in Seq(Piece) /\ Len(t) = n /\ \A x \in 1 .. n : t[x] = u[x]
      /\ Len(unread'[c]) = Len(u) - n
      /\ ~cut[c] /\ u[n][2] = 3
  BY TurnReads
<1>2. /\ ~ahead[c] /\ sent'[c] = i /\ i \in Nat /\ answered[c] \in Nat
      /\ answered'[c] = answered[c] + 1
  BY DEF Turn, Typed
<1>3. answered[c] + 1 = i /\ Len(u) = 3
  BY <1>1, <1>2 DEF OneClient, InStep
<1>4. \A x \in 1 .. 3 : 3 * u[x][1] + u[x][2] = 3 * i + x
  <2>1. \A x \in 1 .. 3 : 3 * u[x][1] + u[x][2] = 3 * i + 3 - (3 - x)
    BY <1>3 DEF OneClient, Stream
  <2>2. \A x \in 1 .. 3 : 3 * i + 3 - (3 - x) = 3 * i + x
    BY <1>2
  <2>3. QED
    BY <2>1, <2>2
<1> HIDE DEF i, u, t
<1>5. ASSUME NEW x \in 1 .. 3 PROVE u[x] = <<i, x>>
  <2>1. u[x] \in Piece
    BY <1>1, <1>3
  <2> DEFINE a == u[x][1]
             b == u[x][2]
  <2>2. a \in Nat /\ b \in 1 .. 3 /\ u[x] = <<a, b>>
    BY <2>1 DEF Piece
  <2>3. 3 * a + b = 3 * i + x
    BY <1>4
  <2> HIDE DEF a, b
  <2>4. a = i /\ b = x
    BY <1>2, <2>2, <2>3
  <2>5. QED
    BY <2>2, <2>4
<1>6. n = 3
  <2>1. n \in 1 .. 3 /\ u[n] = <<i, n>>
    BY <1>1, <1>3, <1>5
  <2>2. u[n][2] = n
    BY <2>1
  <2>3. QED
    BY <1>1, <2>2
<1>7. i \in Nat \ {0}
  BY <1>2, <1>3
<1>8. t = Pieces(i)
  <2>1. /\ Pieces(i) \in Seq(Piece) /\ Len(Pieces(i)) = 3
        /\ \A x \in 1 .. 3 : Pieces(i)[x] = <<i, x>>
    BY <1>7, PiecesFacts
  <2>2. \A x \in 1 .. 3 : t[x] = <<i, x>>
    BY <1>1, <1>5, <1>6
  <2>3. t \in Seq(Piece) /\ Len(t) = 3
    BY <1>1, <1>6
  <2>4. /\ Len(t) = Len(Pieces(i))
        /\ \A x \in 1 .. Len(t) : t[x] = Pieces(i)[x]
    BY <2>1, <2>2, <2>3
  <2>5. QED
    BY <2>1, <2>3, <2>4, SeqEqual
<1>9. QED
  BY <1>1, <1>2, <1>3, <1>6, <1>7, <1>8 DEF i, u, t

LEMMA TurnInStep ==
  ASSUME Typed, NEW c \in Client, OneClient(c), NEW n \in 1 .. MaxRead, Turn(c, n)
  PROVE  InStep(c)'
<1> DEFINE i == sent[c]
           own == [of |-> i, cmd |-> Script[c][i], whole |-> TRUE]
<1>1. SUFFICES ASSUME ~ahead'[c], ~cut'[c]
               PROVE  /\ answered'[c] = sent'[c] /\ Len(unread'[c]) = 0
                      /\ loggedIn'[c] <=> LoginBefore(c, answered'[c] + 1)
                      /\ {r.of : r \in Range(done'[c])} = Allowed(c, answered'[c])
  BY DEF InStep, LoginBefore, Allowed
<1>2. /\ ~ahead[c] /\ ~cut[c] /\ i \in Nat \ {0} /\ answered[c] + 1 = i
      /\ answered'[c] = i /\ sent'[c] = i
      /\ buffer'[c] = Pieces(i) /\ Len(unread'[c]) = 0
  BY <1>1, TurnReadsAll
<1>3. answered[c] = i - 1
  BY <1>2 DEF Typed
<1>4. /\ loggedIn[c] <=> LoginBefore(c, i)
      /\ {r.of : r \in Range(done[c])} = Allowed(c, i - 1)
  BY <1>2, <1>3 DEF OneClient, InStep
<1>5. own \in Run(c) /\ Spells(c, buffer'[c], own)
  <2>1. Script[c][i] \in Command
    BY <1>2, ScriptAssumption DEF Typed
  <2>2. i \in 1 .. sent[c]
    BY <1>2
  <2>3. Words(Pieces(i)) = Pieces(i)
    <3>1. Head(Pieces(i)) = <<i, 1>>
      BY <1>2, PiecesFacts, HeadTailProperties, EmptySeq
    <3>2. Head(Pieces(i))[2] = 1
      BY <3>1
    <3>3. QED
      BY <3>2 DEF Words
  <2>4. own \in Run(c)
    BY <2>1, <2>2 DEF Run
  <2>5. QED
    BY <1>2, <2>3, <2>4 DEF Spells
<1>6. CASE /\ done'[c] = done[c] /\ (loggedIn'[c] <=> loggedIn[c])
           /\ \A r \in Run(c) : Spells(c, buffer'[c], r) /\ r.whole => ~MayRun(c, r.cmd)
  <2>1. ~MayRun(c, Script[c][i])
    BY <1>5, <1>6
  <2>2. RequiresLogin(Script[c][i]) /\ ~LoginBefore(c, i) /\ Script[c][i] # "login"
    BY <1>4, <2>1 DEF MayRun, RequiresLogin
  <2>3. Allowed(c, i) = Allowed(c, i - 1) /\ ~LoginBefore(c, i + 1)
    BY <1>2, <2>2, LoginSoFar
  <2>4. QED
    BY <1>2, <1>4, <1>6, <2>2, <2>3
<1>7. ASSUME NEW r \in Run(c), Spells(c, buffer'[c], r), MayRun(c, r.cmd),
             done'[c] = Append(done[c], r),
             loggedIn[c] => loggedIn'[c], loggedIn'[c] => loggedIn[c] \/ r.cmd = "login",
             r.whole /\ r.cmd = "login" => loggedIn'[c]
      PROVE  /\ loggedIn'[c] <=> LoginBefore(c, i + 1)
             /\ {s.of : s \in Range(done'[c])} = Allowed(c, i)
  <2>1. done[c] \in Seq(Entry) /\ r \in Entry
    BY RunsAreEntries DEF Typed
  <2>2. r.whole
    <3>1. Gated(c)'
      BY TurnInOrder
    <3>2. /\ Len(done[c]) + 1 \in 1 .. Len(done'[c])
          /\ done'[c][Len(done[c]) + 1] = r
      BY <1>7, <2>1
    <3>3. QED
      BY <1>1, <3>1, <3>2 DEF Gated
  <2>3. r.of = i /\ r.cmd = Script[c][i]
    <3>1. Words(buffer'[c]) = Pieces(i)
      <4>1. Head(Pieces(i)) = <<i, 1>>
        BY <1>2, PiecesFacts, HeadTailProperties, EmptySeq
      <4>2. Head(Pieces(i))[2] = 1
        BY <4>1
      <4>3. QED
        BY <1>2, <4>2 DEF Words
    <3>2. r.cmd = Script[c][r.of] /\ Pieces(i) \in {Pieces(r.of), Front(Pieces(r.of))}
      BY <1>7, <2>2, <3>1 DEF Spells
    <3>3. r.of \in Nat \ {0}
      BY <2>1 DEF Entry
    <3>4. Pieces(i)[1] = <<i, 1>> /\ Pieces(i)[1] = <<r.of, 1>>
      BY <1>2, <3>2, <3>3, PiecesFacts
    <3>5. r.of = i
      BY <3>4
    <3>6. QED
      BY <3>2, <3>5
  <2>4. Range(done'[c]) = Range(done[c]) \cup {r}
    BY <1>7, <2>1, RangeAppend
  <2>5. {s.of : s \in Range(done'[c])} = {s.of : s \in Range(done[c])} \cup {i}
    BY <2>3, <2>4
  <2>6. RequiresLogin(Script[c][i]) => LoginBefore(c, i)
    BY <1>4, <1>7, <2>3 DEF MayRun
  <2>7. Allowed(c, i) = Allowed(c, i - 1) \cup {i}
    BY <1>2, <2>6, LoginSoFar
  <2>8. loggedIn'[c] <=> loggedIn[c] \/ Script[c][i] = "login"
    BY <1>7, <2>2, <2>3
  <2>9. QED
    BY <1>2, <1>4, <2>5, <2>7, <2>8, LoginSoFar
<1>8. CASE \E r \in Run(c) :
             /\ Spells(c, buffer'[c], r) /\ MayRun(c, r.cmd)
             /\ done'[c] = Append(done[c], r)
             /\ loggedIn[c] => loggedIn'[c]
             /\ loggedIn'[c] => loggedIn[c] \/ r.cmd = "login"
             /\ r.whole /\ r.cmd = "login" => loggedIn'[c]
  BY <1>2, <1>7, <1>8
<1>9. QED
  BY <1>6, <1>8, TurnDoes

LEMMA InvNext == IInv /\ [Next]_vars => IInv'
<1> SUFFICES ASSUME IInv, [Next]_vars PROVE IInv'
  OBVIOUS
<1>1. Typed'
  BY TypedNext DEF IInv
<1>2. ASSUME NEW c \in Client, NEW n \in 1 .. MaxRead, Turn(c, n) PROVE OneClient(c)'
  BY <1>2, TurnStream, TurnRunsFirst, TurnInOrder, TurnInStep DEF IInv, OneClient
<1>3. ASSUME NEW c \in Client PROVE OneClient(c)'
  BY <1>2, OwnSteps, Unaffected, SendKeeps DEF IInv
<1>4. QED
  BY <1>1, <1>3 DEF IInv

(***************************************************************************)
(* Whatever the cuts of the stream are taken for -- a command without its  *)
(* newline, with a shorter argument, or what arguments happen to spell --  *)
(* a command that runs as it was sent runs once and in its turn, and no    *)
(* part of it runs as another; parts run only after a cut, and nothing     *)
(* that needs a login before one.  A client that waits for its replies,    *)
(* and has none of its commands cut, has each run that its login allows.   *)
(***************************************************************************)
THEOREM CommandsRunAsSent == Spec => []CommandsAsSent
<1>1. Init => IInv
  <2> SUFFICES ASSUME Init PROVE \A c \in Client : OneClient(c)
    BY TypedInit DEF IInv
  <2>1. Len(<<>>) = 0 /\ Range(<<>>) = {}
    BY DEF Range
  <2>2. ASSUME NEW c \in Client
        PROVE  /\ unread[c] = <<>> /\ done[c] = <<>> /\ sent[c] = 0 /\ answered[c] = 0
               /\ ~loggedIn[c]
    BY DEF Init
  <2>3. ASSUME NEW c \in Client PROVE Stream(c) /\ RunsFirst(c) /\ InOrder(c) /\ Gated(c)
    <3>1. Stream(c)
      <4>1. 1 .. Len(unread[c]) = {}
        BY <2>1, <2>2
      <4>2. QED
        BY <4>1 DEF Stream
    <3>2. RunsFirst(c)
      BY <2>1, <2>2 DEF RunsFirst
    <3>3. InOrder(c)
      BY <2>1, <2>2 DEF InOrder
    <3>4. Gated(c)
      BY <2>1, <2>2 DEF Gated
    <3>5. QED
      BY <3>1, <3>2, <3>3, <3>4
  <2>4. ASSUME NEW c \in Client PROVE InStep(c)
    BY <2>1, <2>2 DEF InStep, LoginBefore, Allowed
  <2>5. QED
    BY <2>3, <2>4 DEF OneClient
<1>2. IInv => CommandsAsSent
  <2> SUFFICES ASSUME IInv PROVE CommandsAsSent
    OBVIOUS
  <2>1. ASSUME NEW c \in Client
        PROVE  /\ DOMAIN done[c] = 1 .. Len(done[c])
               /\ InOrder(c) /\ Gated(c) /\ InStep(c)
    BY DEF IInv, OneClient, Typed
  <2>2. QED
    BY <2>1 DEF CommandsAsSent, InOrder, Gated, InStep, LoginBefore, Allowed
<1>3. QED
  BY <1>1, <1>2, InvNext, PTL DEF Spec
=============================================================================
