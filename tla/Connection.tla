------------------------------ MODULE Connection -------------------------------
(***************************************************************************)
(* Connections and commands (src/src/memora.c): a parent that accepts      *)
(* clients and forks a process for each, and those processes, which take   *)
(* what one read returns for one command.                                  *)
(*                                                                         *)
(* A client sends the commands of its script as a stream of pieces, which  *)
(* is cut into reads anywhere: <<i, 1>> is the beginning of command i, up  *)
(* to some point of its words, <<i, 2>> their rest, <<i, 3>> its newline.  *)
(* The parent keeps a descriptor of every client and every child that has  *)
(* ended.  What a command does is left to the other modules; those named   *)
(* work, with arguments, stand for all others that need a login.  A login  *)
(* that runs as it was sent succeeds.                                      *)
(***************************************************************************)
EXTENDS Naturals, SequencesExt

CONSTANTS
  Client,
  Script,     \* what each client sends, one command after another
  MaxRead,    \* how many pieces a read can return
  MaxFd,      \* how many clients the parent has descriptors for
  MaxChild    \* how many children it may have, ended ones included

Command == {"login", "work", "logout"}

ASSUME ScriptAssumption == Script \in [Client -> Seq(Command)]
ASSUME BoundsAssumption == MaxRead \in Nat \ {0} /\ MaxFd \in Nat /\ MaxChild \in Nat

VARIABLES
  parent,     \* whether it runs
  backlog,    \* the clients that wait to be accepted
  fds,        \* how many clients' descriptors the parent has
  forked,     \* how many children it has
  client,     \* each client: new, connected or closed
  child,      \* its process: none, one that serves it or has ended, or never forked
  sent,       \* how many commands it has sent
  unread,     \* the pieces of them that its child has not read
  buffer,     \* the child's buffer
  loggedIn,   \* its client->logged_in, as long as it runs
  done,       \* history: what the child has run, in order
  cut,        \* history: some read ended inside a command
  ahead,      \* history: the client sent one before it had an answer to the last
  answered    \* history: how many answers it had before cut or ahead

perParent == <<parent, backlog, fds, forked>>
perChild == <<child, unread, buffer, loggedIn>>
history == <<done, cut, answered>>
vars == <<perParent, client, sent, ahead, perChild, history>>

Pieces(i) == [k \in 1..3 |-> <<i, k>>]

(* A run: of a command as it was sent, or of a part of command number of that *)
(* was taken for cmd.                                                         *)
Run(c) == [of : 1..sent[c], cmd : Command, whole : BOOLEAN]

Init ==
  /\ parent = "runs" /\ backlog = <<>> /\ fds = 0 /\ forked = 0
  /\ client = [c \in Client |-> "new"] /\ child = [c \in Client |-> "none"]
  /\ sent = [c \in Client |-> 0] /\ unread = [c \in Client |-> <<>>]
  /\ buffer = [c \in Client |-> <<>>] /\ loggedIn = [c \in Client |-> FALSE]
  /\ done = [c \in Client |-> <<>>] /\ answered = [c \in Client |-> 0]
  /\ cut = [c \in Client |-> FALSE] /\ ahead = [c \in Client |-> FALSE]

-----------------------------------------------------------------------------
(* The clients. *)

Connect(c) ==
  /\ client[c] = "new" /\ parent = "runs"
  /\ client' = [client EXCEPT ![c] = "connected"] /\ backlog' = Append(backlog, c)
  /\ UNCHANGED <<parent, fds, forked, sent, ahead, perChild, history>>

Send(c) ==
  /\ client[c] = "connected" /\ sent[c] < Len(Script[c])
  /\ sent' = [sent EXCEPT ![c] = @ + 1]
  /\ ahead' = [ahead EXCEPT ![c] = @ \/ answered[c] < sent[c]]
  /\ unread' = [unread EXCEPT ![c] = @ \o Pieces(sent[c] + 1)]
  /\ UNCHANGED <<perParent, client, child, buffer, loggedIn, history>>

Close(c) ==
  /\ client[c] = "connected" /\ client' = [client EXCEPT ![c] = "closed"]
  /\ UNCHANGED <<perParent, sent, ahead, perChild, history>>

-----------------------------------------------------------------------------
(* mainloop, in the parent. *)

(* Mutant: the parent serves the session itself. *)
MayAcceptIdle ==
  /\ parent = "runs" /\ backlog # <<>> /\ fds < MaxFd
  /\ \A c \in Client : child[c] # "serves"

MayAccept == parent = "runs" /\ backlog # <<>> /\ fds < MaxFd

(* accept and fork.  When fork fails, -1 is taken for a child's pid. *)
Accept ==
  /\ MayAccept
  /\ backlog' = Tail(backlog) /\ fds' = fds + 1
  /\ IF forked < MaxChild
       THEN child' = [child EXCEPT ![Head(backlog)] = "serves"] /\ forked' = forked + 1
       ELSE child' = [child EXCEPT ![Head(backlog)] = "unforked"] /\ UNCHANGED forked
  /\ UNCHANGED <<parent, client, sent, ahead, unread, buffer, loggedIn, history>>

(* The parent is killed; its children go on. *)
Stop ==
  /\ parent = "runs" /\ parent' = "stopped"
  /\ UNCHANGED <<backlog, fds, forked, client, sent, ahead, perChild, history>>

-----------------------------------------------------------------------------
(* child_loop. *)

(* Mutant: the buffer is not zeroed. *)
ReceivedOver(c, n) ==
  SubSeq(unread[c], 1, n) \o SubSeq(buffer[c], n + 1, Len(buffer[c]))

(* Mutant: what is read is put after what was. *)
ReceivedAfter(c, n) == buffer[c] \o SubSeq(unread[c], 1, n)

(* What the buffer holds after zero and read. *)
Received(c, n) == SubSeq(unread[c], 1, n)

(* split passes over a newline that the read before has left. *)
Words(text) == IF Head(text)[2] = 3 THEN Tail(text) ELSE text

(* handlers[]: which commands have arguments, and which ask for a login. *)
HasArguments(cmd) == cmd # "logout"

RequiresLogin(cmd) == cmd # "login"

(***************************************************************************)
(* What a text is taken for, each handler asking for its number of         *)
(* arguments.  A command with or without its newline is that command; with *)
(* more after it, it has arguments too many.  The beginning of one may run *)
(* with its last argument cut.  And what begins inside the arguments of    *)
(* one may be any command: these words, and those that follow, decide.     *)
(***************************************************************************)
Spells(c, text, run) ==
  LET i == run.of
      w == Words(text)
  IN  IF run.whole
        THEN run.cmd = Script[c][i] /\ w \in {Pieces(i), Front(Pieces(i))}
        ELSE /\ HasArguments(Script[c][i])
             /\ \/ w = <<<<i, 1>>>> /\ run.cmd = Script[c][i]
                \/ w # <<>> /\ Head(w) = <<i, 2>>

(* The gate comes before the arguments are counted. *)
MayRun(c, cmd) == RequiresLogin(cmd) => loggedIn[c]

Runs(c, run) ==
  /\ MayRun(c, run.cmd)
  /\ done' = [done EXCEPT ![c] = Append(@, run)]
  /\ \E ok \in BOOLEAN :
       /\ run.whole => ok
       /\ loggedIn' = [loggedIn EXCEPT ![c] = @ \/ (run.cmd = "login" /\ ok)]
  /\ child' = [child EXCEPT ![c] = IF run.cmd = "logout" THEN "ended" ELSE @]

(* No word, no command of its name, no login, or not as many arguments: *)
(* the client gets an error.                                            *)
RunsNothing(c, text) ==
  /\ \A run \in Run(c) : Spells(c, text, run) /\ run.whole => ~MayRun(c, run.cmd)
  /\ UNCHANGED <<done, loggedIn, child>>

(* One turn: read, split, dispatch, the command, and its reply. *)
Turn(c, n) ==
  /\ child[c] = "serves" /\ n <= Len(unread[c])
  /\ buffer' = [buffer EXCEPT ![c] = Received(c, n)]
  /\ unread' = [unread EXCEPT ![c] = SubSeq(@, n + 1, Len(@))]
  /\ cut' = [cut EXCEPT ![c] = @ \/ unread[c][n][2] # 3]
  /\ answered' = IF ahead[c] \/ cut'[c] THEN answered ELSE [answered EXCEPT ![c] = @ + 1]
  /\ \/ \E run \in Run(c) : Spells(c, buffer'[c], run) /\ Runs(c, run)
     \/ RunsNothing(c, buffer'[c])
  /\ UNCHANGED <<perParent, client, sent, ahead>>

(* Mutant: only a read that fails ends the loop. *)
EndOfFileIgnored(c) == FALSE

(* read returns 0: all is read, and the client has closed. *)
EndOfFile(c) == child[c] = "serves" /\ unread[c] = <<>> /\ client[c] = "closed"

Hangup(c) ==
  /\ EndOfFile(c) /\ child' = [child EXCEPT ![c] = "ended"]
  /\ UNCHANGED <<perParent, client, sent, ahead, unread, buffer, loggedIn, history>>

(* A crash, or a reply to a client that is gone: it takes nobody else along. *)
Die(c) ==
  /\ child[c] = "serves" /\ child' = [child EXCEPT ![c] = "ended"]
  /\ UNCHANGED <<perParent, client, sent, ahead, unread, buffer, loggedIn, history>>

-----------------------------------------------------------------------------
Serve(c) == Hangup(c) \/ \E n \in 1..MaxRead : Turn(c, n)

Next ==
  \/ Accept \/ Stop
  \/ \E c \in Client : Connect(c) \/ Send(c) \/ Close(c) \/ Serve(c) \/ Die(c)

Spec == Init /\ [][Next]_vars

(* The parent does nothing but accept, and a child nothing but serve. *)
FairSpec == Spec /\ WF_vars(Accept) /\ \A c \in Client : WF_vars(Serve(c))

-----------------------------------------------------------------------------
TypeOK ==
  /\ parent \in {"runs", "stopped"} /\ backlog \in Seq(Client)
  /\ fds \in 0..MaxFd /\ forked \in 0..MaxChild
  /\ client \in [Client -> {"new", "connected", "closed"}]
  /\ child \in [Client -> {"none", "serves", "ended", "unforked"}]
  /\ \A c \in Client :
       /\ sent[c] \in 0..Len(Script[c])
       /\ Len(buffer[c]) <= MaxRead /\ loggedIn[c] \in BOOLEAN
       /\ Range(done[c]) \subseteq Run(c) /\ answered[c] \in Nat
       /\ cut[c] \in BOOLEAN /\ ahead[c] \in BOOLEAN

(***************************************************************************)
(* However the stream is cut into reads: a command that runs as it was     *)
(* sent runs once and in its turn, and no part of it runs as another; what *)
(* is taken for a command and was not sent as one runs only after a read   *)
(* has cut a command; and nothing that needs a login runs before one has.  *)
(* A client that waits for each reply, and none of whose commands a read   *)
(* has cut, has each command run that it got an answer to, but those that  *)
(* need a login before it has logged in.                                   *)
(***************************************************************************)
CommandsAsSent ==
  \A c \in Client :
    /\ \A j, k \in DOMAIN done[c] :
         j < k => /\ done[c][j].of <= done[c][k].of
                  /\ done[c][j].whole \/ done[c][k].whole => done[c][j].of # done[c][k].of
    /\ \A k \in DOMAIN done[c] :
         /\ done[c][k].whole \/ cut[c]
         /\ RequiresLogin(done[c][k].cmd) => \E j \in 1..k - 1 : done[c][j].cmd = "login"
    /\ ~ahead[c] /\ ~cut[c] =>
         {r.of : r \in Range(done[c])} =
           {i \in 1..answered[c] :
              RequiresLogin(Script[c][i]) => \E j \in 1..i - 1 : Script[c][j] = "login"}

(***************************************************************************)
(* A client in the backlog gets its process, whatever the other clients    *)
(* and their processes do -- until the parent is stopped, or out of        *)
(* descriptors or of children, none of which it ever gives back.           *)
(***************************************************************************)
AllServed ==
  \A c \in Client :
    client[c] # "new" ~> \/ child[c] \in {"serves", "ended"}
                         \/ child[c] = "unforked" /\ forked = MaxChild
                         \/ parent = "stopped" \/ fds = MaxFd

(***************************************************************************)
(* A process outlives its client only for what the client had sent.        *)
(***************************************************************************)
ChildEnds ==
  \A c \in Client : client[c] = "closed" /\ child[c] # "none" ~> child[c] \in {"ended", "unforked"}
=============================================================================
