----------------------------- MODULE DbFileProofs ------------------------------
(***************************************************************************)
(* For every set of processes, keys and values: while it is sound, a       *)
(* database's file behaves like a LineStore, and keeps the leaves it has   *)
(* been answered for.                                                      *)
(***************************************************************************)
EXTENDS DbFile, TLAPS

(* At most one process is between its remove and its rename. *)
OneRewrites == \A s, t \in Session : pc[s] = "removed" /\ pc[t] = "removed" => s = t

(* A copy that is under way is still the file, but for its keys. *)
CopiesCurrent ==
  Rewritten = {} =>
    \A s \in Session : pc[s] = "copied" => temp[s] = Without(file, cmd[s].drop)

(* What holds of every state, and what holds while it is sound. *)
Shape ==
  /\ TypeOK
  /\ \A s \in Session : pc[s] \in {"append", "copied"} => cmd[s] \in Command
  /\ \A s \in Session : pc[s] = "append" => cmd[s].drop = {}

SoundInv ==
  /\ \A s \in Session : pc[s] # "stale"
  /\ Rewritten = {} => exists
  /\ OneRewrites
  /\ CopiesCurrent
  /\ AckedLeavesKept

IInv == Shape /\ (Sound => SoundInv)

-----------------------------------------------------------------------------
(* The shape. *)

LEMMA CommandFacts ==
  /\ \A c \in Command \cup {Nothing} : c.put \subseteq Line /\ c.drop \subseteq Key
  /\ \A l \in Line : Adding(l) \in Command /\ Replacing(l) \in Command
  /\ \A k \in Key : Dropping(k) \in Command
  /\ \A l \in Line : Adding(l).drop = {} /\ Adding(l).put = {l}
<1>1. \A l \in Line : Adding(l) \in Command /\ Replacing(l) \in Command /\ l.key \in Key
  BY DEF Command, Line
<1>2. \A k \in Key : Dropping(k) \in Command
  BY DEF Command
<1>3. \A l \in Line : Adding(l).drop = {} /\ Adding(l).put = {l}
  BY DEF Adding
<1>4. \A l \in Line : Replacing(l).drop = {l.key} /\ Replacing(l).put = {l}
  BY DEF Replacing
<1>5. \A k \in Key : Dropping(k).drop = {k} /\ Dropping(k).put = {}
  BY DEF Dropping
<1>6. ASSUME NEW c \in Command PROVE c.put \subseteq Line /\ c.drop \subseteq Key
  BY <1>1, <1>3, <1>4, <1>5 DEF Command
<1>7. Nothing.put = {} /\ Nothing.drop = {}
  BY DEF Nothing
<1>8. QED
  BY <1>1, <1>2, <1>3, <1>6, <1>7

LEMMA CutType ==
  ASSUME TypeOK, NEW s \in Session, NEW next \in State, Cut(s, next)
  PROVE  /\ pc' \in [Session -> State] /\ pc'[s] = next
         /\ \A t \in Session \ {s} : pc'[t] = pc[t] \/ pc'[t] = "stale"
BY DEF TypeOK, Cut, State

LEMMA ShapeInit == Init => Shape
BY DEF Init, Shape, TypeOK, State

LEMMA AddShape ==
  ASSUME Shape, NEW s \in Session, NEW l \in Line, Add(s, l)
  PROVE  Shape'
<1>1. AnsweredFirst(l) \subseteq Line
  BY DEF AnsweredFirst
<1>2. /\ pc' \in [Session -> State] /\ pc' = [pc EXCEPT ![s] = "append"]
      /\ cmd' \in [Session -> Command \cup {Nothing}] /\ cmd' = [cmd EXCEPT ![s] = Adding(l)]
  BY CommandFacts DEF Shape, TypeOK, State, Add, Open
<1>3. TypeOK'
  BY <1>1, <1>2 DEF Shape, TypeOK, Add, Open
<1>4. QED
  BY <1>2, <1>3, CommandFacts DEF Shape, TypeOK

LEMMA RewriteShape ==
  ASSUME Shape, NEW s \in Session, NEW c \in Command, Rewrite(s, c)
  PROVE  Shape'
<1>1. Copied(s, c.drop) \subseteq Line /\ c.put \subseteq Line
  BY CommandFacts DEF Copied, Without, Shape, TypeOK
<1>2. /\ pc' \in [Session -> State] /\ pc' = [pc EXCEPT ![s] = "copied"]
      /\ cmd' \in [Session -> Command \cup {Nothing}] /\ cmd' = [cmd EXCEPT ![s] = c]
      /\ temp' \in [Session -> SUBSET Line]
  BY <1>1 DEF Shape, TypeOK, State, Rewrite
<1>3. TypeOK'
  BY <1>1, <1>2 DEF Shape, TypeOK, Rewrite, disk
<1>4. QED
  BY <1>2, <1>3 DEF Shape, TypeOK

LEMMA WriteShape ==
  ASSUME Shape, NEW s \in Session, Write(s)
  PROVE  Shape'
<1>1. /\ pc' \in [Session -> State] /\ pc' = [pc EXCEPT ![s] = "idle"]
      /\ cmd' \in [Session -> Command \cup {Nothing}] /\ cmd' = [cmd EXCEPT ![s] = Nothing]
  BY DEF Shape, TypeOK, State, Write
<1>2. cmd[s].put \subseteq Line /\ Without(acked, cmd[s].drop) \subseteq Line
  BY CommandFacts DEF Shape, TypeOK, Without
<1>3. TypeOK'
  BY <1>1, <1>2 DEF Shape, TypeOK, Write
<1>4. QED
  BY <1>1, <1>3 DEF Shape, TypeOK

LEMMA RemoveShape ==
  ASSUME Shape, NEW s \in Session, Remove(s)
  PROVE  Shape'
<1>1. pc' \in [Session -> State] /\ pc'[s] = "removed"
      /\ \A t \in Session \ {s} : pc'[t] = pc[t] \/ pc'[t] = "stale"
  BY CutType DEF Shape, Remove, State
<1>2. raced' \in BOOLEAN
  BY DEF Remove, Other, DropsNext, Shape, TypeOK
<1>3. TypeOK'
  BY <1>1, <1>2 DEF Shape, TypeOK, Remove
<1>4. QED
  BY <1>1, <1>3 DEF Shape, Remove

LEMMA RenameShape ==
  ASSUME Shape, NEW s \in Session, Rename(s)
  PROVE  Shape'
<1>1. /\ pc' \in [Session -> State] /\ pc'[s] \in {"idle", "renamed"}
      /\ \A t \in Session \ {s} : pc'[t] = pc[t] \/ pc'[t] = "stale"
  BY CutType DEF Shape, Rename, State
<1>2. /\ cmd' \in [Session -> Command \cup {Nothing}]
      /\ \A t \in Session \ {s} : cmd'[t] = cmd[t]
  BY DEF Shape, TypeOK, Rename
<1>3. acked' \subseteq Line
  BY DEF Shape, TypeOK, Rename, Without
<1>4. raced' \in BOOLEAN
  BY DEF Rename, Renamed, Other, Shape, TypeOK
<1>5. TypeOK'
  BY <1>1, <1>2, <1>3, <1>4 DEF Shape, TypeOK, Rename, Renamed
<1>6. QED
  BY <1>1, <1>2, <1>5 DEF Shape

LEMMA ReopenShape ==
  ASSUME Shape, NEW s \in Session, Reopen(s)
  PROVE  Shape'
<1>1. pc' \in [Session -> State] /\ pc' = [pc EXCEPT ![s] = "reopened"]
  BY DEF Shape, TypeOK, State, Reopen, Open
<1>2. QED
  BY <1>1 DEF Shape, TypeOK, Reopen, Open

LEMMA EndShape ==
  ASSUME Shape, NEW s \in Session,
         RewriteNothing(s) \/ Die(s) \/ Connect(s)
  PROVE  Shape'
<1>1. /\ pc' \in [Session -> State] /\ pc'[s] \in {"idle", "dead"}
      /\ \A t \in Session \ {s} : pc'[t] = pc[t] /\ cmd'[t] = cmd[t]
      /\ cmd' \in [Session -> Command \cup {Nothing}]
  BY DEF Shape, TypeOK, State, RewriteNothing, Die, Connect
<1>2. lost' \in BOOLEAN
  BY DEF Shape, TypeOK, RewriteNothing, Die, Connect, HalfDone
<1>3. TypeOK'
  BY <1>1, <1>2 DEF Shape, TypeOK, RewriteNothing, Die, Connect, disk
<1>4. QED
  BY <1>1, <1>3 DEF Shape

(* One step of Next, with its operands named. *)
LEMMA NextCases ==
  ASSUME Next, NEW P,
         \A s \in Session, l \in Line : Add(s, l) => P,
         \A s \in Session, c \in Command : Rewrite(s, c) => P,
         \A s \in Session : Write(s) \/ Remove(s) \/ Rename(s) \/ Reopen(s) => P,
         \A s \in Session : RewriteNothing(s) \/ Die(s) \/ Connect(s) => P
  PROVE  P
BY CommandFacts DEF Next, Continue

LEMMA ShapeNext ==
  ASSUME Shape, [Next]_vars
  PROVE  Shape'
<1>1. CASE Next
  BY <1>1, NextCases, AddShape, RewriteShape, WriteShape, RemoveShape, RenameShape,
     ReopenShape, EndShape
<1>2. CASE UNCHANGED vars
  BY <1>2 DEF vars, disk, Shape, TypeOK
<1>3. QED
  BY <1>1, <1>2

(***************************************************************************)
(* Whatever the processes do, and wherever they die, the file, the copies  *)
(* and the lines to append are sets of lines, and each process is where    *)
(* one of its file operations leaves it.                                   *)
(***************************************************************************)
THEOREM TypeCorrect == Spec => []TypeOK
<1>1. Shape => TypeOK
  BY DEF Shape
<1>2. QED
  BY <1>1, ShapeInit, ShapeNext, PTL DEF Spec

-----------------------------------------------------------------------------
(* What is sound. *)

LEMMA LinesInGap ==
  ASSUME NEW s \in Session, pc[s] = "removed", OneRewrites
  PROVE  Lines = Coming \cup temp[s]
<1>1. Rewritten = {s}
  BY DEF Rewritten, OneRewrites
<1>2. QED
  BY <1>1 DEF Lines

LEMMA LinesInGapNext ==
  ASSUME NEW s \in Session, pc'[s] = "removed", OneRewrites'
  PROVE  Lines' = Coming' \cup temp'[s]
<1>1. Rewritten' = {s}
  BY DEF Rewritten, OneRewrites
<1>2. QED
  BY <1>1 DEF Lines

(* What the processes other than s have still to append. *)
ComingOf(s) == IF HalfDone(s) THEN cmd[s].put ELSE {}
Rest(s) == UNION {cmd[t].put : t \in {u \in Session \ {s} : HalfDone(u)}}

OthersKept(s) == \A t \in Session \ {s} : pc'[t] = pc[t] /\ cmd'[t] = cmd[t]

LEMMA ComingParts ==
  ASSUME NEW s \in Session
  PROVE  Coming = Rest(s) \cup ComingOf(s) /\ Coming' = Rest(s)' \cup ComingOf(s)'
BY DEF Coming, Rest, ComingOf

LEMMA RestKept ==
  ASSUME NEW s \in Session, OthersKept(s)
  PROVE  Rest(s)' = Rest(s)
BY DEF OthersKept, Rest, HalfDone

PendingOf(s) == IF pc[s] \in {"append", "copied"} THEN {cmd[s]} ELSE {}

LEMMA PendingKept ==
  ASSUME Sound, Sound', NEW s \in Session, OthersKept(s)
  PROVE  /\ Pending' = [Pending EXCEPT ![s] = PendingOf(s)']
         /\ Pending[s] = PendingOf(s)
         /\ PendingOf(s)' = PendingOf(s) => Pending' = Pending
BY DEF Pending, PendingOf, OthersKept

(* The file's steps, as a LineStore takes them. *)
Idles == Lines' = Lines /\ Pending' = Pending
Given == \E s \in Session, c \in Command :
  Lines' = Lines /\ Pending[s] = {} /\ Pending' = [Pending EXCEPT ![s] = {c}]
Taken == \E s \in Session, c \in Command :
  /\ c \in Pending[s] /\ Lines' = Without(Lines, c.drop) \cup c.put
  /\ Pending' = [Pending EXCEPT ![s] = {}]
Abandoned == \E s \in Session : Lines' = Lines /\ Pending' = [Pending EXCEPT ![s] = {}]

StoreStep == Idles \/ Given \/ Taken \/ Abandoned

LEMMA AddSound ==
  ASSUME IInv, Sound', NEW s \in Session, NEW l \in Line, Add(s, l)
  PROVE  SoundInv' /\ StoreStep
<1>1. Sound /\ SoundInv
  BY DEF IInv, Sound, Add
<1>2. /\ pc \in [Session -> State] /\ pc' = [pc EXCEPT ![s] = "append"] /\ pc[s] = "idle"
      /\ cmd' = [cmd EXCEPT ![s] = Adding(l)] /\ cmd'[s] = Adding(l)
  BY DEF IInv, Shape, TypeOK, Add, Open
<1>3. Rewritten' = Rewritten
  BY <1>2 DEF Rewritten
<1>4. OthersKept(s) /\ ~HalfDone(s) /\ ~HalfDone(s)'
  BY <1>2 DEF OthersKept, HalfDone, IInv, Shape, TypeOK
<1>5. Coming' = Coming
  BY <1>4, ComingParts, RestKept DEF ComingOf
<1>6. Lines' = Lines /\ file' = file /\ temp' = temp
  BY <1>3, <1>5 DEF Lines, Add, Open
<1>7. Given
  <2>1. Pending[s] = {} /\ Pending' = [Pending EXCEPT ![s] = {Adding(l)}]
    BY <1>1, <1>2, <1>4, PendingKept DEF PendingOf
  <2>2. QED
    BY <1>6, <2>1, CommandFacts DEF Given
<1>8. \A m \in acked' : ~IsNode(m) => m \in acked
  BY DEF Add, AnsweredFirst
<1>9. OneRewrites'
  BY <1>1, <1>2 DEF OneRewrites, SoundInv
<1>10. CopiesCurrent'
  BY <1>1, <1>2, <1>3, <1>4, <1>6 DEF CopiesCurrent, SoundInv, OthersKept, Without
<1>11. AckedLeavesKept'
  <2>1. \A t \in Session : HalfDone(t) => HalfDone(t)' /\ cmd'[t] = cmd[t]
    BY <1>4 DEF OthersKept, HalfDone
  <2>2. QED
    BY <1>1, <1>6, <1>8, <2>1 DEF AckedLeavesKept, SoundInv, IsNode
<1>12. exists'
  BY DEF Add, Open
<1>13. \A t \in Session : pc'[t] # "stale"
  BY <1>1, <1>2 DEF SoundInv
<1>14. QED
  BY <1>7, <1>9, <1>10, <1>11, <1>12, <1>13 DEF SoundInv, StoreStep

LEMMA RewriteSound ==
  ASSUME IInv, Sound', NEW s \in Session, NEW c \in Command, Rewrite(s, c)
  PROVE  SoundInv' /\ StoreStep
<1>1. Sound /\ SoundInv
  BY DEF IInv, Sound, Rewrite
<1>2. /\ pc \in [Session -> State] /\ pc' = [pc EXCEPT ![s] = "copied"] /\ pc[s] = "idle"
      /\ cmd' = [cmd EXCEPT ![s] = c] /\ cmd'[s] = c
  BY DEF IInv, Shape, TypeOK, Rewrite
<1>3. Rewritten' = Rewritten /\ s \notin Rewritten
  BY <1>2 DEF Rewritten
<1>4. temp \in [Session -> SUBSET Line] /\ temp' = [temp EXCEPT ![s] = Without(file, c.drop)]
  BY DEF IInv, Shape, TypeOK, Rewrite, Copied
<1>5. exists' = exists /\ file' = file /\ acked' = acked
  BY DEF Rewrite, disk
<1>6. \A t \in Rewritten : temp'[t] = temp[t]
  BY <1>3, <1>4 DEF Rewritten
<1>7. OthersKept(s) /\ ~HalfDone(s) /\ ~HalfDone(s)'
  BY <1>2 DEF OthersKept, HalfDone, IInv, Shape, TypeOK
<1>8. Coming' = Coming
  BY <1>7, ComingParts, RestKept DEF ComingOf
<1>9. Lines' = Lines
  BY <1>3, <1>5, <1>6, <1>8 DEF Lines
<1>10. Given
  <2>1. Pending[s] = {} /\ Pending' = [Pending EXCEPT ![s] = {c}]
    BY <1>1, <1>2, <1>7, PendingKept DEF PendingOf
  <2>2. QED
    BY <1>9, <2>1 DEF Given
<1>11. OneRewrites'
  BY <1>1, <1>2 DEF OneRewrites, SoundInv
<1>12. CopiesCurrent'
  <2>1. SUFFICES ASSUME Rewritten' = {}, NEW t \in Session, pc'[t] = "copied"
                 PROVE  temp'[t] = Without(file', cmd'[t].drop)
    BY DEF CopiesCurrent, Without
  <2>2. CASE t = s
    BY <2>2, <1>2, <1>4, <1>5
  <2>3. CASE t # s
    <3>1. temp[t] = Without(file, cmd[t].drop)
      BY <1>1, <1>3, <1>7, <2>1, <2>3 DEF CopiesCurrent, SoundInv, OthersKept
    <3>2. QED
      BY <1>4, <1>5, <1>7, <2>3, <3>1 DEF OthersKept
  <2>4. QED
    BY <2>2, <2>3
<1>13. AckedLeavesKept'
  <2>1. \A t \in Session : HalfDone(t) => HalfDone(t)' /\ cmd'[t] = cmd[t]
    BY <1>7 DEF OthersKept, HalfDone
  <2>2. QED
    BY <1>1, <1>5, <1>9, <2>1 DEF AckedLeavesKept, SoundInv, IsNode
<1>14. \A t \in Session : pc'[t] # "stale"
  BY <1>1, <1>2 DEF SoundInv
<1>15. QED
  BY <1>1, <1>3, <1>5, <1>10, <1>11, <1>12, <1>13, <1>14 DEF SoundInv, StoreStep

LEMMA WriteSound ==
  ASSUME IInv, Sound', NEW s \in Session, Write(s)
  PROVE  SoundInv' /\ StoreStep
<1>1. Sound /\ SoundInv
  BY DEF IInv, Sound, Write
<1>2. /\ pc \in [Session -> State] /\ pc' = [pc EXCEPT ![s] = "idle"]
      /\ pc[s] \in {"append", "reopened"} /\ pc'[s] = "idle"
      /\ cmd' = [cmd EXCEPT ![s] = Nothing]
  BY <1>1 DEF IInv, Shape, TypeOK, Write, SoundInv, Appending
<1>3. \A t \in Session : pc[t] \notin {"copied", "removed"}
  BY <1>2 DEF Sound, Write, Other
<1>4. Rewritten = {} /\ Rewritten' = {}
  BY <1>2, <1>3 DEF Rewritten
<1>5. OthersKept(s) /\ ~HalfDone(s)'
  BY <1>2 DEF OthersKept, HalfDone, IInv, Shape, TypeOK
<1>6. Coming = Rest(s) \cup ComingOf(s) /\ Coming' = Rest(s)
  BY <1>5, ComingParts, RestKept DEF ComingOf
<1>7. /\ Lines = Coming \cup file /\ Lines' = Coming' \cup file \cup cmd[s].put
      /\ acked' = Without(acked, cmd[s].drop) \cup cmd[s].put /\ exists' = exists
  BY <1>2, <1>4 DEF Lines, Write
<1>8. StoreStep
  <2>1. CASE pc[s] = "append"
    <3>1. cmd[s] \in Command /\ cmd[s].drop = {} /\ ~HalfDone(s)
      BY <2>1 DEF IInv, Shape, HalfDone
    <3>2. Lines' = Without(Lines, cmd[s].drop) \cup cmd[s].put
      BY <1>6, <1>7, <3>1 DEF ComingOf, Without
    <3>3. cmd[s] \in Pending[s] /\ Pending' = [Pending EXCEPT ![s] = {}]
      BY <1>1, <1>2, <1>5, <2>1, PendingKept DEF PendingOf
    <3>4. QED
      BY <3>1, <3>2, <3>3 DEF StoreStep, Taken
  <2>2. CASE pc[s] = "reopened"
    <3>1. HalfDone(s)
      BY <2>2 DEF HalfDone
    <3>2. Lines' = Lines
      BY <1>6, <1>7, <3>1 DEF ComingOf
    <3>3. Pending' = Pending
      BY <1>1, <1>2, <1>5, <2>2, PendingKept DEF PendingOf
    <3>4. QED
      BY <3>2, <3>3 DEF StoreStep, Idles
  <2>3. QED
    BY <1>2, <2>1, <2>2
<1>9. OneRewrites' /\ CopiesCurrent'
  BY <1>2, <1>3 DEF OneRewrites, CopiesCurrent
<1>10. AckedLeavesKept'
  <2>1. Lines \subseteq Lines'
    BY <1>6, <1>7 DEF ComingOf
  <2>2. \A t \in Session \ {s} : HalfDone(t) => HalfDone(t)' /\ cmd'[t] = cmd[t]
    BY <1>5 DEF OthersKept, HalfDone
  <2>3. SUFFICES ASSUME NEW l \in acked', ~IsNode(l), l \notin Lines'
                 PROVE  \E t \in Session : HalfDone(t)' /\ l.key \in cmd'[t].drop
    BY DEF AckedLeavesKept, IsNode
  <2>4. l \in acked /\ l.key \notin cmd[s].drop
    BY <1>7, <2>3 DEF Without
  <2>5. PICK t \in Session : HalfDone(t) /\ l.key \in cmd[t].drop
    BY <1>1, <2>1, <2>3, <2>4 DEF AckedLeavesKept, SoundInv
  <2>6. QED
    BY <2>2, <2>4, <2>5
<1>11. \A t \in Session : pc'[t] # "stale"
  BY <1>1, <1>2 DEF SoundInv
<1>12. QED
  BY <1>1, <1>4, <1>7, <1>8, <1>9, <1>10, <1>11 DEF SoundInv

LEMMA RemoveSound ==
  ASSUME IInv, Sound', NEW s \in Session, Remove(s)
  PROVE  SoundInv' /\ StoreStep
<1>1. Sound /\ SoundInv /\ pc \in [Session -> State] /\ pc[s] = "copied" /\ cmd' = cmd
  BY DEF IInv, Shape, TypeOK, Sound, Remove
<1>2. /\ \A t \in Session \ {s} : pc[t] \notin {"append", "reopened", "copied", "removed"}
      /\ ~DropsNext(s)
  BY DEF Sound, Remove, Other, Appending
<1>3. pc'[s] = "removed" /\ \A t \in Session \ {s} : pc'[t] = pc[t]
  BY <1>2 DEF Remove, Cut, Appending
<1>4. Rewritten = {} /\ OneRewrites'
  BY <1>1, <1>2, <1>3 DEF Rewritten, OneRewrites
<1>5. temp[s] = Without(file, cmd[s].drop) /\ temp' = temp
  BY <1>1, <1>4 DEF CopiesCurrent, SoundInv, Remove
<1>6. OthersKept(s) /\ ~HalfDone(s) /\ HalfDone(s)'
  BY <1>1, <1>3 DEF OthersKept, HalfDone
<1>7. Coming = Rest(s) /\ Coming' = Rest(s) \cup cmd[s].put
  BY <1>1, <1>6, ComingParts, RestKept DEF ComingOf
<1>8. Without(Rest(s), cmd[s].drop) = Rest(s)
  <2>1. \A t \in Session \ {s} : HalfDone(t) => pc[t] = "renamed"
    BY <1>2 DEF HalfDone
  <2>2. \A l \in Rest(s) : l.key \notin cmd[s].drop
    BY <1>2, <2>1 DEF Rest, DropsNext
  <2>3. QED
    BY <2>2 DEF Without
<1>9. Lines = Coming \cup file /\ Lines' = Coming' \cup temp[s] /\ acked' = acked
  BY <1>3, <1>4, <1>5, LinesInGapNext DEF Lines, Remove
<1>10. Lines' = Without(Lines, cmd[s].drop) \cup cmd[s].put
  BY <1>5, <1>7, <1>8, <1>9 DEF Without
<1>11. Taken
  <2>1. cmd[s] \in Command
    BY <1>1 DEF IInv, Shape
  <2>2. cmd[s] \in Pending[s] /\ Pending' = [Pending EXCEPT ![s] = {}]
    BY <1>1, <1>3, <1>6, PendingKept DEF PendingOf
  <2>3. QED
    BY <1>10, <2>1, <2>2 DEF Taken
<1>12. AckedLeavesKept'
  <2>1. SUFFICES ASSUME NEW l \in acked', ~IsNode(l), l \notin Lines'
                 PROVE  \E t \in Session : HalfDone(t)' /\ l.key \in cmd'[t].drop
    BY DEF AckedLeavesKept, IsNode
  <2>2. CASE l \in Lines
    BY <1>1, <1>6, <1>10, <2>1, <2>2 DEF Without
  <2>3. CASE l \notin Lines
    <3>1. PICK t \in Session : HalfDone(t) /\ l.key \in cmd[t].drop
      BY <1>1, <1>9, <2>1, <2>3 DEF AckedLeavesKept, SoundInv
    <3>2. QED
      BY <1>1, <1>3, <1>6, <3>1 DEF HalfDone
  <2>4. QED
    BY <2>2, <2>3
<1>13. Rewritten' # {} /\ \A t \in Session : pc'[t] # "stale"
  BY <1>1, <1>3 DEF Rewritten, SoundInv
<1>14. CopiesCurrent'
  BY <1>13 DEF CopiesCurrent
<1>15. QED
  BY <1>4, <1>11, <1>12, <1>13, <1>14 DEF SoundInv, StoreStep

LEMMA RenameSound ==
  ASSUME IInv, Sound', NEW s \in Session, Rename(s)
  PROVE  SoundInv' /\ StoreStep
<1>1. Sound /\ SoundInv /\ pc \in [Session -> State] /\ pc[s] = "removed"
  BY DEF IInv, Shape, TypeOK, Sound, Rename, Renamed
<1>2. \A t \in Session \ {s} : pc[t] \notin {"append", "reopened", "copied", "removed"}
  BY <1>1 DEF Sound, Rename, Renamed, Other, SoundInv, OneRewrites, Appending
<1>3. pc'[s] \in {"idle", "renamed"} /\ \A t \in Session \ {s} : pc'[t] = pc[t]
  BY <1>2 DEF Rename, Cut, Appending
<1>4. Rewritten' = {} /\ OneRewrites' /\ CopiesCurrent'
  BY <1>2, <1>3 DEF Rewritten, OneRewrites, CopiesCurrent
<1>5. OthersKept(s) /\ HalfDone(s)
  BY <1>1, <1>3 DEF OthersKept, HalfDone, Rename, IInv, Shape, TypeOK
<1>6. \/ pc'[s] = "idle" /\ cmd[s].put = {} /\ acked' = Without(acked, cmd[s].drop)
      \/ pc'[s] = "renamed" /\ cmd' = cmd /\ acked' = acked
  BY DEF Rename, Cut
<1>7. ComingOf(s)' = ComingOf(s)
  BY <1>5, <1>6 DEF ComingOf, HalfDone
<1>8. Coming' = Coming
  BY <1>5, <1>7, ComingParts, RestKept
<1>9. Lines' = Lines
  BY <1>1, <1>4, <1>8, LinesInGap DEF Lines, Rename, Renamed, SoundInv
<1>10. Idles
  BY <1>1, <1>3, <1>5, <1>9, PendingKept DEF PendingOf, Idles
<1>11. AckedLeavesKept'
  <2>1. SUFFICES ASSUME NEW l \in acked', ~IsNode(l), l \notin Lines'
                 PROVE  \E t \in Session : HalfDone(t)' /\ l.key \in cmd'[t].drop
    BY DEF AckedLeavesKept, IsNode
  <2>2. PICK t \in Session : HalfDone(t) /\ l.key \in cmd[t].drop
    BY <1>1, <1>6, <1>9, <2>1 DEF AckedLeavesKept, SoundInv, Without
  <2>3. CASE t = s
    BY <1>6, <2>1, <2>2, <2>3 DEF HalfDone, Without
  <2>4. CASE t # s
    BY <1>5, <2>2, <2>4 DEF OthersKept, HalfDone
  <2>5. QED
    BY <2>3, <2>4
<1>12. exists' /\ \A t \in Session : pc'[t] # "stale"
  BY <1>1, <1>3 DEF SoundInv, Rename, Renamed
<1>13. QED
  BY <1>4, <1>10, <1>11, <1>12 DEF SoundInv, StoreStep

(* The steps that touch neither the file, nor a copy that is in use. *)
LEMMA QuietSound ==
  ASSUME IInv, Sound', NEW s \in Session,
         Reopen(s) \/ RewriteNothing(s) \/ Die(s) \/ Connect(s)
  PROVE  SoundInv' /\ StoreStep
<1>1. Sound /\ SoundInv /\ pc \in [Session -> State]
  BY DEF IInv, Shape, TypeOK, Sound, Reopen, RewriteNothing, Die, Connect, disk
<1>2. /\ pc[s] # "removed" /\ pc'[s] \in {"reopened", "dead", "idle"}
      /\ HalfDone(s)' = HalfDone(s)
      /\ HalfDone(s) => cmd' = cmd
      /\ OthersKept(s)
  <2>1. OthersKept(s) /\ pc \in [Session -> State]
    BY DEF Reopen, Open, RewriteNothing, Die, Connect, OthersKept, IInv, Shape, TypeOK
  <2>2. CASE Reopen(s)
    BY <2>1, <2>2 DEF Reopen, Open, HalfDone
  <2>3. CASE RewriteNothing(s) \/ Connect(s)
    BY <2>1, <2>3 DEF RewriteNothing, Connect, HalfDone
  <2>4. CASE Die(s)
    <3>1. ~HalfDone(s) /\ pc'[s] = "dead"
      BY <2>1, <2>4 DEF Die, Sound
    <3>2. QED
      BY <2>1, <3>1 DEF HalfDone
  <2>5. QED
    BY <2>2, <2>3, <2>4
<1>3. \A t \in Session \ {s} : temp'[t] = temp[t]
  BY DEF IInv, Shape, TypeOK, Reopen, RewriteNothing, Die, Connect
<1>4. file' = file /\ acked' = acked /\ (exists => exists')
  BY DEF Reopen, Open, RewriteNothing, Die, Connect, disk
<1>5. Rewritten' = Rewritten /\ s \notin Rewritten
  BY <1>2 DEF Rewritten, OthersKept
<1>6. \A t \in Rewritten : temp'[t] = temp[t]
  BY <1>3, <1>5 DEF Rewritten
<1>7. Coming' = Coming
  BY <1>2, ComingParts, RestKept DEF ComingOf
<1>8. Lines' = Lines
  BY <1>4, <1>5, <1>6, <1>7 DEF Lines
<1>9. Abandoned
  BY <1>1, <1>2, <1>8, PendingKept DEF PendingOf, Abandoned
<1>10. OneRewrites'
  BY <1>1, <1>2 DEF OneRewrites, SoundInv, OthersKept
<1>11. CopiesCurrent'
  BY <1>1, <1>2, <1>3, <1>4, <1>5 DEF CopiesCurrent, SoundInv, Without, OthersKept
<1>12. AckedLeavesKept'
  <2>1. \A t \in Session : HalfDone(t) => HalfDone(t)' /\ cmd'[t] = cmd[t]
    BY <1>2 DEF OthersKept, HalfDone
  <2>2. QED
    BY <1>1, <1>4, <1>8, <2>1 DEF AckedLeavesKept, SoundInv, IsNode
<1>13. \A t \in Session : pc'[t] # "stale"
  BY <1>1, <1>2 DEF SoundInv, OthersKept
<1>14. QED
  BY <1>1, <1>4, <1>5, <1>9, <1>10, <1>11, <1>12, <1>13 DEF SoundInv, StoreStep

LEMMA SoundInit == Init => IInv
<1>1. ASSUME Init PROVE SoundInv
  BY <1>1 DEF Init, SoundInv, OneRewrites, CopiesCurrent, AckedLeavesKept, Rewritten
<1>2. QED
  BY <1>1, ShapeInit DEF IInv

(* Each step keeps the invariant, and is a step of a LineStore. *)
LEMMA SoundNext ==
  ASSUME IInv, [Next]_vars
  PROVE  IInv' /\ (Sound' => Sound /\ StoreStep)
<1>1. Shape'
  BY ShapeNext DEF IInv
<1>2. CASE Next
  <2>1. ASSUME Sound' PROVE SoundInv' /\ StoreStep
    BY <1>2, <2>1, NextCases, AddSound, RewriteSound, WriteSound, RemoveSound,
       RenameSound, QuietSound
  <2>2. Sound' => Sound
    <3>1. raced \in BOOLEAN /\ lost \in BOOLEAN
      BY DEF IInv, Shape, TypeOK
    <3>2. (raced => raced') /\ (lost => lost')
      BY <1>2, <3>1, NextCases DEF Add, Rewrite, Write, Remove, Rename, Reopen,
         RewriteNothing, Die, Connect, Renamed
    <3>3. QED
      BY <3>1, <3>2 DEF Sound
  <2>3. QED
    BY <1>1, <2>1, <2>2 DEF IInv
<1>3. CASE UNCHANGED vars
  BY <1>1, <1>3 DEF IInv, SoundInv, OneRewrites, CopiesCurrent, AckedLeavesKept, Sound,
     Rewritten, Lines, Coming, HalfDone, Pending, StoreStep, Idles, vars, disk
<1>4. QED
  BY <1>2, <1>3

(***************************************************************************)
(* A leaf that was answered OK stays in the file until a command that      *)
(* drops its key is answered, or is half way: whatever add_leaf,           *)
(* update_leaf and the rewrites of several sessions do at once, and        *)
(* wherever they die, until the file stops being sound.                    *)
(***************************************************************************)
THEOREM AckedLeaves == Spec => []AckedLeavesKept
<1>1. IInv => AckedLeavesKept
  BY DEF IInv, SoundInv, AckedLeavesKept
<1>2. QED
  BY <1>1, SoundInit, SoundNext, PTL DEF Spec

LEMMA StoreStepIsStore ==
  ASSUME Sound, Sound', StoreStep
  PROVE  [Store!Next]_<<IF Sound THEN Lines ELSE {}, Pending, Sound>>
<1>1. Store!Command = Command
  BY DEF Store!Command, Command, Store!Line, Line, Adding, Dropping, Replacing
<1>2. CASE Idles
  BY <1>2 DEF Idles
<1>3. CASE Given
  BY <1>1, <1>3 DEF Given, Store!Next, Store!Give
<1>4. CASE Taken
  BY <1>1, <1>4 DEF Taken, Store!Next, Store!Take, Without
<1>5. CASE Abandoned
  BY <1>5 DEF Abandoned, Store!Next, Store!Abandon
<1>6. QED
  BY <1>2, <1>3, <1>4, <1>5 DEF StoreStep

(***************************************************************************)
(* The file operations of utils.c, as tree.c calls them, implement a       *)
(* LineStore: each command, update_leaf's two rewrites and appends         *)
(* included, takes effect in one step between its first file operation and *)
(* its last, or not at all.                                                *)
(***************************************************************************)
THEOREM ImplementsLineStore == Spec => LineStoreSpec
<1>1. Init => Store!Init
  BY DEF Init, Store!Init, Sound, Lines, Rewritten, Coming, HalfDone, Pending
<1>2. IInv /\ [Next]_vars => [Store!Next]_<<IF Sound THEN Lines ELSE {}, Pending, Sound>>
  <2>1. SUFFICES ASSUME IInv, [Next]_vars
                 PROVE  [Store!Next]_<<IF Sound THEN Lines ELSE {}, Pending, Sound>>
    OBVIOUS
  <2>2. CASE Sound'
    BY <2>1, <2>2, SoundNext, StoreStepIsStore
  <2>3. CASE ~Sound'
    BY <2>3 DEF Store!Next, Store!Break, Sound, Pending
  <2>4. QED
    BY <2>2, <2>3
<1>3. QED
  BY <1>1, <1>2, SoundInit, SoundNext, PTL DEF Spec, LineStoreSpec, Store!Spec
=============================================================================
