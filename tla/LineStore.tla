------------------------------ MODULE LineStore -------------------------------
(***************************************************************************)
(* What a database's file promises: a command a session is given drops the *)
(* lines of its key and adds its line in one step, or does neither, until  *)
(* two commands have got into each other's way or a process has died half  *)
(* way, and then nothing.                                                  *)
(***************************************************************************)
CONSTANTS Session, Key, Value

VARIABLES
  lines,
  pending, \* the command each session has been given and has not carried out, if any
  sound

Line == [key : Key, value : Value]

Command ==
  {[drop |-> {}, put |-> {l}] : l \in Line}
    \cup {[drop |-> {k}, put |-> {}] : k \in Key}
    \cup {[drop |-> {l.key}, put |-> {l}] : l \in Line}

Init == lines = {} /\ pending = [s \in Session |-> {}] /\ sound = TRUE

Give(s, c) ==
  /\ sound /\ pending[s] = {}
  /\ pending' = [pending EXCEPT ![s] = {c}]
  /\ UNCHANGED <<lines, sound>>

Take(s, c) ==
  /\ sound /\ c \in pending[s]
  /\ lines' = {l \in lines : l.key \notin c.drop} \cup c.put
  /\ pending' = [pending EXCEPT ![s] = {}]
  /\ UNCHANGED sound

(* The session ends before its command has had any effect. *)
Abandon(s) ==
  /\ sound /\ pending' = [pending EXCEPT ![s] = {}]
  /\ UNCHANGED <<lines, sound>>

Break == sound' = FALSE /\ lines' = {} /\ pending' = [s \in Session |-> {}]

Next ==
  \/ Break
  \/ \E s \in Session : Abandon(s) \/ \E c \in Command : Give(s, c) \/ Take(s, c)

Spec == Init /\ [][Next]_<<lines, pending, sound>>
=============================================================================
