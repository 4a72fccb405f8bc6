------------------------------ MODULE Sessions ------------------------------
(***************************************************************************)
(* Clients that come and go, and a Redis that forgets its scripts.  New    *)
(* loads the three Lua scripts, one command each, and keeps their hashes;  *)
(* the methods of Rsmq run them by hash alone (EVALSHA).  Redis keeps the  *)
(* scripts in memory, for all clients, until it restarts or is told to     *)
(* flush them; the queue itself is persistent.                             *)
(***************************************************************************)
EXTENDS Rsmq

VARIABLES
  session,   \* each client: none, the script New loads next, or ready
  scripts,   \* the scripts Redis has
  lost       \* clients whose New began before Redis last lost its scripts

sessvars == <<session, scripts, lost>>

Scripts == {"pop", "receive", "hide"}

SessionInit ==
  /\ session = [c \in Clients |-> "none"]
  /\ scripts = {}
  /\ lost = {}

(* Mutant: initScripts forgets the third script. *)
After_two(s) == IF s = "pop" THEN "receive" ELSE "ready"

(* The order in which initScripts loads. *)
After(s) == CASE s = "pop"     -> "receive"
              [] s = "receive" -> "hide"
              [] s = "hide"    -> "ready"

New(c) ==
  /\ session[c] = "none"
  /\ session' = [session EXCEPT ![c] = "pop"]
  /\ lost' = lost \ {c}
  /\ UNCHANGED <<vars, scripts>>

ScriptLoad(c) ==
  /\ session[c] \in Scripts
  /\ session' = [session EXCEPT ![c] = After(session[c])]
  /\ scripts' = scripts \cup {session[c]}
  /\ UNCHANGED <<vars, lost>>

(* initScripts returns at the first error, and New returns no client. *)
NewFails(c) ==
  /\ session[c] \in Scripts
  /\ faults < MaxFaults
  /\ faults' = faults + 1
  /\ session' = [session EXCEPT ![c] = "none"]
  /\ UNCHANGED <<store, now, call, calls, held, hist, scripts, lost>>

(* Close is also called under a running call, as Quit does; the call then  *)
(* ends in an error.                                                       *)
Close(c) ==
  /\ session[c] = "ready"
  /\ Fail(c) \/ (call[c] = Idle /\ UNCHANGED vars)
  /\ session' = [session EXCEPT ![c] = "none"]
  /\ UNCHANGED <<scripts, lost>>

(* A restart, or SCRIPT FLUSH. *)
ScriptsLost ==
  /\ faults < MaxFaults
  /\ faults' = faults + 1
  /\ scripts' = {}
  /\ lost' = {c \in Clients : session[c] # "none"}
  /\ UNCHANGED <<store, now, call, calls, held, hist, session>>

(* The script a method runs. *)
ScriptOf(op) == CASE op = "ReceiveMessage"          -> "receive"
                  [] op = "PopMessage"              -> "pop"
                  [] op = "ChangeMessageVisibility" -> "hide"

Missing(c) == call[c].pc = "evalsha" /\ ScriptOf(call[c].op) \notin scripts

(* EVALSHA answers NOSCRIPT and the call returns the error. *)
NoScript(c) ==
  /\ Missing(c)
  /\ Return(c)
  /\ UNCHANGED <<store, now, held, hist, sessvars>>

(* A call needs a client from New, and a script that is there. *)
Works(c) ==
  /\ \/ session[c] = "ready" /\ Begins(c)
     \/ ~Missing(c) /\ Evaluates(c)
     \/ Proceeds(c)
  /\ UNCHANGED sessvars

SessionNext(c) ==
  \/ New(c)
  \/ ScriptLoad(c)
  \/ NewFails(c)
  \/ Close(c)
  \/ NoScript(c)
  \/ Works(c)

-----------------------------------------------------------------------------
(* Properties.                                                             *)

(* Unless Redis lost its scripts after a ready client's New began, all its *)
(* scripts are there, so that no EVALSHA of its fails for lack of one: not *)
(* while others load, close or fail to start, and not because Redis lost   *)
(* its scripts before.                                                     *)
ScriptsStay ==
  \A c \in Clients : session[c] = "ready" /\ c \notin lost => Scripts \subseteq scripts

=============================================================================
