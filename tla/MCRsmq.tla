------------------------------- MODULE MCRsmq -------------------------------
(* Small instances of Rsmq for TLC: who calls what, and the options used.  *)
EXTENDS Rsmq, TLC

CONSTANTS p, q, r   \* the clients

Callers == {p, q, r}

(* One client sends; two work on the message, one of them changes the      *)
(* visibility of what it may no longer hold, the other deletes it.  The    *)
(* timeout is changed, and the queue created anew, under them.             *)
LeaseMenu ==
  p :> {"SendMessage", "SetQueueAttributes", "CreateQueue"}
  @@ q :> {"ReceiveMessage", "ChangeMessageVisibility"}
  @@ r :> {"ReceiveMessage", "DeleteMessage"}

(* Two clients send at once and a third receives and pops; the queue is    *)
(* deleted and created again under them.                                   *)
OrderMenu ==
  p :> {"SendMessage", "DeleteQueue"}
  @@ q :> {"SendMessage", "CreateQueue"}
  @@ r :> {"ReceiveMessage", "PopMessage"}

(* One client sends, and two only receive. *)
ReceiveMenu ==
  p :> {"SendMessage"}
  @@ q :> {"ReceiveMessage"}
  @@ r :> {"ReceiveMessage"}

(* Everything a client may do to one message, under lost replies.          *)
FaultMenu ==
  p :> {"SendMessage"}
  @@ q :> {"ReceiveMessage", "ChangeMessageVisibility"}
  @@ r :> {"ReceiveMessage", "DeleteMessage", "PopMessage"}

(* The queue itself is created, reconfigured and deleted under its users.  *)
AdminMenu ==
  p :> {"SendMessage", "ReceiveMessage"}
  @@ q :> {"CreateQueue", "DeleteQueue"}
  @@ r :> {"SetQueueAttributes", "PopMessage"}

NoChange == [vt |-> Nil, delay |-> Nil, maxsize |-> Nil]

NoChanges == {NoChange}
NoTimeout == {[NoChange EXCEPT !.vt = 0]}
SomeChanges == {[NoChange EXCEPT !.vt = 0, !.delay = 1],
                [NoChange EXCEPT !.maxsize = 0]}

OwnOrLongVT == {Nil, 2}   \* 2 s overflow the lease run's durations
OwnVT == {Nil}

=============================================================================
