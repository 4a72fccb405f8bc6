----------------------------- MODULE MCService ------------------------------
(* A small instance of Service for TLC: a client that works on messages,   *)
(* one that administers the queue, and a reader of reports.                *)
EXTENDS Service, TLC

CONSTANTS p, q, o   \* the clients and the reader

Callers == {p, q}

ServiceMenu ==
  p :> {"SendMessage", "PopMessage"}
  @@ q :> {"CreateQueue", "SetQueueAttributes", "DeleteQueue", "ReceiveMessage"}

NoChange == [vt |-> Nil, delay |-> Nil, maxsize |-> Nil]
SomeChanges == {[vt |-> 0, delay |-> 1, maxsize |-> 0]}
OwnVT == {Nil}

=============================================================================
