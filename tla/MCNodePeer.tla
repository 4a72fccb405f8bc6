----------------------------- MODULE MCNodePeer -----------------------------
(* Small instances of NodePeer for TLC: the Node.js program n beside Go    *)
(* clients that do everything to the queue, or alone.                      *)
EXTENDS NodePeer, TLC

CONSTANTS p, q, n   \* the clients

Beside == {p, q, n}

BesideMenu ==
  p :> {"SendMessage", "PopMessage"}
  @@ q :> {"CreateQueue", "DeleteQueue", "SetQueueAttributes"}
  @@ n :> {}

Alone == {n}
AloneMenu == n :> {}

NoChange == [vt |-> Nil, delay |-> Nil, maxsize |-> Nil]
SomeChanges == {[NoChange EXCEPT !.vt = 0, !.delay = 1],
                [NoChange EXCEPT !.maxsize = 0]}
OwnVT == {Nil}

=============================================================================
