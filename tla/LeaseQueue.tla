----------------------------- MODULE LeaseQueue -----------------------------
(***************************************************************************)
(* What an rsmq queue promises, with neither clock, scores nor Redis: a    *)
(* message is handed out only while it is visible, receiving it hides it   *)
(* for a while, and once its sender is done with it a message that left    *)
(* the queue never comes back.  While the send is still open the sender's  *)
(* client may put the message in again, because it repeats a pipeline      *)
(* whose reply it lost.                                                    *)
(***************************************************************************)
EXTENDS Naturals

CONSTANT Uids   \* the messages

VARIABLES
  status,    \* where each message is
  open,      \* the messages whose send has not ended
  handed     \* how often each message was handed to a caller

absvars == <<status, open, handed>>

Status == {"unsent", "visible", "hidden", "gone"}

Queued(u) == status[u] \in {"visible", "hidden"}

LTypeOK ==
  /\ status \in [Uids -> Status]
  /\ open \subseteq Uids
  /\ handed \in [Uids -> Nat]

LInit ==
  /\ status = [u \in Uids |-> "unsent"]
  /\ open = {}
  /\ handed = [u \in Uids |-> 0]

(* A send puts its message in the queue, visible now or after the delay. *)
Put(u) ==
  /\ status[u] = "unsent" \/ u \in open
  /\ \E s \in {"visible", "hidden"} : status' = [status EXCEPT ![u] = s]
  /\ open' = open \cup {u}
  /\ UNCHANGED handed

(* The send ends: its caller got the identifier, or an error. *)
Close(u) ==
  /\ open' = open \ {u}
  /\ UNCHANGED <<status, handed>>

(* A visible message is received.  A timeout that is already over when the *)
(* message is handed out leaves it visible.                                *)
Deliver(u) ==
  /\ status[u] = "visible"
  /\ \E s \in {"visible", "hidden"} : status' = [status EXCEPT ![u] = s]
  /\ handed' = [handed EXCEPT ![u] = @ + 1]
  /\ UNCHANGED open

(* A visible message is popped. *)
Take(u) ==
  /\ status[u] = "visible"
  /\ status' = [status EXCEPT ![u] = "gone"]
  /\ handed' = [handed EXCEPT ![u] = @ + 1]
  /\ UNCHANGED open

(* A queued message's visibility is changed. *)
Hide(u) ==
  /\ Queued(u)
  /\ \E s \in {"visible", "hidden"} : status' = [status EXCEPT ![u] = s]
  /\ UNCHANGED <<open, handed>>

(* A queued message is deleted. *)
Remove(u) ==
  /\ Queued(u)
  /\ status' = [status EXCEPT ![u] = "gone"]
  /\ UNCHANGED <<open, handed>>

(* The queue is deleted, with all that is in it. *)
Clear ==
  /\ status' = [u \in Uids |-> IF Queued(u) THEN "gone" ELSE status[u]]
  /\ UNCHANGED <<open, handed>>

(* Time passes: some timeouts run out. *)
Expire ==
  /\ \E S \in SUBSET {u \in Uids : status[u] = "hidden"} :
       status' = [u \in Uids |-> IF u \in S THEN "visible" ELSE status[u]]
  /\ UNCHANGED <<open, handed>>

LNext ==
  \/ Clear
  \/ Expire
  \/ \E u \in Uids :
       Put(u) \/ Close(u) \/ Deliver(u) \/ Take(u) \/ Hide(u) \/ Remove(u)

LSpec == LInit /\ [][LNext]_absvars

=============================================================================
