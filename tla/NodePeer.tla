------------------------------ MODULE NodePeer ------------------------------
(***************************************************************************)
(* contrib/nodejs_peer/index.js: a Node.js program that uses the npm       *)
(* package rsmq on the queue the Go clients of Rsmq work on.               *)
(*                                                                         *)
(* The script makes its four calls at once and waits for none of them; the *)
(* package answers each through a callback.  The package is external.  It  *)
(* has one connection, on which Redis takes the requests in the order they *)
(* were written and sends the replies back in that order, and each call    *)
(* writes its next request when the reply to its last one is read.  Its    *)
(* writes are MULTI transactions, each one atomic step here.               *)
(***************************************************************************)
EXTENDS Rsmq, Sequences

CONSTANTS
  Peer,        \* the program, as a client of the queue
  HelloWorld   \* the length of the text it sends

ASSUME PeerAssumption ==
  /\ Peer \in Clients
  /\ Menu[Peer] = {}
  /\ HelloWorld \in Nat

VARIABLES
  wire,      \* requests Redis has not taken yet
  replies,   \* replies the program has not read yet
  console    \* what the callbacks printed, one entry for each that ran

peervars == <<wire, replies, console>>
nvars == <<vars, peervars>>

(* Mutant: the message is received before it is sent. *)
Script_receiveFirst ==
  <<"createQueue", "getQueueAttributes", "receiveMessage", "sendMessage">>

(* Mutant: the queue is created after the first look at it. *)
Script_createLater ==
  <<"getQueueAttributes", "createQueue", "sendMessage", "receiveMessage">>

(* The calls the script makes, in its order. *)
Script == <<"createQueue", "getQueueAttributes", "sendMessage", "receiveMessage">>

(* The requests of each of the package's calls.  "lookup" is a transaction *)
(* of HMGET and TIME, "enqueue" of ZADD, HSET and HINCRBY.                 *)
Requests ==
  [createQueue        |-> <<"time", "hsetnx", "sadd">>,
   getQueueAttributes |-> <<"time", "stats">>,
   sendMessage        |-> <<"lookup", "enqueue">>,
   receiveMessage     |-> <<"lookup", "evalsha">>]

Calls == DOMAIN Requests

Command(m) == Requests[m.of][m.i]

(* A request or a reply: call of, its i-th request, what the call knows so *)
(* far (k, as in Rsmq), and whether it is refused or lost.                 *)
First(of) ==
  [of |-> of, i |-> 1, err |-> "none",
   k |-> [Idle EXCEPT !.len = IF of = "sendMessage" THEN HelloWorld ELSE Nil]]

Message == [of : Calls, i : 1..3, err : {"none", "refused", "lost"}, k : CallType]

NInit ==
  /\ Init
  /\ wire = [n \in DOMAIN Script |-> First(Script[n])]
  /\ replies = <<>>
  /\ console = <<>>

-----------------------------------------------------------------------------
(* Redis.                                                                  *)

Serves(cmd) ==
  /\ wire # <<>>
  /\ Command(Head(wire)) = cmd
  /\ wire' = Tail(wire)

Replies(err, k) ==
  /\ replies' = Append(replies, [Head(wire) EXCEPT !.err = err, !.k = k])
  /\ UNCHANGED <<console, call, calls, faults, now>>

Check(found) == IF found THEN "none" ELSE "refused"

ServeTime ==
  /\ Serves("time")
  /\ Replies("none", Head(wire).k)
  /\ UNCHANGED <<store, held, hist>>

(* createQueue keeps the attributes of a queue that exists: queueExists. *)
ServeHSetNX ==
  /\ Serves("hsetnx")
  /\ attrs' = IF attrs = Nil THEN DefaultAttrs ELSE attrs
  /\ Replies(Check(attrs = Nil), Head(wire).k)
  /\ UNCHANGED <<listed, zset, body, rc, fr, totalrecv, totalsent, held, hist>>

ServeSAdd ==
  /\ Serves("sadd")
  /\ listed' = TRUE
  /\ Replies("none", Head(wire).k)
  /\ UNCHANGED <<attrs, zset, body, rc, fr, totalrecv, totalsent, held, hist>>

(* queueNotFound, or the numbers to print. *)
ServeStats ==
  /\ Serves("stats")
  /\ Replies(Check(attrs # Nil), Head(wire).k)
  /\ UNCHANGED <<store, held, hist>>

(* queueNotFound, messageTooLong, or the time and the attributes. *)
ServeLookup ==
  /\ Serves("lookup")
  /\ LET k == [Head(wire).k EXCEPT !.t = now, !.q = attrs]
     IN Replies(Check(attrs # Nil /\ (k.len = Nil \/ k.len <= attrs.maxsize)), k)
  /\ UNCHANGED <<store, held, hist>>

(* Mutant: ZADD without the HSET of the text. *)
ServeEnqueue_textless ==
  LET k == Head(wire).k
  IN /\ Serves("enqueue")
     /\ \E u \in Uids :
          /\ NewUID(u)
          /\ zset' = [zset EXCEPT ![u] = Ms(k.t + Seconds(k.q.delay))]
          /\ hist' = [hist EXCEPT ![u] = [@ EXCEPT !.st = "sending", !.len = k.len, !.at = k.t]]
          /\ Replies("none", [k EXCEPT !.uid = u])
     /\ totalsent' = totalsent + 1
     /\ UNCHANGED <<listed, attrs, body, rc, fr, totalrecv, held>>

(* The package takes the delay in seconds; it draws the identifier as the  *)
(* Go client does.                                                         *)
ServeEnqueue ==
  LET k == Head(wire).k
  IN /\ Serves("enqueue")
     /\ \E u \in Uids :
          /\ NewUID(u)
          /\ zset' = [zset EXCEPT ![u] = Ms(k.t + Seconds(k.q.delay))]
          /\ body' = [body EXCEPT ![u] = k.len]
          /\ hist' = [hist EXCEPT ![u] = [@ EXCEPT !.st = "sending", !.len = k.len, !.at = k.t]]
          /\ Replies("none", [k EXCEPT !.uid = u])
     /\ totalsent' = totalsent + 1
     /\ UNCHANGED <<listed, attrs, rc, fr, totalrecv, held>>

(* The package's receive script is the one q/scripts.go has.  It returns a *)
(* message whose text is not stored yet, too, with a null text.            *)
ServeReceive ==
  LET k == Head(wire).k
  IN /\ Serves("evalsha")
     /\ \/ \E u \in Uids :
             /\ ReceiveScript(u, TimeSentUnix(k), TimeVisibilityExpiresUnix(k, Nil))
             /\ hist' = Handed(u, TimeSentUnix(k), hist[u].fate)
             /\ held' = [held EXCEPT ![Peer] = Unmarshal(k, u)]
             /\ Replies("none", [k EXCEPT !.uid = u])
        \/ /\ Visible(TimeSentUnix(k)) = {}
           /\ Replies("none", k)
           /\ UNCHANGED <<store, held, hist>>

-----------------------------------------------------------------------------
(* The program.                                                            *)

Prints(m, says) == [of |-> m.of, err |-> m.err, k |-> m.k, says |-> says]

CreateQueueCallback(m) ==
  Prints(m, IF m.err = "none" THEN "queue created" ELSE "error")

GetQueueAttributesCallback(m) ==
  Prints(m, IF m.err = "none" THEN "stats" ELSE "error")

SendMessageCallback(m) ==
  Prints(m, IF m.err = "none" THEN "id" ELSE "typeof err")

ReceiveMessageCallback(m) ==
  Prints(m, IF m.err # "none" THEN "error"
            ELSE IF m.k.uid # Nil THEN "message" ELSE "nothing")

Callback(m) ==
  CASE m.of = "createQueue"        -> CreateQueueCallback(m)
    [] m.of = "getQueueAttributes" -> GetQueueAttributesCallback(m)
    [] m.of = "sendMessage"        -> SendMessageCallback(m)
    [] m.of = "receiveMessage"     -> ReceiveMessageCallback(m)

(* The reply ends its call. *)
Final(m) == m.err # "none" \/ m.i = Len(Requests[m.of])

(* The package reads a reply and writes the call's next request. *)
GoOn ==
  /\ replies # <<>>
  /\ ~Final(Head(replies))
  /\ replies' = Tail(replies)
  /\ wire' = Append(wire, [Head(replies) EXCEPT !.i = Head(replies).i + 1])
  /\ UNCHANGED <<vars, console>>

(* The package reads the last reply of a call and runs its callback. *)
RunCallback ==
  LET m == Head(replies)
  IN /\ replies # <<>>
     /\ Final(m)
     /\ replies' = Tail(replies)
     /\ console' = Append(console, Callback(m))
     /\ hist' = IF m.of = "sendMessage" /\ m.err = "none"
                THEN [hist EXCEPT ![m.k.uid].st = "sent"] ELSE hist
     /\ UNCHANGED <<store, now, call, calls, faults, held, wire>>

(* Mutant: the calls whose reply came in but was not read are forgotten. *)
InFlight_unanswered == wire

InFlight == replies \o wire

(* The connection breaks: every call in flight ends in an error, and what  *)
(* Redis did for it stays done.  The script makes no further call.         *)
ConnectionLost ==
  LET open == InFlight
  IN /\ open # <<>>
     /\ wire' = <<>>
     /\ replies' = <<>>
     /\ console' = console \o [n \in DOMAIN open |-> Callback([open[n] EXCEPT !.err = "lost"])]
     /\ hist' = [u \in Uids |->
                   IF \E n \in DOMAIN replies : /\ replies[n].of = "sendMessage"
                                                /\ replies[n].k.uid = u
                   THEN [hist[u] EXCEPT !.st = "failed"] ELSE hist[u]]
     /\ UNCHANGED <<store, now, call, calls, faults, held>>

-----------------------------------------------------------------------------
Redis ==
  \/ ServeTime
  \/ ServeHSetNX
  \/ ServeSAdd
  \/ ServeStats
  \/ ServeLookup
  \/ ServeEnqueue
  \/ ServeReceive

PeerNext == Redis \/ GoOn \/ RunCallback \/ ConnectionLost

NNext == PeerNext \/ (Next /\ UNCHANGED peervars)

(* Redis and the event loop do not both stop while one of them has work.   *)
NSpec == NInit /\ [][NNext]_nvars /\ WF_nvars(Redis \/ GoOn \/ RunCallback)

-----------------------------------------------------------------------------
(* Properties.                                                             *)

Said(of, says) == \E n \in DOMAIN console : console[n].of = of /\ console[n].says = says

(* Though the script waits for no answer, its calls take effect in the     *)
(* order it makes them: the statistics find the queue that the call before *)
(* them creates, and the receive finds the message that the call before it *)
(* sends without a delay, unless another client received, deleted or       *)
(* cleared that message first.                                             *)
CallsInOrder ==
  \A n \in DOMAIN console :
    /\ console[n].of = "getQueueAttributes" => console[n].err # "refused"
    /\ console[n].says = "id" /\ console[n].k.q.delay = 0
         /\ Said("receiveMessage", "nothing")
       => LET h == hist[console[n].k.uid] IN h.got > 0 \/ h.fate # "none"

(* What succeeds is printed in the order of the calls, but for "queue      *)
(* created", which may come late.                                          *)
ReadsInOrder ==
  /\ \A n \in DOMAIN console : console[n].says \in {"id", "message", "nothing"} =>
       \E i \in 1..(n - 1) : console[i].of = "getQueueAttributes"
  /\ \A i, n \in DOMAIN console :
       console[i].of = "receiveMessage" /\ console[i].err = "none"
         /\ console[n].of = "sendMessage" => n < i

(* Bound: Uids has no identifier left to draw. *)
OutOfUids ==
  /\ wire # <<>>
  /\ Command(Head(wire)) = "enqueue"
  /\ ~\E u \in Uids : NewUID(u)

(* Every call gets exactly one answer, also when the connection breaks     *)
(* under it, as long as Redis and the event loop go on.                    *)
EachAnsweredOnce ==
  <>[](OutOfUids \/ \A of \in Calls : \E n \in DOMAIN console :
                      \A i \in DOMAIN console : console[i].of = of <=> i = n)

(* contrib/nodejs_peer/index.js:40: when sendMessage is refused the queue  *)
(* probably exists already.  Then this run did not create it.              *)
SendErrorMeansQueueExists ==
  \A n \in DOMAIN console :
    console[n].says = "typeof err" /\ console[n].err = "refused" =>
      ~Said("createQueue", "queue created")

-----------------------------------------------------------------------------
(* The inductive invariant behind the promise the queue keeps its users,   *)
(* the Node.js program among them.                                         *)

(* What a request carries, and a reply. *)
RequestOK(m) ==
  /\ m.i \in DOMAIN Requests[m.of]
  /\ m.k.t <= now
  /\ m.k.uid = Nil
  /\ m.k.vt = Nil
  /\ m.of = "sendMessage" => m.k.len \in Nat
  /\ m.of \in {"sendMessage", "receiveMessage"} /\ m.i = 2 => m.k.q \in Attrs

ReplyOK(m) ==
  /\ m.i \in DOMAIN Requests[m.of]
  /\ m.k.t <= now
  /\ m.i = 1 \/ m.of \notin {"sendMessage", "receiveMessage"} => m.k.uid = Nil
  /\ m.k.vt = Nil
  /\ m.of = "sendMessage" => m.k.len \in Nat
  /\ m.of \in {"sendMessage", "receiveMessage"} /\ m.i = 1 /\ m.err = "none" => m.k.q \in Attrs

(* The message u is stored whole, its send has not ended, and no Go client *)
(* is sending it.                                                          *)
Stored(u) ==
  /\ u \in Uids
  /\ hist[u].st = "sending"
  /\ zset[u] # Nil => body[u] = hist[u].len
  /\ \A c \in Clients : call[c].op = "SendMessage" => call[c].uid # u

(* Each call has one request or reply in flight, and a reply to "enqueue"  *)
(* is about a message that is stored.                                      *)
FlightInv ==
  /\ wire \in Seq(Message)
  /\ replies \in Seq(Message)
  /\ \A n \in DOMAIN wire : RequestOK(wire[n])
  /\ \A n \in DOMAIN replies :
       /\ ReplyOK(replies[n])
       /\ replies[n].of = "sendMessage" /\ replies[n].i = 2 => Stored(replies[n].k.uid)
  /\ \A i, n \in DOMAIN wire : wire[i].of = wire[n].of => i = n
  /\ \A i, n \in DOMAIN replies : replies[i].of = replies[n].of => i = n
  /\ \A i \in DOMAIN wire, n \in DOMAIN replies : wire[i].of # replies[n].of

NInv == IInv /\ FlightInv

-----------------------------------------------------------------------------
(* The inductive invariant behind the order of the calls.                  *)

Waiting == {wire[n] : n \in DOMAIN wire}
Unread == {replies[n] : n \in DOMAIN replies}
Flight == Waiting \cup Unread

(* The calls take turns: request i of each before request i + 1 of any, in *)
(* the order of the script.                                                *)
Turn(m) == Len(Script) * m.i + (CHOOSE n \in DOMAIN Script : Script[n] = m.of)

(* a comes before b, and the call of a has no further turn before b. *)
InTurn(a, b) == Turn(a) < Turn(b) /\ Turn(b) < Turn(a) + Len(Script)

TurnsInv ==
  /\ \A i, n \in DOMAIN wire : i < n => InTurn(wire[i], wire[n])
  /\ \A i, n \in DOMAIN replies : i < n => InTurn(replies[i], replies[n])
  /\ \A i \in DOMAIN replies, n \in DOMAIN wire : InTurn(replies[i], wire[n])

(* There is a queue, unless its creation is still to come. *)
CreatedInv ==
  /\ \/ attrs # Nil
     \/ Flight = {}
     \/ \E m \in Waiting : m.of = "createQueue" /\ m.i <= 2
     \/ \E m \in Unread : m.of = "createQueue" /\ m.i = 1 /\ m.err = "none"
  /\ \A m \in Waiting : m.err = "none"
  /\ \A m \in Unread : m.of = "getQueueAttributes" => m.err = "none"

Printed ==
  [of : Calls, err : {"none", "refused", "lost"}, k : CallType,
   says : {"queue created", "stats", "id", "message", "nothing", "error", "typeof err"}]

(* A call is in flight, or it was answered, once. *)
AnswersInv ==
  /\ console \in Seq(Printed)
  /\ \A of \in Calls :
       (\E m \in Flight : m.of = of) <=> ~\E n \in DOMAIN console : console[n].of = of
  /\ \A i, n \in DOMAIN console : console[i].of = console[n].of => i = n
  /\ \A n \in DOMAIN console :
       LET e == console[n]
       IN /\ e.says = "id" <=> e.of = "sendMessage" /\ e.err = "none"
          /\ e.says \in {"message", "nothing"} <=> e.of = "receiveMessage" /\ e.err = "none"
          /\ e.of = "getQueueAttributes" => e.err # "refused"
          /\ e.of = "receiveMessage" /\ e.err = "none" =>
               \E i \in 1..(n - 1) : console[i].of = "sendMessage"
          /\ e.k.t <= now

OrderInv == TurnsInv /\ CreatedInv /\ AnswersInv /\ ReadsInOrder

(* What sendMessage knows once its message is on the queue, *)
Enqueued ==
  {m.k : m \in {x \in Unread : x.of = "sendMessage" /\ x.i = 2}}
    \cup {console[n].k : n \in {i \in DOMAIN console : console[i].says = "id"}}

(* receiveMessage, between its two transactions, *)
Looked ==
  {m \in Waiting : m.of = "receiveMessage" /\ m.i = 2}
    \cup {m \in Unread : m.of = "receiveMessage" /\ m.i = 1}

(* and after it found no message. *)
NothingFound ==
  \/ Said("receiveMessage", "nothing")
  \/ \E m \in Unread : m.of = "receiveMessage" /\ m.i = 2 /\ m.k.uid = Nil

(* A message that nobody received is due when its send said, and the       *)
(* receive, which reads the clock later, overlooks no such message.        *)
FoundInv ==
  /\ \A n \in DOMAIN console : console[n].says = "id" => hist[console[n].k.uid].st = "sent"
  /\ \A k \in Enqueued :
       LET u == k.uid
       IN /\ u \in Uids
          /\ hist[u].got = 0 /\ zset[u] # Nil => zset[u] = Ms(k.t + Seconds(k.q.delay))
          /\ k.q.delay = 0 /\ NothingFound => hist[u].got > 0 \/ hist[u].fate # "none"
  /\ \A r \in Looked :
       /\ \A k \in Enqueued : k.t <= r.k.t
       /\ \A m \in Flight : m.of = "sendMessage" => m.k.t <= r.k.t

=============================================================================
