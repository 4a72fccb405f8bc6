------------------------------ MODULE PeerOrder ------------------------------
(***************************************************************************)
(* The calls the Node.js program makes at once take effect, and are        *)
(* answered, in the order it makes them.                                   *)
(***************************************************************************)
EXTENDS PeerProofs, RsmqFifo

-----------------------------------------------------------------------------
(* Turns.                                                                  *)

LEMMA ScriptDomain == DOMAIN Script = 1..4 /\ Len(Script) = 4
  BY DEF Script

LEMMA TurnValue ==
  ASSUME NEW m \in Message
  PROVE  /\ m.i \in 1..3
         /\ m.of \in {"createQueue", "getQueueAttributes", "sendMessage", "receiveMessage"}
         /\ m.of = "createQueue" => Turn(m) = 4 * m.i + 1
         /\ m.of = "getQueueAttributes" => Turn(m) = 4 * m.i + 2
         /\ m.of = "sendMessage" => Turn(m) = 4 * m.i + 3
         /\ m.of = "receiveMessage" => Turn(m) = 4 * m.i + 4
         /\ Turn(m) \in Nat
<1>1. m.of \in {"createQueue", "getQueueAttributes", "sendMessage", "receiveMessage"}
  <2>1. DOMAIN Requests = {"createQueue", "getQueueAttributes", "sendMessage", "receiveMessage"}
    BY DEF Requests
  <2> QED
    BY <2>1 DEF Message, Calls
<1>2. m.i \in 1..3
  BY DEF Message
<1>3. ASSUME NEW p \in 1..4, Script[p] = m.of
      PROVE  Turn(m) = 4 * m.i + p
  <2>1. \A n \in 1..4 : Script[n] = m.of => n = p
    BY <1>3 DEF Script
  <2>2. (CHOOSE n \in DOMAIN Script : Script[n] = m.of) = p
    BY <1>3, <2>1, ScriptDomain
  <2> QED
    BY <2>2, ScriptDomain DEF Turn
<1>4. /\ Script[1] = "createQueue" /\ Script[2] = "getQueueAttributes"
      /\ Script[3] = "sendMessage" /\ Script[4] = "receiveMessage"
  BY DEF Script
<1>5. /\ m.of = "createQueue" => Turn(m) = 4 * m.i + 1
      /\ m.of = "getQueueAttributes" => Turn(m) = 4 * m.i + 2
      /\ m.of = "sendMessage" => Turn(m) = 4 * m.i + 3
      /\ m.of = "receiveMessage" => Turn(m) = 4 * m.i + 4
  BY <1>3, <1>4
<1> QED
  BY <1>1, <1>2, <1>5

(* The turn of a message depends on its call and its place alone.          *)
LEMMA SameTurn ==
  ASSUME NEW m \in Message, NEW r \in Message, r.of = m.of
  PROVE  /\ r.i = m.i => Turn(r) = Turn(m)
         /\ r.i = m.i + 1 => Turn(r) = Turn(m) + 4
  BY TurnValue

-----------------------------------------------------------------------------
(* What is in flight, as sets.                                             *)

LEMMA InFlightTypes ==
  ASSUME FlightInv
  PROVE  /\ \A n \in DOMAIN wire : wire[n] \in Message
         /\ \A n \in DOMAIN replies : replies[n] \in Message
         /\ Waiting \subseteq Message /\ Unread \subseteq Message
         /\ \A m \in Waiting : RequestOK(m)
         /\ \A m \in Unread : /\ ReplyOK(m)
                              /\ m.of = "sendMessage" /\ m.i = 2 => Stored(m.k.uid)
         /\ \A m \in Flight : m \in Message /\ m.i \in DOMAIN Requests[m.of] /\ m.k.t <= now
         /\ \A m, x \in Waiting : m.of = x.of => m = x
         /\ \A m, x \in Unread : m.of = x.of => m = x
         /\ \A m \in Waiting, x \in Unread : m.of # x.of
<1>1. /\ \A n \in DOMAIN wire : wire[n] \in Message
      /\ \A n \in DOMAIN replies : replies[n] \in Message
  BY ElementOfSeq, LenProperties DEF FlightInv
<1>2. /\ Waiting \subseteq Message /\ Unread \subseteq Message
      /\ \A m \in Waiting : RequestOK(m)
      /\ \A m \in Unread : /\ ReplyOK(m)
                           /\ m.of = "sendMessage" /\ m.i = 2 => Stored(m.k.uid)
  BY <1>1 DEF FlightInv, Waiting, Unread
<1>3. \A m \in Flight : m \in Message /\ m.i \in DOMAIN Requests[m.of] /\ m.k.t <= now
  BY <1>2 DEF Flight, RequestOK, ReplyOK
<1>4. /\ \A m, x \in Waiting : m.of = x.of => m = x
      /\ \A m, x \in Unread : m.of = x.of => m = x
      /\ \A m \in Waiting, x \in Unread : m.of # x.of
  BY DEF FlightInv, Waiting, Unread
<1> QED
  BY <1>1, <1>2, <1>3, <1>4

LEMMA TakenSet ==
  ASSUME NEW s \in Seq(Message), s # <<>>,
         \A i, n \in DOMAIN s : s[i].of = s[n].of => i = n
  PROVE  {Tail(s)[n] : n \in DOMAIN Tail(s)} = {s[n] : n \in DOMAIN s} \ {Head(s)}
<1>1. Len(s) \in Nat \ {0} /\ DOMAIN s = 1..Len(s)
  BY EmptySeq, LenProperties
<1>2. /\ Tail(s) \in Seq(Message) /\ Len(Tail(s)) = Len(s) - 1
      /\ \A i \in 1..Len(Tail(s)) : Tail(s)[i] = s[i + 1]
  BY HeadTailProperties
<1>3. DOMAIN Tail(s) = 1..(Len(s) - 1)
  BY <1>2, LenProperties
<1>4. 1 \in DOMAIN s /\ Head(s) = s[1]
  BY TakenFirst
<1>5. ASSUME NEW n \in DOMAIN Tail(s)
      PROVE  Tail(s)[n] \in {s[i] : i \in DOMAIN s} \ {Head(s)}
  <2>1. n + 1 \in DOMAIN s /\ Tail(s)[n] = s[n + 1] /\ n + 1 # 1
    BY <1>1, <1>2, <1>3
  <2> QED
    BY <1>4, <2>1
<1>6. ASSUME NEW n \in DOMAIN s, s[n] # Head(s)
      PROVE  s[n] \in {Tail(s)[i] : i \in DOMAIN Tail(s)}
  <2>1. n # 1 /\ n \in 1..Len(s)
    BY <1>1, <1>4, <1>6
  <2>2. n - 1 \in 1..(Len(s) - 1) /\ (n - 1) + 1 = n
    BY <1>1, <2>1
  <2>3. Tail(s)[n - 1] = s[n]
    BY <1>2, <2>2
  <2> QED
    BY <1>3, <2>2, <2>3
<1> QED
  BY <1>5, <1>6

LEMMA AddedSet ==
  ASSUME NEW s \in Seq(Message), NEW m \in Message
  PROVE  {Append(s, m)[n] : n \in DOMAIN Append(s, m)} = {s[n] : n \in DOMAIN s} \cup {m}
<1>1. /\ Append(s, m) \in Seq(Message)
      /\ Len(Append(s, m)) = Len(s) + 1
      /\ \A i \in 1..Len(s) : Append(s, m)[i] = s[i]
      /\ Append(s, m)[Len(s) + 1] = m
  BY AppendProperties
<1>2. Len(s) \in Nat /\ DOMAIN s = 1..Len(s) /\ DOMAIN Append(s, m) = 1..(Len(s) + 1)
  BY <1>1, LenProperties
<1>3. \A n \in 1..(Len(s) + 1) : n \in 1..Len(s) \/ n = Len(s) + 1
  BY <1>2
<1>4. 1..Len(s) \subseteq 1..(Len(s) + 1) /\ Len(s) + 1 \in 1..(Len(s) + 1)
  BY <1>2
<1> QED
  BY <1>1, <1>2, <1>3, <1>4

LEMMA ServedSets ==
  ASSUME FlightInv, wire # <<>>, wire' = Tail(wire),
         NEW r \in Message, replies' = Append(replies, r)
  PROVE  /\ Head(wire) \in Waiting
         /\ Waiting' = Waiting \ {Head(wire)}
         /\ Unread' = Unread \cup {r}
<1>1. Head(wire) \in Waiting
  BY TakenFirst DEF FlightInv, Waiting
<1>2. Waiting' = Waiting \ {Head(wire)}
  BY TakenSet DEF FlightInv, Waiting
<1>3. Unread' = Unread \cup {r}
  <2>1. {Append(replies, r)[n] : n \in DOMAIN Append(replies, r)}
          = {replies[n] : n \in DOMAIN replies} \cup {r}
    BY AddedSet DEF FlightInv
  <2> QED
    BY <2>1 DEF Unread
<1> QED
  BY <1>1, <1>2, <1>3

LEMMA ReadSets ==
  ASSUME FlightInv, replies # <<>>, replies' = Tail(replies)
  PROVE  Head(replies) \in Unread /\ Unread' = Unread \ {Head(replies)}
<1>1. Head(replies) \in Unread
  BY TakenFirst DEF FlightInv, Unread
<1>2. Unread' = Unread \ {Head(replies)}
  BY TakenSet DEF FlightInv, Unread
<1> QED
  BY <1>1, <1>2

-----------------------------------------------------------------------------
(* The calls keep taking turns.                                            *)

LEMMA FirstsTurn ==
  ASSUME FlightInv, TurnsInv
  PROVE  /\ wire # <<>> =>
              /\ \A m \in Waiting \ {Head(wire)} : InTurn(Head(wire), m)
              /\ \A m \in Unread : InTurn(m, Head(wire))
         /\ replies # <<>> =>
              /\ \A m \in Unread \ {Head(replies)} : InTurn(Head(replies), m)
              /\ \A m \in Waiting : InTurn(Head(replies), m)
<1>1. /\ DOMAIN wire = 1..Len(wire) /\ Len(wire) \in Nat
      /\ DOMAIN replies = 1..Len(replies) /\ Len(replies) \in Nat
  BY LenProperties DEF FlightInv
<1>2. wire # <<>> => 1 \in DOMAIN wire /\ Head(wire) = wire[1]
  BY TakenFirst DEF FlightInv
<1>3. replies # <<>> => 1 \in DOMAIN replies /\ Head(replies) = replies[1]
  BY TakenFirst DEF FlightInv
<1>4. /\ \A n \in DOMAIN wire : n = 1 \/ 1 < n
      /\ \A n \in DOMAIN replies : n = 1 \/ 1 < n
  BY <1>1
<1> QED
  BY <1>2, <1>3, <1>4 DEF TurnsInv, Waiting, Unread

LEMMA ServedTurns ==
  ASSUME FlightInv, TurnsInv, wire # <<>>, wire' = Tail(wire),
         NEW r \in Message, replies' = Append(replies, r),
         r.of = Head(wire).of, r.i = Head(wire).i
  PROVE  TurnsInv'
<1>1. /\ wire \in Seq(Message) /\ replies \in Seq(Message)
      /\ DOMAIN replies = 1..Len(replies) /\ Len(replies) \in Nat
  BY LenProperties DEF FlightInv
<1>2. /\ 1 \in DOMAIN wire /\ Head(wire) = wire[1] /\ Head(wire) \in Message
      /\ wire' \in Seq(Message)
      /\ \A n \in DOMAIN wire' : n + 1 \in DOMAIN wire /\ wire'[n] = wire[n + 1]
  BY <1>1, TakenFirst
<1>3. \A n \in DOMAIN replies' : \/ n \in DOMAIN replies /\ replies'[n] = replies[n]
                                 \/ n = Len(replies) + 1 /\ replies'[n] = r
  BY <1>1, AddedLast
<1>4. \A n \in DOMAIN wire' : n \in Nat \ {0}
  <2>1. DOMAIN wire' = 1..Len(wire')
    BY <1>2, LenProperties
  <2> QED
    BY <2>1
<1>5. Turn(r) = Turn(wire[1])
  BY <1>2, SameTurn
<1>6. \A x : /\ InTurn(x, r) <=> InTurn(x, wire[1])
             /\ InTurn(r, x) <=> InTurn(wire[1], x)
  BY <1>5 DEF InTurn
<1>7. /\ \A i, n \in DOMAIN wire : i < n => InTurn(wire[i], wire[n])
      /\ \A i, n \in DOMAIN replies : i < n => InTurn(replies[i], replies[n])
      /\ \A i \in DOMAIN replies, n \in DOMAIN wire : InTurn(replies[i], wire[n])
  BY DEF TurnsInv
<1>8. \A i, n \in DOMAIN wire' : i < n => InTurn(wire'[i], wire'[n])
  <2>1. \A i, n \in DOMAIN wire' : i < n => i + 1 < n + 1
    BY <1>4
  <2> QED
    BY <1>2, <1>7, <2>1
<1>9. \A i, n \in DOMAIN replies' : i < n => InTurn(replies'[i], replies'[n])
  <2>1. \A i, n \in DOMAIN replies' : i < n => i \in DOMAIN replies /\ replies'[i] = replies[i]
    BY <1>1, <1>3
  <2> QED
    BY <1>2, <1>3, <1>6, <1>7, <2>1
<1>10. \A i \in DOMAIN replies', n \in DOMAIN wire' : InTurn(replies'[i], wire'[n])
  <2>1. \A n \in DOMAIN wire' : 1 < n + 1
    BY <1>4
  <2> QED
    BY <1>2, <1>3, <1>6, <1>7, <2>1
<1>11. \A a, b : InTurn(a, b)' <=> InTurn(a, b)
  BY DEF InTurn, Turn
<1> QED
  BY <1>8, <1>9, <1>10, <1>11 DEF TurnsInv

(* A call's next request goes to the end: it is the last one's turn.       *)
LEMMA ReadTurns ==
  ASSUME FlightInv, TurnsInv, replies # <<>>, replies' = Tail(replies),
         \/ wire' = wire
         \/ \E m \in Message : /\ wire' = Append(wire, m)
                              /\ m.of = Head(replies).of
                              /\ m.i = Head(replies).i + 1
  PROVE  TurnsInv'
<1>1. /\ wire \in Seq(Message) /\ replies \in Seq(Message)
      /\ DOMAIN wire = 1..Len(wire) /\ Len(wire) \in Nat
  BY LenProperties DEF FlightInv
<1>2. /\ 1 \in DOMAIN replies /\ Head(replies) = replies[1] /\ Head(replies) \in Message
      /\ replies' \in Seq(Message)
      /\ \A n \in DOMAIN replies' : n + 1 \in DOMAIN replies /\ replies'[n] = replies[n + 1]
  BY <1>1, TakenFirst
<1>3. \A n \in DOMAIN replies' : n \in Nat \ {0}
  <2>1. DOMAIN replies' = 1..Len(replies')
    BY <1>2, LenProperties
  <2> QED
    BY <2>1
<1>4. /\ \A i, n \in DOMAIN wire : i < n => InTurn(wire[i], wire[n])
      /\ \A i, n \in DOMAIN replies : i < n => InTurn(replies[i], replies[n])
      /\ \A i \in DOMAIN replies, n \in DOMAIN wire : InTurn(replies[i], wire[n])
  BY DEF TurnsInv
<1>5. /\ \A i, n \in DOMAIN replies' : i < n => i + 1 < n + 1
      /\ \A n \in DOMAIN replies' : 1 < n + 1
  BY <1>3
<1>6. \A i, n \in DOMAIN replies' : i < n => InTurn(replies'[i], replies'[n])
  BY <1>2, <1>4, <1>5
<1>7. \A a, b : InTurn(a, b)' <=> InTurn(a, b)
  BY DEF InTurn, Turn
<1>8. CASE wire' = wire
  BY <1>2, <1>4, <1>6, <1>7, <1>8 DEF TurnsInv
<1>9. ASSUME NEW m \in Message, wire' = Append(wire, m),
             m.of = Head(replies).of, m.i = Head(replies).i + 1
      PROVE  TurnsInv'
  <2>1. Turn(m) = Turn(replies[1]) + 4 /\ Turn(replies[1]) \in Nat
    BY <1>2, <1>9, SameTurn, TurnValue
  <2>2. ASSUME NEW x \in Message, InTurn(replies[1], x)
        PROVE  InTurn(x, m)
    <3>1. Turn(x) \in Nat
      BY TurnValue
    <3> QED
      BY <2>1, <2>2, <3>1, ScriptDomain DEF InTurn
  <2>3. /\ \A n \in DOMAIN wire : wire[n] \in Message
        /\ \A n \in DOMAIN replies : replies[n] \in Message
    BY InFlightTypes
  <2>4. \A n \in DOMAIN wire' : \/ n \in DOMAIN wire /\ wire'[n] = wire[n]
                                \/ n = Len(wire) + 1 /\ wire'[n] = m
    BY <1>1, <1>9, AddedLast
  <2>5. \A i, n \in DOMAIN wire' : i < n => InTurn(wire'[i], wire'[n])
    <3>1. \A i, n \in DOMAIN wire' : i < n => i \in DOMAIN wire /\ wire'[i] = wire[i]
      BY <1>1, <2>4
    <3> QED
      BY <1>2, <1>4, <2>2, <2>3, <2>4, <3>1
  <2>6. \A i \in DOMAIN replies', n \in DOMAIN wire' : InTurn(replies'[i], wire'[n])
    BY <1>2, <1>4, <1>5, <2>2, <2>3, <2>4
  <2> QED
    BY <1>6, <1>7, <2>5, <2>6 DEF TurnsInv
<1> QED
  BY <1>8, <1>9

-----------------------------------------------------------------------------
(* What the callbacks print.                                               *)

Says == {"queue created", "stats", "id", "message", "nothing", "error", "typeof err"}

LEMMA PrintsFields ==
  ASSUME NEW m \in Message, NEW s \in Says
  PROVE  /\ Prints(m, s) \in Printed
         /\ Prints(m, s).of = m.of /\ Prints(m, s).err = m.err
         /\ Prints(m, s).k = m.k /\ Prints(m, s).says = s
<1>1. m.of \in Calls /\ m.err \in {"none", "refused", "lost"} /\ m.k \in CallType
  BY DEF Message
<1> QED
  BY <1>1 DEF Prints, Printed, Says

LEMMA CallbackPrints ==
  ASSUME NEW m \in Message
  PROVE  /\ Callback(m) \in Printed
         /\ Callback(m).of = m.of /\ Callback(m).err = m.err /\ Callback(m).k = m.k
         /\ Callback(m).says = "id" <=> m.of = "sendMessage" /\ m.err = "none"
         /\ Callback(m).says \in {"message", "nothing"} <=>
              m.of = "receiveMessage" /\ m.err = "none"
         /\ Callback(m).says = "nothing" <=>
              m.of = "receiveMessage" /\ m.err = "none" /\ m.k.uid = Nil
<1> DEFINE IsSaid(s) ==
             /\ s = "id" <=> m.of = "sendMessage" /\ m.err = "none"
             /\ s \in {"message", "nothing"} <=> m.of = "receiveMessage" /\ m.err = "none"
             /\ s = "nothing" <=> m.of = "receiveMessage" /\ m.err = "none" /\ m.k.uid = Nil
           Goal == \E s \in Says : Callback(m) = Prints(m, s) /\ IsSaid(s)
<1>1. m.of \in {"createQueue", "getQueueAttributes", "sendMessage", "receiveMessage"}
  BY TurnValue
<1>2. ASSUME m.of = "createQueue" PROVE Goal
  <2>1. Callback(m) = Prints(m, "queue created") \/ Callback(m) = Prints(m, "error")
    BY <1>2 DEF Callback, CreateQueueCallback
  <2>2. \A s \in {"queue created", "error"} : s \in Says /\ IsSaid(s)
    BY <1>2 DEF Says
  <2> QED
    BY <2>1, <2>2
<1>3. ASSUME m.of = "getQueueAttributes" PROVE Goal
  <2>1. Callback(m) = Prints(m, "stats") \/ Callback(m) = Prints(m, "error")
    BY <1>3 DEF Callback, GetQueueAttributesCallback
  <2>2. \A s \in {"stats", "error"} : s \in Says /\ IsSaid(s)
    BY <1>3 DEF Says
  <2> QED
    BY <2>1, <2>2
<1>4. ASSUME m.of = "sendMessage" PROVE Goal
  <2>1. \/ Callback(m) = Prints(m, "id") /\ m.err = "none"
        \/ Callback(m) = Prints(m, "typeof err") /\ m.err # "none"
    BY <1>4 DEF Callback, SendMessageCallback
  <2>2. /\ m.err = "none" => IsSaid("id")
        /\ m.err # "none" => IsSaid("typeof err")
        /\ "id" \in Says /\ "typeof err" \in Says
    BY <1>4 DEF Says
  <2> QED
    BY <2>1, <2>2
<1>5. ASSUME m.of = "receiveMessage" PROVE Goal
  <2>1. \/ Callback(m) = Prints(m, "error") /\ m.err # "none"
        \/ Callback(m) = Prints(m, "message") /\ m.err = "none" /\ m.k.uid # Nil
        \/ Callback(m) = Prints(m, "nothing") /\ m.err = "none" /\ m.k.uid = Nil
    BY <1>5 DEF Callback, ReceiveMessageCallback
  <2>2. /\ m.err # "none" => IsSaid("error")
        /\ m.err = "none" /\ m.k.uid # Nil => IsSaid("message")
        /\ m.err = "none" /\ m.k.uid = Nil => IsSaid("nothing")
        /\ "error" \in Says /\ "message" \in Says /\ "nothing" \in Says
    BY <1>5 DEF Says
  <2> QED
    BY <2>1, <2>2
<1>6. Goal
  BY <1>1, <1>2, <1>3, <1>4, <1>5
<1>7. PICK s \in Says : Callback(m) = Prints(m, s) /\ IsSaid(s)
  BY <1>6
<1>8. PICK e : e = Prints(m, s)
  OBVIOUS
<1>9. /\ e \in Printed /\ e.of = m.of /\ e.err = m.err /\ e.k = m.k
       /\ e.says = s
  BY <1>8, PrintsFields
<1> QED
  BY <1>7, <1>8, <1>9

-----------------------------------------------------------------------------
(* Redis takes a request.                                                  *)

(* What is common to its steps: h is the request, r the reply.             *)
LEMMA RedisReplies ==
  ASSUME NInv, Redis
  PROVE  \E h, r \in Message :
           /\ wire # <<>> /\ h = Head(wire) /\ wire' = Tail(wire) /\ RequestOK(h)
           /\ replies' = Append(replies, r) /\ r.of = h.of /\ r.i = h.i
           /\ now' = now /\ console' = console
           /\ attrs # Nil \/ Command(h) = "hsetnx" => attrs' # Nil
           /\ Command(h) = "time" => r.err = "none"
           /\ Command(h) = "stats" /\ attrs # Nil => r.err = "none"
<1> DEFINE Goal == \E h, r \in Message :
           /\ wire # <<>> /\ h = Head(wire) /\ wire' = Tail(wire) /\ RequestOK(h)
           /\ replies' = Append(replies, r) /\ r.of = h.of /\ r.i = h.i
           /\ now' = now /\ console' = console
           /\ attrs # Nil \/ Command(h) = "hsetnx" => attrs' # Nil
           /\ Command(h) = "time" => r.err = "none"
           /\ Command(h) = "stats" /\ attrs # Nil => r.err = "none"
<1>1. ASSUME NEW cmd, Serves(cmd), NEW e \in {"none", "refused"}, NEW k \in CallType, Replies(e, k),
             attrs # Nil \/ cmd = "hsetnx" => attrs' # Nil,
             cmd = "time" \/ (cmd = "stats" /\ attrs # Nil) => e = "none"
      PROVE  Goal
  <2>1. PICK h \in Message :
          /\ h = Head(wire) /\ wire # <<>> /\ wire' = Tail(wire)
          /\ Command(h) = cmd /\ RequestOK(h)
    BY <1>1, FirstRequest
  <2>2. PICK r \in Message :
          replies' = Append(replies, r) /\ r.of = h.of /\ r.i = h.i /\ r.err = e
    BY <1>1, <2>1, Replying DEF NInv
  <2>3. now' = now /\ console' = console
    BY <1>1 DEF Replies
  <2> QED
    BY <1>1, <2>1, <2>2, <2>3
<1> SUFFICES Goal
  OBVIOUS
<1> HIDE DEF Goal
<1>2. ASSUME NEW cmd, Serves(cmd)
      PROVE  Head(wire).k \in CallType
  BY <1>2, FirstRequest
<1>3. /\ attrs \in Options \cup {Nil} /\ now \in Nat
      /\ \A k \in CallType, u \in Uids : [k EXCEPT !.uid = u] \in CallType
      /\ \A k \in CallType, a \in Options \cup {Nil} : [k EXCEPT !.t = now, !.q = a] \in CallType
  BY DEF NInv, IInv, TypeOK, StoreTypeOK, Attrs, Options, OptInt, CallType
<1>4. CASE ServeTime
  BY <1>1, <1>2, <1>4 DEF ServeTime, store
<1>5. CASE ServeHSetNX
  <2>1. DefaultAttrs # Nil
    BY StoreAssumption DEF DefaultAttrs, Attrs
  <2> QED
    BY <1>1, <1>2, <1>5, <2>1 DEF ServeHSetNX, Check
<1>6. CASE ServeSAdd
  BY <1>1, <1>2, <1>6 DEF ServeSAdd
<1>7. CASE ServeStats
  BY <1>1, <1>2, <1>7 DEF ServeStats, store, Check
<1>8. CASE ServeLookup
  <2>1. PICK k : k = [Head(wire).k EXCEPT !.t = now, !.q = attrs]
    OBVIOUS
  <2>2. k \in CallType
    BY <1>2, <1>3, <1>8, <2>1 DEF ServeLookup
  <2>3. PICK e \in {"none", "refused"} : Replies(e, k)
    BY <1>8, <2>1 DEF ServeLookup, Check
  <2> QED
    BY <1>1, <1>8, <2>2, <2>3 DEF ServeLookup, store
<1>9. CASE ServeEnqueue
  <2>1. PICK u \in Uids : Replies("none", [Head(wire).k EXCEPT !.uid = u])
    BY <1>9 DEF ServeEnqueue
  <2>2. [Head(wire).k EXCEPT !.uid = u] \in CallType
    BY <1>2, <1>3, <1>9 DEF ServeEnqueue
  <2> QED
    BY <1>1, <1>9, <2>1, <2>2 DEF ServeEnqueue
<1>10. CASE ServeReceive
  <2>1. Head(wire).k \in CallType /\ Serves("evalsha") /\ attrs' = attrs
    BY <1>2, <1>10 DEF ServeReceive, ReceiveScript, store
  <2>2. \/ Replies("none", Head(wire).k)
        \/ \E u \in Uids : Replies("none", [Head(wire).k EXCEPT !.uid = u])
    BY <1>10 DEF ServeReceive
  <2>3. \A u \in Uids : [Head(wire).k EXCEPT !.uid = u] \in CallType
    BY <1>3, <2>1
  <2>4. PICK k \in CallType : Replies("none", k)
    BY <2>1, <2>2, <2>3
  <2> QED
    BY <1>1, <2>1, <2>4
<1> QED
  BY <1>4, <1>5, <1>6, <1>7, <1>8, <1>9, <1>10 DEF Redis

(* Steps that answer no call.                                              *)
LEMMA ConsoleStays ==
  ASSUME AnswersInv, ReadsInOrder, console' = console,
         now \in Nat, now' \in Nat, now <= now',
         \A of \in Calls : (\E m \in Flight' : m.of = of) <=> (\E m \in Flight : m.of = of)
  PROVE  AnswersInv' /\ ReadsInOrder'
<1>1. \A n \in DOMAIN console : console[n].k.t \in Nat
  <2>1. \A n \in DOMAIN console : console[n] \in Printed
    BY ElementOfSeq, LenProperties DEF AnswersInv
  <2> QED
    BY <2>1 DEF Printed, CallType
<1>2. \A n \in DOMAIN console : console[n].k.t <= now => console[n].k.t <= now'
  BY <1>1
<1> QED
  BY <1>2 DEF AnswersInv, ReadsInOrder

LEMMA RedisKeepsOrder ==
  ASSUME NInv, OrderInv, Redis
  PROVE  OrderInv'
<1>1. PICK h, r \in Message :
           /\ wire # <<>> /\ h = Head(wire) /\ wire' = Tail(wire) /\ RequestOK(h)
           /\ replies' = Append(replies, r) /\ r.of = h.of /\ r.i = h.i
           /\ now' = now /\ console' = console
           /\ attrs # Nil \/ Command(h) = "hsetnx" => attrs' # Nil
           /\ Command(h) = "time" => r.err = "none"
           /\ Command(h) = "stats" /\ attrs # Nil => r.err = "none"
  BY RedisReplies
<1>2. FlightInv /\ TurnsInv /\ CreatedInv /\ AnswersInv /\ ReadsInOrder /\ now \in Nat
  BY DEF NInv, IInv, TypeOK, OrderInv
<1>3. TurnsInv'
  BY <1>1, <1>2, ServedTurns
<1>4. h \in Waiting /\ Waiting' = Waiting \ {h} /\ Unread' = Unread \cup {r}
  BY <1>1, <1>2, ServedSets
<1>5. AnswersInv' /\ ReadsInOrder'
  <2>1. \A of \in Calls : (\E m \in Flight' : m.of = of) <=> (\E m \in Flight : m.of = of)
    BY <1>1, <1>4 DEF Flight
  <2> QED
    BY <1>1, <1>2, <2>1, ConsoleStays
<1>6. /\ h.of = "createQueue" => Command(h) = IF h.i = 1 THEN "time" ELSE
                                             IF h.i = 2 THEN "hsetnx" ELSE "sadd"
      /\ h.of = "getQueueAttributes" => /\ h.i \in {1, 2}
                                        /\ Command(h) = IF h.i = 1 THEN "time" ELSE "stats"
      /\ h.i \in 1..3
  BY <1>1 DEF RequestOK, Requests, Command, Message
<1>7. \/ attrs' # Nil
      \/ Flight' = {}
      \/ \E m \in Waiting' : m.of = "createQueue" /\ m.i <= 2
      \/ \E m \in Unread' : m.of = "createQueue" /\ m.i = 1 /\ m.err = "none"
  <2>1. CASE attrs # Nil
    BY <1>1, <2>1
  <2>2. ASSUME NEW m \in Waiting, m.of = "createQueue", m.i <= 2, m # h
        PROVE  m \in Waiting' /\ m.of = "createQueue" /\ m.i <= 2
    BY <1>4, <2>2
  <2>3. ASSUME h.of = "createQueue", h.i <= 2
        PROVE  attrs' # Nil \/ (r \in Unread' /\ r.of = "createQueue" /\ r.i = 1 /\ r.err = "none")
    BY <1>1, <1>4, <1>6, <2>3
  <2>4. Unread \subseteq Unread' /\ Flight # {}
    BY <1>4 DEF Flight
  <2> QED
    BY <1>2, <2>1, <2>2, <2>3, <2>4 DEF CreatedInv
<1>8. r.of = "getQueueAttributes" => r.err = "none"
  <2>1. CASE h.of = "getQueueAttributes" /\ h.i = 1
    BY <1>1, <1>6, <2>1
  <2>2. CASE h.of = "getQueueAttributes" /\ h.i = 2
    <3>1. Turn(h) = 10
      BY <2>2, TurnValue
    <3>2. ASSUME NEW m \in Message, m.of = "createQueue", m.i <= 2
          PROVE  Turn(m) \in {5, 9}
      BY <3>2, TurnValue
    <3>3. ASSUME NEW m \in Message, m.of = "createQueue", m.i = 1
          PROVE  Turn(m) = 5
      BY <3>3, TurnValue
    <3>4. /\ \A m \in Waiting \ {h} : 10 < Turn(m)
          /\ \A m \in Unread : 10 < Turn(m) + 4
      BY <1>1, <1>2, <3>1, FirstsTurn, ScriptDomain DEF InTurn
    <3>5. Waiting \subseteq Message /\ Unread \subseteq Message
      BY <1>2, InFlightTypes
    <3>6. ~\E m \in Waiting : m.of = "createQueue" /\ m.i <= 2
      BY <2>2, <3>2, <3>4, <3>5
    <3>7. ~\E m \in Unread : m.of = "createQueue" /\ m.i = 1
      BY <3>3, <3>4, <3>5
    <3>8. attrs # Nil
      BY <1>2, <1>4, <3>6, <3>7 DEF CreatedInv, Flight
    <3> QED
      BY <1>1, <1>6, <2>2, <3>8
  <2> QED
    BY <1>1, <1>6, <2>1, <2>2
<1>9. CreatedInv'
  BY <1>2, <1>4, <1>7, <1>8 DEF CreatedInv
<1> QED
  BY <1>3, <1>5, <1>9 DEF OrderInv

-----------------------------------------------------------------------------
(* The program reads a reply.                                              *)

LEMMA GoingOnKeepsOrder ==
  ASSUME NInv, OrderInv, GoOn
  PROVE  OrderInv'
<1>1. /\ replies # <<>> /\ replies' = Tail(replies)
      /\ UNCHANGED <<vars, console>>
  BY DEF GoOn
<1>2. PICK g \in Message : g = Head(replies) /\ ReplyOK(g)
  BY <1>1, FirstReply
<1>3. g.err = "none" /\ ~Final(g)
  BY <1>2 DEF GoOn, Final
<1>4. g.i + 1 \in 1..3
  <2>1. g.i + 1 \in DOMAIN Requests[g.of]
    BY <1>2, <1>3, PlaceInCall DEF ReplyOK, Final
  <2>2. DOMAIN Requests[g.of] \subseteq 1..3
    BY DEF Requests, Message, Calls
  <2> QED
    BY <2>1, <2>2
<1>5. PICK x : x = [g EXCEPT !.i = g.i + 1]
  OBVIOUS
<1>6. x \in Message /\ x.of = g.of /\ x.i = g.i + 1 /\ x.err = "none" /\ x.k = g.k
  BY <1>3, <1>4, <1>5 DEF Message
<1>7. wire' = Append(wire, x)
  BY <1>2, <1>5 DEF GoOn
<1>8. FlightInv /\ TurnsInv /\ CreatedInv /\ AnswersInv /\ ReadsInOrder /\ now \in Nat
  BY DEF NInv, IInv, TypeOK, OrderInv
<1>9. TurnsInv'
  BY <1>1, <1>2, <1>6, <1>7, <1>8, ReadTurns
<1>10. g \in Unread /\ Unread' = Unread \ {g}
  BY <1>1, <1>2, <1>8, ReadSets
<1>11. Waiting' = Waiting \cup {x}
  <2>1. {Append(wire, x)[n] : n \in DOMAIN Append(wire, x)} = {wire[n] : n \in DOMAIN wire} \cup {x}
    BY <1>6, <1>8, AddedSet DEF FlightInv
  <2> QED
    BY <1>7, <2>1 DEF Waiting
<1>12. AnswersInv' /\ ReadsInOrder'
  <2>1. \A of \in Calls : (\E m \in Flight' : m.of = of) <=> (\E m \in Flight : m.of = of)
    BY <1>6, <1>10, <1>11 DEF Flight
  <2> QED
    BY <1>1, <1>8, <2>1, ConsoleStays DEF vars
<1>13. CreatedInv'
  <2>1. attrs' = attrs
    BY <1>1 DEF vars, store
  <2>2. g.of = "createQueue" /\ g.i = 1 => x.of = "createQueue" /\ x.i <= 2
    BY <1>6
  <2>3. \/ attrs # Nil
        \/ \E m \in Waiting' : m.of = "createQueue" /\ m.i <= 2
        \/ \E m \in Unread' : m.of = "createQueue" /\ m.i = 1 /\ m.err = "none"
    BY <1>8, <1>10, <1>11, <2>2 DEF CreatedInv, Flight
  <2> QED
    BY <1>6, <1>8, <1>10, <1>11, <2>1, <2>3 DEF CreatedInv
<1> QED
  BY <1>9, <1>12, <1>13 DEF OrderInv

(* The reply that ends a call is the last of the calls before it.          *)
LEMMA FinalIsInOrder ==
  ASSUME FlightInv, TurnsInv, replies # <<>>, Final(Head(replies)), Head(replies).err = "none"
  PROVE  /\ Head(replies).of \in {"sendMessage", "receiveMessage"} =>
              ~\E m \in Flight : m.of = "getQueueAttributes"
         /\ Head(replies).of = "receiveMessage" => ~\E m \in Flight : m.of = "sendMessage"
<1>1. PICK g \in Message : g = Head(replies) /\ ReplyOK(g)
  <2>1. Head(replies) \in Unread
    BY ReadSets, TakenFirst DEF FlightInv, Unread
  <2> QED
    BY <2>1, InFlightTypes
<1>2. g.of \in {"sendMessage", "receiveMessage"} => g.i = 2
  BY <1>1, PlaceInCall DEF ReplyOK, Final
<1>3. /\ g.of = "sendMessage" => Turn(g) = 11
      /\ g.of = "receiveMessage" => Turn(g) = 12
  BY <1>2, TurnValue
<1>4. \A m \in Flight : m = g \/ (Turn(g) < Turn(m) /\ Turn(m) < Turn(g) + 4)
  BY <1>1, FirstsTurn, ScriptDomain DEF InTurn, Flight
<1>5. ASSUME NEW m \in Flight, m.of = "getQueueAttributes"
      PROVE  Turn(m) \in {6, 10}
  <2>1. m \in Message /\ m.i \in {1, 2}
    <3>1. m \in Message /\ m.i \in DOMAIN Requests[m.of]
      BY InFlightTypes
    <3> QED
      BY <1>5, <3>1 DEF Requests
  <2> QED
    BY <1>5, <2>1, TurnValue
<1>6. ASSUME NEW m \in Flight, m.of = "sendMessage"
      PROVE  Turn(m) \in {7, 11}
  <2>1. m \in Message /\ m.i \in {1, 2}
    <3>1. m \in Message /\ m.i \in DOMAIN Requests[m.of]
      BY InFlightTypes
    <3> QED
      BY <1>6, <3>1 DEF Requests
  <2> QED
    BY <1>6, <2>1, TurnValue
<1> QED
  BY <1>1, <1>3, <1>4, <1>5, <1>6

LEMMA AnswerKeepsOrder ==
  ASSUME NInv, OrderInv, RunCallback
  PROVE  OrderInv'
<1>1. /\ replies # <<>> /\ replies' = Tail(replies) /\ wire' = wire
      /\ UNCHANGED <<store, now>>
  BY DEF RunCallback
<1>2. PICK g \in Message : g = Head(replies) /\ ReplyOK(g)
  BY <1>1, FirstReply
<1>3. Final(g)
  BY <1>2 DEF RunCallback
<1>4. PICK e : e = Callback(g)
  OBVIOUS
<1>5. /\ e \in Printed /\ e.of = g.of /\ e.err = g.err /\ e.k = g.k
      /\ e.says = "id" <=> e.of = "sendMessage" /\ e.err = "none"
      /\ e.says \in {"message", "nothing"} <=> e.of = "receiveMessage" /\ e.err = "none"
  BY <1>4, CallbackPrints
<1>6. FlightInv /\ TurnsInv /\ CreatedInv /\ AnswersInv /\ ReadsInOrder /\ now \in Nat
  BY DEF NInv, IInv, TypeOK, OrderInv
<1>7. TurnsInv'
  BY <1>1, <1>6, ReadTurns
<1>8. g \in Unread /\ Unread' = Unread \ {g} /\ Waiting' = Waiting
  <2>1. Waiting' = Waiting
    BY <1>1 DEF Waiting
  <2> QED
    BY <1>1, <1>2, <1>6, <2>1, ReadSets
<1>9. /\ console \in Seq(Printed) /\ console' = Append(console, e)
      /\ Len(console) \in Nat /\ DOMAIN console = 1..Len(console)
  BY <1>2, <1>4, <1>6, LenProperties DEF RunCallback, AnswersInv
<1>10. /\ console' \in Seq(Printed)
       /\ DOMAIN console' = 1..(Len(console) + 1)
       /\ \A n \in 1..Len(console) : console'[n] = console[n]
       /\ console'[Len(console) + 1] = e
  <2>1. /\ Append(console, e) \in Seq(Printed) /\ Len(Append(console, e)) = Len(console) + 1
        /\ \A i \in 1..Len(console) : Append(console, e)[i] = console[i]
        /\ Append(console, e)[Len(console) + 1] = e
    BY <1>5, <1>9, AppendProperties
  <2> QED
    BY <1>9, <2>1, LenProperties
<1>11. \A n \in DOMAIN console' : n \in DOMAIN console \/ n = Len(console) + 1
  BY <1>9, <1>10
<1>12. \A of \in Calls :
         (\E m \in Flight' : m.of = of) <=> (\E m \in Flight : m.of = of) /\ of # g.of
  <2>1. \A m \in Flight : m.of = g.of => m = g
    BY <1>6, <1>8, InFlightTypes DEF Flight
  <2>2. Flight' = Flight \ {g}
    <3>1. g \notin Waiting
      BY <1>6, <1>8, InFlightTypes
    <3> QED
      BY <1>8, <3>1 DEF Flight
  <2> QED
    BY <2>1, <2>2
<1>13. g.of \in Calls /\ \A n \in DOMAIN console : console[n].of # g.of
  <2>1. g.of \in Calls /\ g \in Flight
    BY <1>8 DEF Message, Flight
  <2> QED
    BY <1>6, <2>1 DEF AnswersInv
<1>14. \A of \in Calls :
         (\E n \in DOMAIN console' : console'[n].of = of)
           <=> of = g.of \/ \E n \in DOMAIN console : console[n].of = of
  BY <1>5, <1>9, <1>10, <1>11
<1>15. \A of \in Calls :
         (\E m \in Flight' : m.of = of) <=> ~\E n \in DOMAIN console' : console'[n].of = of
  BY <1>6, <1>12, <1>14 DEF AnswersInv
<1>16. \A i, n \in DOMAIN console' : console'[i].of = console'[n].of => i = n
  BY <1>5, <1>6, <1>9, <1>10, <1>11, <1>13 DEF AnswersInv
<1>17. e.of \in {"sendMessage", "receiveMessage"} /\ e.err = "none" =>
         \E i \in DOMAIN console : console[i].of = "getQueueAttributes"
  <2>1. "getQueueAttributes" \in Calls
    BY DEF Calls, Requests
  <2> QED
    BY <1>1, <1>2, <1>3, <1>5, <1>6, <2>1, FinalIsInOrder DEF AnswersInv
<1>18. e.of = "receiveMessage" /\ e.err = "none" =>
         \E i \in DOMAIN console : console[i].of = "sendMessage"
  <2>1. "sendMessage" \in Calls
    BY DEF Calls, Requests
  <2> QED
    BY <1>1, <1>2, <1>3, <1>5, <1>6, <2>1, FinalIsInOrder DEF AnswersInv
<1>19. e.of = "getQueueAttributes" => e.err # "refused"
  BY <1>5, <1>6, <1>8 DEF CreatedInv
<1>20. e.k.t <= now
  BY <1>2, <1>5 DEF ReplyOK
<1>21. /\ \A n \in DOMAIN console : 1..(n - 1) \subseteq DOMAIN console
       /\ 1..((Len(console) + 1) - 1) = DOMAIN console
  BY <1>9
<1>22. \A n \in DOMAIN console' :
         /\ console'[n].says = "id" <=> console'[n].of = "sendMessage" /\ console'[n].err = "none"
         /\ console'[n].says \in {"message", "nothing"} <=>
              console'[n].of = "receiveMessage" /\ console'[n].err = "none"
         /\ console'[n].of = "getQueueAttributes" => console'[n].err # "refused"
         /\ console'[n].of = "receiveMessage" /\ console'[n].err = "none" =>
              \E i \in 1..(n - 1) : console'[i].of = "sendMessage"
         /\ console'[n].k.t <= now
  <2>1. ASSUME NEW n \in DOMAIN console, console[n].of = "receiveMessage" /\ console[n].err = "none"
        PROVE  \E i \in 1..(n - 1) : console'[i].of = "sendMessage"
    BY <1>6, <1>9, <1>10, <1>21, <2>1 DEF AnswersInv
  <2>2. ASSUME e.of = "receiveMessage" /\ e.err = "none"
        PROVE  \E i \in 1..((Len(console) + 1) - 1) : console'[i].of = "sendMessage"
    BY <1>9, <1>10, <1>18, <1>21, <2>2
  <2>3. \A n \in DOMAIN console : console'[n] = console[n]
    BY <1>9, <1>10
  <2> QED
    BY <1>5, <1>6, <1>10, <1>11, <1>19, <1>20, <2>1, <2>2, <2>3 DEF AnswersInv
<1>23. AnswersInv'
  BY <1>1, <1>10, <1>15, <1>16, <1>22 DEF AnswersInv
<1>24. \A n \in DOMAIN console' : console'[n].says \in {"id", "message", "nothing"} =>
         \E i \in 1..(n - 1) : console'[i].of = "getQueueAttributes"
  <2>1. ASSUME NEW n \in DOMAIN console, console[n].says \in {"id", "message", "nothing"}
        PROVE  \E i \in 1..(n - 1) : console'[i].of = "getQueueAttributes"
    BY <1>6, <1>9, <1>10, <1>21, <2>1 DEF ReadsInOrder
  <2>2. ASSUME e.says \in {"id", "message", "nothing"}
        PROVE  \E i \in 1..((Len(console) + 1) - 1) : console'[i].of = "getQueueAttributes"
    BY <1>5, <1>9, <1>10, <1>17, <1>21, <2>2
  <2>3. \A n \in DOMAIN console : console'[n] = console[n]
    BY <1>9, <1>10
  <2> QED
    BY <1>10, <1>11, <2>1, <2>2, <2>3
<1>25. \A i, n \in DOMAIN console' :
         console'[i].of = "receiveMessage" /\ console'[i].err = "none"
           /\ console'[n].of = "sendMessage" => n < i
  <2> SUFFICES ASSUME NEW i \in DOMAIN console', NEW n \in DOMAIN console',
                      console'[i].of = "receiveMessage", console'[i].err = "none",
                      console'[n].of = "sendMessage"
               PROVE  n < i
    OBVIOUS
  <2>1. PICK j \in 1..(i - 1) : console'[j].of = "sendMessage"
    BY <1>22
  <2>2. j \in DOMAIN console' /\ j < i
    BY <1>9, <1>10
  <2> QED
    BY <1>16, <2>1, <2>2
<1>26. ReadsInOrder'
  BY <1>24, <1>25 DEF ReadsInOrder
<1>27. CreatedInv'
  <2>1. attrs' = attrs
    BY <1>1 DEF store
  <2>2. ~(g.of = "createQueue" /\ g.i = 1 /\ g.err = "none")
    BY <1>3 DEF Final, Requests
  <2>3. \/ attrs # Nil
        \/ Flight' = {}
        \/ \E m \in Waiting : m.of = "createQueue" /\ m.i <= 2
        \/ \E m \in Unread' : m.of = "createQueue" /\ m.i = 1 /\ m.err = "none"
    BY <1>6, <1>8, <2>2 DEF CreatedInv, Flight
  <2> QED
    BY <1>6, <1>8, <2>1, <2>3 DEF CreatedInv
<1> QED
  BY <1>7, <1>23, <1>26, <1>27 DEF OrderInv

-----------------------------------------------------------------------------
(* The connection breaks.                                                  *)

LEMMA OpenCalls ==
  ASSUME FlightInv
  PROVE  /\ InFlight \in Seq(Message) /\ Len(InFlight) \in Nat
         /\ DOMAIN InFlight = 1..Len(InFlight)
         /\ \A n \in DOMAIN InFlight : InFlight[n] \in Flight
         /\ \A m \in Flight : \E n \in DOMAIN InFlight : InFlight[n] = m
         /\ \A i, n \in DOMAIN InFlight : InFlight[i].of = InFlight[n].of => i = n
<1>1. /\ wire \in Seq(Message) /\ replies \in Seq(Message)
      /\ Len(wire) \in Nat /\ Len(replies) \in Nat
      /\ DOMAIN wire = 1..Len(wire) /\ DOMAIN replies = 1..Len(replies)
  BY LenProperties DEF FlightInv
<1>2. /\ InFlight \in Seq(Message)
      /\ Len(InFlight) = Len(replies) + Len(wire)
      /\ \A i \in 1..(Len(replies) + Len(wire)) :
           InFlight[i] = IF i <= Len(replies) THEN replies[i] ELSE wire[i - Len(replies)]
  BY <1>1, ConcatProperties DEF InFlight
<1>3. DOMAIN InFlight = 1..Len(InFlight)
  BY <1>2, LenProperties
<1>4. ASSUME NEW i \in DOMAIN InFlight
      PROVE  \/ i \in DOMAIN replies /\ InFlight[i] = replies[i]
             \/ /\ i - Len(replies) \in DOMAIN wire
                /\ InFlight[i] = wire[i - Len(replies)]
  BY <1>1, <1>2, <1>3
<1>5. \A n \in DOMAIN replies : n \in DOMAIN InFlight /\ InFlight[n] = replies[n]
  BY <1>1, <1>2, <1>3
<1>6. ASSUME NEW n \in DOMAIN wire
      PROVE  n + Len(replies) \in DOMAIN InFlight /\ InFlight[n + Len(replies)] = wire[n]
  BY <1>1, <1>2, <1>3
<1>7. \A n \in DOMAIN InFlight : InFlight[n] \in Flight
  BY <1>4 DEF Flight, Waiting, Unread
<1>8. \A m \in Flight : \E n \in DOMAIN InFlight : InFlight[n] = m
  BY <1>5, <1>6 DEF Flight, Waiting, Unread
<1>9. ASSUME NEW i \in DOMAIN InFlight, NEW n \in DOMAIN InFlight, InFlight[i].of = InFlight[n].of
      PROVE  i = n
  <2>1. i \in Int /\ n \in Int
    BY <1>2, <1>3
  <2>2. i - Len(replies) = n - Len(replies) => i = n
    BY <1>1, <2>1
  <2> QED
    BY <1>4, <1>9, <2>2 DEF FlightInv
<1> QED
  BY <1>1, <1>2, <1>3, <1>7, <1>8, <1>9

(* The calls in flight are answered, after the others.                     *)
LEMMA LostAnswers ==
  ASSUME NInv, AnswersInv, ConnectionLost
  PROVE  /\ console' \in Seq(Printed) /\ Len(console) \in Nat /\ Len(InFlight) \in Nat
         /\ DOMAIN console = 1..Len(console)
         /\ DOMAIN console' = 1..(Len(console) + Len(InFlight))
         /\ \A n \in DOMAIN console : n \in DOMAIN console' /\ console'[n] = console[n]
         /\ \A n \in DOMAIN InFlight : /\ n + Len(console) \in DOMAIN console'
                                      /\ console'[n + Len(console)].of = InFlight[n].of
         /\ \A n \in DOMAIN console' :
              \/ n \in DOMAIN console /\ console'[n] = console[n]
              \/ /\ n \notin DOMAIN console
                 /\ n - Len(console) \in DOMAIN InFlight
                 /\ console'[n].of = InFlight[n - Len(console)].of
                 /\ console'[n].err = "lost" /\ console'[n].k.t <= now
                 /\ console'[n].says \notin {"id", "message", "nothing"}
<1> DEFINE Lost(n) == Callback([InFlight[n] EXCEPT !.err = "lost"])
           lost == [n \in DOMAIN InFlight |-> Lost(n)]
<1>1. console' = console \o lost
  BY DEF ConnectionLost
<1>2. FlightInv
  BY DEF NInv
<1>3. /\ InFlight \in Seq(Message) /\ Len(InFlight) \in Nat
      /\ DOMAIN InFlight = 1..Len(InFlight)
      /\ \A n \in DOMAIN InFlight : InFlight[n] \in Flight
  BY <1>2, OpenCalls
<1>4. ASSUME NEW n \in DOMAIN InFlight
      PROVE  /\ Lost(n) \in Printed
             /\ Lost(n).of = InFlight[n].of /\ Lost(n).err = "lost" /\ Lost(n).k.t <= now
             /\ Lost(n).says \notin {"id", "message", "nothing"}
  <2>1. PICK m \in Message : m = InFlight[n] /\ m.k.t <= now
    BY <1>2, <1>3, InFlightTypes
  <2>2. PICK x : x = [m EXCEPT !.err = "lost"]
    OBVIOUS
  <2>3. x \in Message /\ x.of = m.of /\ x.err = "lost" /\ x.k = m.k
    BY <2>2 DEF Message
  <2>4. PICK e : e = Callback(x)
    OBVIOUS
  <2>5. e \in Printed /\ e.of = m.of /\ e.err = "lost" /\ e.k = m.k
        /\ e.says \notin {"id", "message", "nothing"}
    BY <2>3, <2>4, CallbackPrints
  <2>6. Lost(n) = e
    BY <2>1, <2>2, <2>4
  <2> QED
    BY <2>1, <2>5, <2>6
<1> HIDE DEF Lost
<1>5. lost \in Seq(Printed) /\ Len(lost) = Len(InFlight)
  BY <1>3, <1>4, SeqDef, LenProperties
<1> DEFINE L == Len(console)
<1>6. console \in Seq(Printed) /\ L \in Nat /\ DOMAIN console = 1..L
  BY LenProperties DEF AnswersInv
<1>9. \A n \in DOMAIN InFlight : lost[n] = Lost(n)
  OBVIOUS
<1> HIDE DEF lost
<1>7. /\ console' \in Seq(Printed) /\ Len(console') = L + Len(InFlight)
      /\ \A i \in 1..(L + Len(InFlight)) :
           console'[i] = IF i <= L THEN console[i] ELSE lost[i - L]
  <2>1. /\ console \o lost \in Seq(Printed)
        /\ Len(console \o lost) = Len(console) + Len(lost)
        /\ \A i \in 1..(Len(console) + Len(lost)) :
             (console \o lost)[i] = IF i <= Len(console) THEN console[i] ELSE lost[i - Len(console)]
    BY <1>5, <1>6, ConcatProperties
  <2> QED
    BY <1>1, <1>5, <2>1
<1>8. DOMAIN console' = 1..(L + Len(InFlight))
  BY <1>7, LenProperties
<1> HIDE DEF L
<1>10. ASSUME NEW i \in DOMAIN console'
      PROVE  \/ i \in DOMAIN console /\ console'[i] = console[i]
             \/ /\ i - L \in DOMAIN InFlight /\ i \notin DOMAIN console
                /\ console'[i] = Lost(i - L)
  <2>1. CASE i <= L
    BY <1>6, <1>7, <1>8, <2>1
  <2>2. CASE L < i
    <3>1. i - L \in 1..Len(InFlight) /\ ~(i <= L) /\ i \in 1..(L + Len(InFlight))
      BY <1>3, <1>6, <1>8, <2>2
    <3> QED
      BY <1>3, <1>6, <1>7, <1>9, <3>1
  <2> QED
    BY <1>6, <1>8, <2>1, <2>2
<1>11. \A n \in DOMAIN console : n \in DOMAIN console' /\ console'[n] = console[n]
  BY <1>3, <1>6, <1>7, <1>8
<1>12. \A n \in DOMAIN InFlight : n + L \in DOMAIN console' /\ console'[n + L] = Lost(n)
  BY <1>3, <1>6, <1>7, <1>8, <1>9
<1> QED
  BY <1>3, <1>4, <1>6, <1>7, <1>8, <1>10, <1>11, <1>12 DEF L

LEMMA LosingKeepsOrder ==
  ASSUME NInv, OrderInv, ConnectionLost
  PROVE  OrderInv'
<1> DEFINE L == Len(console)
<1>1. /\ replies' = <<>> /\ wire' = <<>>
      /\ UNCHANGED <<store, now>>
  BY DEF ConnectionLost
<1>2. FlightInv /\ AnswersInv /\ ReadsInOrder
  BY DEF NInv, OrderInv
<1>3. /\ DOMAIN InFlight = 1..Len(InFlight)
      /\ \A n \in DOMAIN InFlight : InFlight[n] \in Flight
      /\ \A m \in Flight : \E n \in DOMAIN InFlight : InFlight[n] = m
      /\ \A i, n \in DOMAIN InFlight : InFlight[i].of = InFlight[n].of => i = n
  BY <1>2, OpenCalls
<1>4. /\ console' \in Seq(Printed) /\ L \in Nat /\ Len(InFlight) \in Nat
      /\ DOMAIN console = 1..L /\ DOMAIN console' = 1..(L + Len(InFlight))
  BY <1>2, LostAnswers
<1>5. \A n \in DOMAIN console : n \in DOMAIN console' /\ console'[n] = console[n]
  BY <1>2, LostAnswers
<1>6. \A n \in DOMAIN InFlight : n + L \in DOMAIN console' /\ console'[n + L].of = InFlight[n].of
  BY <1>2, LostAnswers
<1> DEFINE IsLost(n) == /\ n \notin DOMAIN console
                        /\ n - L \in DOMAIN InFlight
                        /\ console'[n].of = InFlight[n - L].of
                        /\ console'[n].err = "lost" /\ console'[n].k.t <= now
                        /\ console'[n].says \notin {"id", "message", "nothing"}
<1>7. \A n \in DOMAIN console' : (n \in DOMAIN console /\ console'[n] = console[n]) \/ IsLost(n)
  BY <1>2, LostAnswers
<1> HIDE DEF L
<1>8. Waiting' = {} /\ Unread' = {} /\ Flight' = {}
  <2>1. DOMAIN <<>> = {}
    OBVIOUS
  <2> QED
    BY <1>1, <2>1 DEF Waiting, Unread, Flight
<1>9. \A n \in DOMAIN console : 1..(n - 1) \subseteq DOMAIN console
  BY <1>4
<1>10. \A of \in Calls : \E n \in DOMAIN console' : console'[n].of = of
  <2> TAKE of \in Calls
  <2>1. CASE \E n \in DOMAIN console : console[n].of = of
    BY <1>5, <2>1
  <2>2. CASE \E m \in Flight : m.of = of
    BY <1>3, <1>6, <2>2
  <2> QED
    BY <1>2, <2>1, <2>2 DEF AnswersInv
<1>11. \A i \in DOMAIN console, n \in DOMAIN InFlight : console[i].of # InFlight[n].of
  <2>1. ASSUME NEW i \in DOMAIN console, NEW m \in Flight
        PROVE  console[i].of # m.of
    <3>1. m.of \in Calls
      BY <1>2, InFlightTypes DEF Message
    <3> QED
      BY <1>2, <3>1 DEF AnswersInv
  <2> QED
    BY <1>3, <2>1
<1>12. \A i, n \in DOMAIN console' : console'[i].of = console'[n].of => i = n
  <2> TAKE i, n \in DOMAIN console'
  <2>1. i - L = n - L => i = n
    BY <1>4
  <2> QED
    BY <1>2, <1>3, <1>7, <1>11, <2>1 DEF AnswersInv
<1>13. \A n \in DOMAIN console' :
         /\ console'[n].says = "id" <=> console'[n].of = "sendMessage" /\ console'[n].err = "none"
         /\ console'[n].says \in {"message", "nothing"} <=>
              console'[n].of = "receiveMessage" /\ console'[n].err = "none"
         /\ console'[n].of = "getQueueAttributes" => console'[n].err # "refused"
         /\ console'[n].of = "receiveMessage" /\ console'[n].err = "none" =>
              \E i \in 1..(n - 1) : console'[i].of = "sendMessage"
         /\ console'[n].k.t <= now
  <2> TAKE n \in DOMAIN console'
  <2>1. CASE n \in DOMAIN console /\ console'[n] = console[n]
    BY <1>2, <1>5, <1>9, <2>1 DEF AnswersInv
  <2> QED
    BY <1>7, <2>1
<1>14. AnswersInv'
  BY <1>1, <1>4, <1>8, <1>10, <1>12, <1>13 DEF AnswersInv
<1>15. \A n \in DOMAIN console' : console'[n].says \in {"id", "message", "nothing"} =>
         \E i \in 1..(n - 1) : console'[i].of = "getQueueAttributes"
  <2> TAKE n \in DOMAIN console'
  <2>1. CASE n \in DOMAIN console /\ console'[n] = console[n]
    BY <1>2, <1>5, <1>9, <2>1 DEF ReadsInOrder
  <2> QED
    BY <1>7, <2>1
<1>16. \A i, n \in DOMAIN console' :
         console'[i].of = "receiveMessage" /\ console'[i].err = "none"
           /\ console'[n].of = "sendMessage" => n < i
  <2> SUFFICES ASSUME NEW i \in DOMAIN console', NEW n \in DOMAIN console',
                      console'[i].of = "receiveMessage", console'[i].err = "none",
                      console'[n].of = "sendMessage"
               PROVE  n < i
    OBVIOUS
  <2>1. PICK j \in 1..(i - 1) : console'[j].of = "sendMessage"
    BY <1>13
  <2>2. j \in DOMAIN console' /\ j < i
    BY <1>4
  <2> QED
    BY <1>12, <2>1, <2>2
<1>17. TurnsInv' /\ CreatedInv'
  <2>1. DOMAIN <<>> = {}
    OBVIOUS
  <2> QED
    BY <1>1, <1>8, <2>1 DEF TurnsInv, CreatedInv
<1> QED
  BY <1>14, <1>15, <1>16, <1>17 DEF OrderInv, ReadsInOrder

-----------------------------------------------------------------------------
LEMMA InitOrder == NInit => OrderInv
<1> SUFFICES ASSUME NInit PROVE OrderInv
  OBVIOUS
<1>1. FlightInv /\ replies = <<>> /\ console = <<>>
  BY InitNInv DEF NInit, NInv
<1>2. wire = [n \in 1..4 |-> First(Script[n])] /\ DOMAIN wire = 1..4
  BY ScriptDomain DEF NInit
<1>3. \A n \in 1..4 : /\ wire[n] \in Message
                      /\ wire[n].of = Script[n] /\ wire[n].i = 1 /\ wire[n].err = "none"
  BY <1>1, <1>2, InFlightTypes DEF First
<1>4. /\ Script[1] = "createQueue" /\ Script[2] = "getQueueAttributes"
      /\ Script[3] = "sendMessage" /\ Script[4] = "receiveMessage"
  BY DEF Script
<1>5. /\ Turn(wire[1]) = 5 /\ Turn(wire[2]) = 6 /\ Turn(wire[3]) = 7 /\ Turn(wire[4]) = 8
  BY <1>3, <1>4, TurnValue
<1>6. \A n \in 1..4 : Turn(wire[n]) = 4 + n
  BY <1>5
<1>7. DOMAIN <<>> = {}
  OBVIOUS
<1>8. TurnsInv
  BY <1>1, <1>2, <1>6, <1>7, ScriptDomain DEF TurnsInv, InTurn
<1>9. Unread = {} /\ Waiting = {wire[n] : n \in 1..4}
  BY <1>1, <1>2, <1>7 DEF Unread, Waiting
<1>10. CreatedInv
  BY <1>3, <1>4, <1>9 DEF CreatedInv
<1>11. \A of \in Calls : \E m \in Flight : m.of = of
  <2>1. Calls = {Script[n] : n \in 1..4}
    BY <1>4 DEF Calls, Requests
  <2> QED
    BY <1>3, <1>9, <2>1 DEF Flight
<1>12. AnswersInv /\ ReadsInOrder
  <2>1. console \in Seq(Printed)
    BY <1>1, EmptySeq
  <2> QED
    BY <1>1, <1>7, <1>11, <2>1 DEF AnswersInv, ReadsInOrder
<1> QED
  BY <1>8, <1>10, <1>12 DEF OrderInv

LEMMA NextKeepsOrder == NInv /\ OrderInv /\ [NNext]_nvars => OrderInv'
<1> SUFFICES ASSUME NInv, OrderInv, [NNext]_nvars PROVE OrderInv'
  OBVIOUS
<1>1. CASE [Next]_vars /\ UNCHANGED peervars
  <2>1. now \in Nat /\ now' \in Nat /\ now <= now'
    BY <1>1, NowFrame DEF NInv, IInv, TypeOK, Tick
  <2>2. wire' = wire /\ replies' = replies /\ console' = console
    BY <1>1 DEF peervars
  <2>3. Waiting' = Waiting /\ Unread' = Unread /\ Flight' = Flight
    BY <2>2 DEF Waiting, Unread, Flight
  <2>4. AnswersInv' /\ ReadsInOrder'
    BY <2>1, <2>2, <2>3, ConsoleStays DEF OrderInv
  <2>5. attrs # Nil => attrs' # Nil
    BY <1>1, AttrsStay DEF NInv
  <2>6. CreatedInv'
    BY <2>3, <2>5 DEF OrderInv, CreatedInv
  <2>7. TurnsInv'
    <3>1. \A a, b : InTurn(a, b)' <=> InTurn(a, b)
      BY DEF InTurn, Turn
    <3> QED
      BY <2>2, <3>1 DEF OrderInv, TurnsInv
  <2> QED
    BY <2>4, <2>6, <2>7 DEF OrderInv
<1> QED
  BY <1>1, RedisKeepsOrder, GoingOnKeepsOrder, AnswerKeepsOrder, LosingKeepsOrder
  DEF NNext, PeerNext, nvars

(* The requests keep their turns, and each call is in flight or answered,  *)
(* never both, and never answered twice, also when the connection breaks.  *)
THEOREM OrderInvariance == NSpec => []OrderInv
  BY InitOrder, NextKeepsOrder, PeerInvariance, PTL DEF NSpec

(* However Redis and the event loop take turns with the other clients, and *)
(* wherever the connection breaks, the identifier of the sent message and  *)
(* what was received are printed after the statistics of the queue, and    *)
(* the answer of the receive after the answer of the send, as the script   *)
(* makes the calls.                                                        *)
THEOREM AnswersInOrder == NSpec => []ReadsInOrder
<1>1. OrderInv => ReadsInOrder
  BY DEF OrderInv
<1> QED
  BY <1>1, OrderInvariance, PTL

-----------------------------------------------------------------------------
(* The receive finds what the send before it stored: Go clients' steps.    *)

LEMMA EndedStay ==
  ASSUME IInv, [Next]_vars, NEW u \in Uids,
         ~\E c \in Clients : SendMessageZAdd(c) /\ call[c].uid = u
  PROVE  /\ hist[u].fate # "none" => hist'[u].fate # "none"
         /\ hist[u].st = "sent" => hist'[u].st = "sent"
<1>0. /\ hist \in [Uids -> HistType]
      /\ \A c \in Clients : PlaceOK(call[c], hist)
  BY DEF IInv, TypeOK, SenderInv
<1>1. ASSUME NEW c \in Clients, SendMessageZAdd(c)
      PROVE  hist'[u] = hist[u]
  BY <1>0, <1>1 DEF SendMessageZAdd
<1>2. ASSUME NEW c \in Clients, SendMessageHIncrBy(c) \/ Fail(c)
      PROVE  /\ hist'[u].fate = hist[u].fate
             /\ hist[u].st = "sent" => hist'[u].st = "sent"
  BY <1>0, <1>2 DEF SendMessageHIncrBy, Fail, HistType
<1>3. ASSUME NEW c \in Clients, DeleteMessageZRem(c) \/ DeleteQueueDel(c)
      PROVE  /\ hist[u].fate # "none" => hist'[u].fate # "none"
             /\ hist'[u].st = hist[u].st
  BY <1>0, <1>3 DEF DeleteMessageZRem, DeleteQueueDel, HistType
<1>4. ASSUME NEW c \in Clients, ReceiveMessageEval(c) \/ PopMessageEval(c)
      PROVE  /\ hist[u].fate # "none" => hist'[u].fate # "none"
             /\ hist'[u].st = hist[u].st
  <2>1. PICK v \in Uids : \E f : /\ hist' = Handed(v, TimeSentUnix(call[c]), f)
                                 /\ f = hist[v].fate \/ f # "none"
    BY <1>4 DEF ReceiveMessageEval, PopMessageEval
  <2> QED
    BY <1>0, <2>1 DEF Handed, HistType
<1> QED
  BY <1>1, <1>2, <1>3, <1>4, HistFrame

(* A message the program stored, or whose send was answered, is in nobody's *)
(* hands that would add it again.                                           *)
LEMMA NotAddedAgain ==
  ASSUME IInv, NEW u \in Uids, Stored(u) \/ hist[u].st = "sent"
  PROVE  ~\E c \in Clients : SendMessageZAdd(c) /\ call[c].uid = u
<1> SUFFICES ASSUME NEW c \in Clients, SendMessageZAdd(c), call[c].uid = u PROVE FALSE
  OBVIOUS
<1>1. call[c].op = "SendMessage" /\ call[c].pc = "zadd" /\ PlaceOK(call[c], hist)
  BY DEF SendMessageZAdd, At, IInv, SenderInv
<1> QED
  BY <1>1 DEF Stored, PlaceOK

LEMMA EnqueuedFacts ==
  ASSUME NInv, AnswersInv, FoundInv, NEW k \in Enqueued
  PROVE  /\ k \in CallType /\ k.t \in Nat /\ k.t <= now /\ k.uid \in Uids
         /\ Stored(k.uid) \/ hist[k.uid].st = "sent"
<1>1. \A x \in CallType : x.t \in Nat
  BY DEF CallType
<1>2. ASSUME NEW m \in Unread, m.of = "sendMessage", m.i = 2, k = m.k
      PROVE  k \in CallType /\ k.t <= now /\ Stored(k.uid)
  BY <1>2, InFlightTypes DEF NInv, ReplyOK, Message
<1>3. ASSUME NEW n \in DOMAIN console, console[n].says = "id", k = console[n].k
      PROVE  k \in CallType /\ k.t <= now /\ hist[k.uid].st = "sent"
  <2>1. console[n] \in Printed
    BY ElementOfSeq, LenProperties DEF AnswersInv
  <2> QED
    BY <1>3, <2>1 DEF AnswersInv, FoundInv, Printed
<1>4. k.uid \in Uids
  BY DEF FoundInv
<1> QED
  BY <1>1, <1>2, <1>3, <1>4 DEF Enqueued

(* Steps that neither enqueue nor find nothing.                            *)
LEMMA FoundFrame ==
  ASSUME FoundInv,
         Enqueued' \subseteq Enqueued,
         NothingFound' => NothingFound,
         \A n \in DOMAIN console' :
           console'[n].says = "id" => hist'[console'[n].k.uid].st = "sent",
         \A k \in Enqueued :
           /\ hist'[k.uid].got = 0 /\ zset'[k.uid] # Nil =>
                hist[k.uid].got = 0 /\ zset'[k.uid] = zset[k.uid]
           /\ hist[k.uid].got > 0 \/ hist[k.uid].fate # "none" =>
                hist'[k.uid].got > 0 \/ hist'[k.uid].fate # "none",
         \A r \in Looked' : \E s \in Looked : r.k = s.k,
         \A m \in Flight' : m.of = "sendMessage" =>
           \E x \in Flight : x.of = "sendMessage" /\ m.k = x.k
  PROVE  FoundInv'
<1>1. \A k \in Enqueued' :
        /\ k.uid \in Uids
        /\ hist'[k.uid].got = 0 /\ zset'[k.uid] # Nil =>
             zset'[k.uid] = Ms(k.t + Seconds(k.q.delay))
        /\ k.q.delay = 0 /\ NothingFound' => hist'[k.uid].got > 0 \/ hist'[k.uid].fate # "none"
  BY DEF FoundInv
<1>2. \A r \in Looked' :
        /\ \A k \in Enqueued' : k.t <= r.k.t
        /\ \A m \in Flight' : m.of = "sendMessage" => m.k.t <= r.k.t
  BY DEF FoundInv
<1> QED
  BY <1>1, <1>2 DEF FoundInv

LEMMA GoClientsKeepFound ==
  ASSUME NInv, AnswersInv, HideInv, FoundInv, [Next]_vars, UNCHANGED peervars
  PROVE  FoundInv'
<1>1. wire' = wire /\ replies' = replies /\ console' = console
  BY DEF peervars
<1>2. Waiting' = Waiting /\ Unread' = Unread
  BY <1>1 DEF Waiting, Unread
<1>3. /\ Enqueued' = Enqueued /\ Looked' = Looked /\ Flight' = Flight
      /\ NothingFound' = NothingFound
  BY <1>1, <1>2 DEF Enqueued, Looked, Flight, NothingFound, Said
<1>4. ASSUME NEW k \in Enqueued
      PROVE  /\ hist'[k.uid].got = 0 /\ zset'[k.uid] # Nil =>
                  hist[k.uid].got = 0 /\ zset'[k.uid] = zset[k.uid]
             /\ hist[k.uid].got > 0 \/ hist[k.uid].fate # "none" =>
                  hist'[k.uid].got > 0 \/ hist'[k.uid].fate # "none"
             /\ hist[k.uid].st = "sent" => hist'[k.uid].st = "sent"
  <2>1. /\ IInv /\ k.uid \in Uids
        /\ ~\E c \in Clients : SendMessageZAdd(c) /\ call[c].uid = k.uid
    BY EnqueuedFacts, NotAddedAgain DEF NInv
  <2> QED
    BY <2>1, UnreceivedStay, EndedStay, GotStays
<1>5. \A n \in DOMAIN console :
        console[n].says = "id" => hist'[console[n].k.uid].st = "sent"
  BY <1>4 DEF FoundInv, Enqueued
<1> QED
  BY <1>1, <1>3, <1>4, <1>5, FoundFrame

-----------------------------------------------------------------------------
(* Redis's steps.                                                          *)

LEMMA ServedKnowledge ==
  ASSUME FlightInv, wire # <<>>, wire' = Tail(wire),
         NEW r \in Message, replies' = Append(replies, r), console' = console
  PROVE  /\ Head(wire) \in Waiting
         /\ r.of = "sendMessage" /\ r.i = 2 => Enqueued' = Enqueued \cup {r.k}
         /\ ~(r.of = "sendMessage" /\ r.i = 2) => Enqueued' = Enqueued
         /\ \A x \in Looked' : x \in Looked \/ (x = r /\ r.of = "receiveMessage" /\ r.i = 1)
         /\ NothingFound' =>
              NothingFound \/ (r.of = "receiveMessage" /\ r.i = 2 /\ r.k.uid = Nil)
         /\ \A m \in Flight' : m \in Flight \/ m = r
<1>1. /\ Head(wire) \in Waiting
      /\ Waiting' = Waiting \ {Head(wire)} /\ Unread' = Unread \cup {r}
  BY ServedSets
<1> DEFINE S(U) == {x \in U : x.of = "sendMessage" /\ x.i = 2}
<1>2. S(Unread') = IF r.of = "sendMessage" /\ r.i = 2 THEN S(Unread) \cup {r} ELSE S(Unread)
  BY <1>1
<1>3. /\ Enqueued = {m.k : m \in S(Unread)}
                      \cup {console[n].k : n \in {i \in DOMAIN console : console[i].says = "id"}}
      /\ Enqueued' = {m.k : m \in S(Unread')}
                      \cup {console[n].k : n \in {i \in DOMAIN console : console[i].says = "id"}}
  BY DEF Enqueued
<1> HIDE DEF S
<1>4. /\ r.of = "sendMessage" /\ r.i = 2 => Enqueued' = Enqueued \cup {r.k}
      /\ ~(r.of = "sendMessage" /\ r.i = 2) => Enqueued' = Enqueued
  BY <1>2, <1>3
<1>5. \A x \in Looked' : x \in Looked \/ (x = r /\ r.of = "receiveMessage" /\ r.i = 1)
  BY <1>1 DEF Looked
<1>6. NothingFound' => NothingFound \/ (r.of = "receiveMessage" /\ r.i = 2 /\ r.k.uid = Nil)
  BY <1>1 DEF NothingFound, Said
<1>7. \A m \in Flight' : m \in Flight \/ m = r
  BY <1>1 DEF Flight
<1> QED
  BY <1>1, <1>4, <1>5, <1>6, <1>7

LEMMA CreatingKeepsFound ==
  ASSUME NInv, OrderInv, FoundInv, ServeTime \/ ServeHSetNX \/ ServeSAdd \/ ServeStats
  PROVE  FoundInv'
<1>1. PICK h, r \in Message :
           /\ wire # <<>> /\ h = Head(wire) /\ wire' = Tail(wire) /\ RequestOK(h)
           /\ replies' = Append(replies, r) /\ r.of = h.of /\ r.i = h.i
           /\ now' = now /\ console' = console
  BY RedisReplies DEF Redis
<1>2. Command(h) \in {"time", "stats", "hsetnx", "sadd"} /\ zset' = zset /\ hist' = hist
  BY <1>1 DEF ServeTime, ServeHSetNX, ServeSAdd, ServeStats, Serves, store
<1>3. r.of \notin {"sendMessage", "receiveMessage"}
  BY <1>1, <1>2, PlaceInCall DEF RequestOK
<1>4. /\ Enqueued' = Enqueued
      /\ \A x \in Looked' : x \in Looked
      /\ NothingFound' => NothingFound
      /\ \A m \in Flight' : m \in Flight \/ m = r
  BY <1>1, <1>3, ServedKnowledge DEF NInv
<1>5. \A n \in DOMAIN console : console[n].says = "id" => hist[console[n].k.uid].st = "sent"
  BY DEF FoundInv
<1> QED
  BY <1>1, <1>2, <1>3, <1>4, <1>5, FoundFrame

(* The receive reads the clock after the send did.                         *)
LEMMA LookupKeepsFound ==
  ASSUME NInv, OrderInv, FoundInv, ServeLookup
  PROVE  FoundInv'
<1>1. PICK h \in Message :
        /\ h = Head(wire) /\ wire # <<>> /\ wire' = Tail(wire)
        /\ Command(h) = "lookup" /\ RequestOK(h) /\ h.k \in CallType
  BY FirstRequest DEF ServeLookup
<1>2. h.i = 1 /\ h.of \in {"sendMessage", "receiveMessage"}
  BY <1>1, PlaceInCall DEF RequestOK
<1>3. PICK k : k = [h.k EXCEPT !.t = now, !.q = attrs]
  OBVIOUS
<1>4. k \in CallType /\ k.t = now /\ now \in Nat
  <2>1. attrs \in Attrs \cup {Nil} /\ now \in Nat /\ Attrs \subseteq Options
    BY DEF NInv, IInv, TypeOK, StoreTypeOK, Attrs, Options, OptInt
  <2> QED
    BY <1>1, <1>3, <2>1 DEF CallType
<1>5. PICK e \in {"none", "refused"} : Replies(e, k)
  BY <1>1, <1>3 DEF ServeLookup, Check
<1>6. PICK r \in Message :
        replies' = Append(replies, r) /\ r.of = h.of /\ r.i = 1 /\ r.k = k
  BY <1>1, <1>2, <1>4, <1>5, Replying DEF NInv
<1>7. /\ UNCHANGED <<zset, hist, now, console>>
      /\ FlightInv /\ TurnsInv /\ AnswersInv
  BY <1>5 DEF ServeLookup, Replies, store, NInv, OrderInv
<1>8. /\ h \in Waiting
      /\ Enqueued' = Enqueued
      /\ \A x \in Looked' : x \in Looked \/ (x = r /\ r.of = "receiveMessage")
      /\ NothingFound' => NothingFound
      /\ \A m \in Flight' : m \in Flight \/ m = r
  BY <1>1, <1>6, <1>7, ServedKnowledge
<1>9. \A x \in Enqueued : x.t <= now
  BY <1>7, EnqueuedFacts
<1>10. \A m \in Flight : m.k.t <= now
  BY <1>7, InFlightTypes
<1>11. h.of = "sendMessage" => Looked = {}
  <2> SUFFICES ASSUME h.of = "sendMessage", NEW x \in Looked PROVE FALSE
    OBVIOUS
  <2>1. Turn(h) = 7
    BY <1>2, TurnValue
  <2>2. x \in Waiting \cup Unread /\ x.of = "receiveMessage"
    BY DEF Looked
  <2>3. x \in Message
    BY <1>7, <2>2, InFlightTypes
  <2>4. CASE x \in Waiting /\ x.i = 2
    <3>1. Turn(x) = 12
      BY <2>2, <2>3, <2>4, TurnValue
    <3>2. InTurn(h, x)
      BY <1>1, <1>7, <2>2, <2>4, FirstsTurn
    <3> QED
      BY <2>1, <3>1, <3>2, ScriptDomain DEF InTurn
  <2>5. CASE x \in Unread /\ x.i = 1
    <3>1. Turn(x) = 8
      BY <2>2, <2>3, <2>5, TurnValue
    <3>2. InTurn(x, h)
      BY <1>1, <1>7, <2>5, FirstsTurn
    <3> QED
      BY <2>1, <3>1, <3>2 DEF InTurn
  <2> QED
    BY <2>4, <2>5 DEF Looked
<1>12. \A x \in Looked' :
         /\ \A y \in Enqueued' : y.t <= x.k.t
         /\ \A m \in Flight' : m.of = "sendMessage" => m.k.t <= x.k.t
  <2>1. ASSUME NEW x \in Looked, x \in Looked'
        PROVE  /\ \A y \in Enqueued' : y.t <= x.k.t
               /\ \A m \in Flight' : m.of = "sendMessage" => m.k.t <= x.k.t
    BY <1>2, <1>6, <1>8, <1>11, <2>1 DEF FoundInv
  <2>2. ASSUME r.of = "receiveMessage"
        PROVE  /\ \A y \in Enqueued' : y.t <= r.k.t
               /\ \A m \in Flight' : m.of = "sendMessage" => m.k.t <= r.k.t
    BY <1>4, <1>6, <1>8, <1>9, <1>10, <2>2
  <2> QED
    BY <1>8, <2>1, <2>2
<1>13. /\ \A n \in DOMAIN console' :
            console'[n].says = "id" => hist'[console'[n].k.uid].st = "sent"
       /\ \A y \in Enqueued' :
            /\ y.uid \in Uids
            /\ hist'[y.uid].got = 0 /\ zset'[y.uid] # Nil =>
                 zset'[y.uid] = Ms(y.t + Seconds(y.q.delay))
            /\ y.q.delay = 0 /\ NothingFound' => hist'[y.uid].got > 0 \/ hist'[y.uid].fate # "none"
  BY <1>7, <1>8 DEF FoundInv
<1> QED
  BY <1>12, <1>13 DEF FoundInv

(* The message is enqueued before the receive looks for one.               *)
LEMMA EnqueueKeepsFound ==
  ASSUME NInv, OrderInv, FoundInv, ServeEnqueue
  PROVE  FoundInv'
<1>1. PICK h \in Message :
        /\ h = Head(wire) /\ wire # <<>> /\ wire' = Tail(wire)
        /\ Command(h) = "enqueue" /\ RequestOK(h) /\ h.k \in CallType
  BY FirstRequest DEF ServeEnqueue
<1>2. h.of = "sendMessage" /\ h.i = 2
  BY <1>1, PlaceInCall DEF RequestOK
<1>3. PICK u \in Uids :
        /\ zset' = [zset EXCEPT ![u] = Ms(h.k.t + Seconds(h.k.q.delay))]
        /\ Replies("none", [h.k EXCEPT !.uid = u])
  BY <1>1 DEF ServeEnqueue
<1>4. PICK k : k = [h.k EXCEPT !.uid = u]
  OBVIOUS
<1>5. k \in CallType /\ k.uid = u /\ k.t = h.k.t /\ k.q = h.k.q
  BY <1>1, <1>4 DEF CallType
<1>6. PICK r \in Message :
        replies' = Append(replies, r) /\ r.of = "sendMessage" /\ r.i = 2 /\ r.k = k
  BY <1>1, <1>2, <1>3, <1>4, <1>5, Replying DEF NInv
<1>7. /\ console' = console /\ FlightInv /\ TurnsInv /\ AnswersInv
      /\ zset'[u] = Ms(k.t + Seconds(k.q.delay))
  BY <1>3, <1>5 DEF Replies, NInv, OrderInv, IInv, TypeOK, StoreTypeOK
<1>8. /\ h \in Waiting
      /\ Enqueued' = Enqueued \cup {k}
      /\ \A x \in Looked' : x \in Looked
      /\ NothingFound' => NothingFound
      /\ \A m \in Flight' : m \in Flight \/ m = r
  BY <1>1, <1>6, <1>7, ServedKnowledge
<1>9. \A n \in DOMAIN console : console[n].of # "sendMessage"
  <2>1. "sendMessage" \in Calls /\ h \in Flight
    BY <1>8 DEF Calls, Requests, Flight
  <2> QED
    BY <1>2, <1>7, <2>1 DEF AnswersInv
<1>10. \A n \in DOMAIN console :
         ~(console[n].of = "receiveMessage" /\ console[n].err = "none")
  <2> SUFFICES ASSUME NEW n \in DOMAIN console,
                      console[n].of = "receiveMessage", console[n].err = "none"
               PROVE  FALSE
    OBVIOUS
  <2>1. PICK i \in 1..(n - 1) : console[i].of = "sendMessage"
    BY <1>7 DEF AnswersInv
  <2>2. DOMAIN console = 1..Len(console) /\ Len(console) \in Nat
    BY <1>7, LenProperties DEF AnswersInv
  <2> QED
    BY <1>9, <2>1, <2>2
<1>11. Enqueued = {}
  <2>1. ~\E m \in Unread : m.of = "sendMessage"
    BY <1>2, <1>7, <1>8, InFlightTypes
  <2>2. ~\E n \in DOMAIN console : console[n].says = "id"
    BY <1>7, <1>9 DEF AnswersInv
  <2> QED
    BY <2>1, <2>2 DEF Enqueued
<1>12. ~NothingFound
  <2>1. ~Said("receiveMessage", "nothing")
    BY <1>7, <1>10 DEF AnswersInv, Said
  <2>2. ASSUME NEW m \in Unread, m.of = "receiveMessage", m.i = 2
        PROVE  FALSE
    <3>1. Turn(h) = 11 /\ Turn(m) = 12
      BY <1>2, <1>7, <2>2, TurnValue, InFlightTypes
    <3>2. InTurn(m, h)
      BY <1>1, <1>7, FirstsTurn
    <3> QED
      BY <3>1, <3>2 DEF InTurn
  <2> QED
    BY <2>1, <2>2 DEF NothingFound
<1>13. \A n \in DOMAIN console' : console'[n].says # "id"
  BY <1>7, <1>9 DEF AnswersInv
<1>14. \A x \in Looked' :
         /\ k.t <= x.k.t
         /\ \A m \in Flight' : m.of = "sendMessage" => m.k.t <= x.k.t
  <2>1. h \in Flight
    BY <1>8 DEF Flight
  <2> QED
    BY <1>2, <1>5, <1>6, <1>8, <2>1 DEF FoundInv
<1> QED
  BY <1>5, <1>7, <1>8, <1>11, <1>12, <1>13, <1>14 DEF FoundInv

(* A receive that finds nothing overlooks no message that is due, and the  *)
(* message of the send before it would be due.                             *)
LEMMA ReceiveKeepsFound ==
  ASSUME NInv, OrderInv, FoundInv, ServeReceive
  PROVE  FoundInv'
<1>1. PICK h \in Message :
        /\ h = Head(wire) /\ wire # <<>> /\ wire' = Tail(wire)
        /\ Command(h) = "evalsha" /\ RequestOK(h) /\ h.k \in CallType
  BY FirstRequest DEF ServeReceive
<1>2. h.of = "receiveMessage" /\ h.i = 2
  BY <1>1, PlaceInCall DEF RequestOK
<1>3. /\ FlightInv /\ TurnsInv /\ AnswersInv
      /\ hist \in [Uids -> HistType] /\ zset \in [Uids -> Int \cup {Nil}]
      /\ StoredInv /\ h.k.t \in Nat
  BY <1>1 DEF NInv, OrderInv, IInv, TypeOK, StoreTypeOK, CallType
<1>4. \A n \in DOMAIN console : console[n].says = "id" => hist[console[n].k.uid].st = "sent"
  BY DEF FoundInv
<1>5. \A n \in DOMAIN console : console[n].says = "id" => console[n].k.uid \in Uids
  BY DEF FoundInv, Enqueued
<1>6. ASSUME NEW u \in Uids, IsNext(u, TimeSentUnix(h.k)),
             zset' = [zset EXCEPT ![u] = TimeVisibilityExpiresUnix(h.k, Nil)],
             hist' = Handed(u, TimeSentUnix(h.k), hist[u].fate),
             Replies("none", [h.k EXCEPT !.uid = u])
      PROVE  FoundInv'
  <2>1. PICK k : k = [h.k EXCEPT !.uid = u]
    OBVIOUS
  <2>2. k \in CallType /\ k.uid = u
    BY <1>1, <2>1 DEF CallType
  <2>3. PICK r \in Message :
          replies' = Append(replies, r) /\ r.of = "receiveMessage" /\ r.i = 2 /\ r.k = k
    BY <1>1, <1>2, <1>6, <2>1, <2>2, Replying DEF NInv
  <2>4. u # Nil /\ console' = console
    BY <1>6, NilIsNoUid DEF Replies
  <2>5. /\ Enqueued' = Enqueued
        /\ \A x \in Looked' : x \in Looked
        /\ NothingFound' => NothingFound
        /\ \A m \in Flight' : m \in Flight \/ m = r
    BY <1>1, <1>3, <2>2, <2>3, <2>4, ServedKnowledge
  <2>6. /\ hist'[u].got > 0 /\ hist'[u].st = hist[u].st
        /\ \A v \in Uids \ {u} : hist'[v] = hist[v] /\ zset'[v] = zset[v]
    BY <1>3, <1>6 DEF Handed, HistType
  <2>7. \A n \in DOMAIN console' :
          console'[n].says = "id" => hist'[console'[n].k.uid].st = "sent"
    BY <1>4, <1>5, <2>4, <2>6
  <2>8. \A y \in Enqueued :
          /\ hist'[y.uid].got = 0 /\ zset'[y.uid] # Nil =>
               hist[y.uid].got = 0 /\ zset'[y.uid] = zset[y.uid]
          /\ hist[y.uid].got > 0 \/ hist[y.uid].fate # "none" =>
               hist'[y.uid].got > 0 \/ hist'[y.uid].fate # "none"
    <3>1. \A y \in Enqueued : y.uid \in Uids
      BY DEF FoundInv
    <3> QED
      BY <2>6, <3>1
  <2> QED
    BY <2>3, <2>5, <2>7, <2>8, FoundFrame
<1>7. ASSUME Visible(TimeSentUnix(h.k)) = {}, Replies("none", h.k), UNCHANGED <<store, held, hist>>
      PROVE  FoundInv'
  <2>1. PICK r \in Message :
          replies' = Append(replies, r) /\ r.of = "receiveMessage" /\ r.i = 2 /\ r.k = h.k
    BY <1>1, <1>2, <1>7, Replying DEF NInv
  <2>2. console' = console /\ zset' = zset /\ hist' = hist
    BY <1>7 DEF Replies, store
  <2>3. /\ h \in Waiting
        /\ Enqueued' = Enqueued
        /\ \A x \in Looked' : x \in Looked
        /\ \A m \in Flight' : m \in Flight \/ m = r
    BY <1>1, <1>3, <2>1, <2>2, ServedKnowledge
  <2>4. h \in Looked
    BY <1>2, <2>3 DEF Looked
  <2>5. ASSUME NEW k \in Enqueued, k.q.delay = 0, hist[k.uid].got = 0, hist[k.uid].fate = "none"
        PROVE  FALSE
    <3>1. k.uid \in Uids /\ k.t \in Nat /\ k.t <= h.k.t /\ hist[k.uid].st # "unsent"
      BY <1>3, <2>4, EnqueuedFacts DEF FoundInv, Stored
    <3>2. zset[k.uid] # Nil
      BY <1>3, <2>5, <3>1 DEF StoredInv
    <3>3. zset[k.uid] = Ms(k.t)
      <4>1. MaxDuration % (2 * MaxDuration) = MaxDuration
        BY RsmqAssumption, Z3
      <4>2. Wrapped(0) = 0
        BY <4>1, RsmqAssumption DEF Wrapped
      <4>3. Seconds(0) = 0
        BY <4>2, RsmqAssumption DEF Seconds
      <4>4. zset[k.uid] = Ms(k.t + Seconds(k.q.delay))
        BY <2>5, <3>2 DEF FoundInv
      <4> QED
        BY <2>5, <3>1, <4>3, <4>4
    <3>4. Ms(k.t) \in Int /\ Ms(h.k.t) \in Int /\ Ms(k.t) <= Ms(h.k.t)
      BY <1>3, <3>1, MsIsInt, MsMonotone
    <3>5. k.uid \in Visible(TimeSentUnix(h.k))
      BY <3>1, <3>2, <3>3, <3>4 DEF Visible, TimeSentUnix
    <3> QED
      BY <1>7, <3>5
  <2>6. \A k \in Enqueued' : k.q.delay = 0 => hist'[k.uid].got > 0 \/ hist'[k.uid].fate # "none"
    <3>1. \A k \in Enqueued : hist[k.uid].got \in Nat
      BY <1>3, EnqueuedFacts DEF HistType
    <3> QED
      BY <2>2, <2>3, <2>5, <3>1
  <2>7. \A x \in Looked' :
          /\ \A k \in Enqueued' : k.t <= x.k.t
          /\ \A m \in Flight' : m.of = "sendMessage" => m.k.t <= x.k.t
    BY <2>1, <2>3 DEF FoundInv
  <2>8. \A k \in Enqueued' :
          /\ k.uid \in Uids
          /\ hist'[k.uid].got = 0 /\ zset'[k.uid] # Nil =>
               zset'[k.uid] = Ms(k.t + Seconds(k.q.delay))
    BY <2>2, <2>3 DEF FoundInv
  <2> QED
    BY <1>4, <2>2, <2>6, <2>7, <2>8 DEF FoundInv
<1> QED
  BY <1>1, <1>6, <1>7 DEF ServeReceive, ReceiveScript

-----------------------------------------------------------------------------
(* The program's steps.                                                    *)

LEMMA GoingOnKeepsFound ==
  ASSUME NInv, FoundInv, GoOn
  PROVE  FoundInv'
<1>1. /\ replies # <<>> /\ replies' = Tail(replies)
      /\ UNCHANGED <<vars, console>>
  BY DEF GoOn
<1>2. PICK g \in Message : g = Head(replies) /\ ReplyOK(g)
  BY <1>1, FirstReply
<1>3. g.err = "none" /\ ~Final(g)
  BY <1>2 DEF GoOn, Final
<1>4. /\ g.i + 1 \in 1..3
      /\ g.of \in {"sendMessage", "receiveMessage"} => g.i = 1
  <2>1. /\ g.i + 1 \in DOMAIN Requests[g.of]
        /\ g.of \in {"sendMessage", "receiveMessage"} => g.i = 1
    BY <1>2, <1>3, PlaceInCall DEF ReplyOK, Final
  <2>2. DOMAIN Requests[g.of] \subseteq 1..3
    BY DEF Requests, Message, Calls
  <2> QED
    BY <2>1, <2>2
<1>5. PICK x : x = [g EXCEPT !.i = g.i + 1]
  OBVIOUS
<1>6. x \in Message /\ x.of = g.of /\ x.k = g.k
  BY <1>4, <1>5 DEF Message
<1>7. FlightInv /\ wire' = Append(wire, x)
  BY <1>2, <1>5 DEF GoOn, NInv
<1>8. g \in Unread /\ Unread' = Unread \ {g}
  BY <1>1, <1>2, <1>7, ReadSets
<1>9. Waiting' = Waiting \cup {x}
  <2>1. {Append(wire, x)[n] : n \in DOMAIN Append(wire, x)} = {wire[n] : n \in DOMAIN wire} \cup {x}
    BY <1>6, <1>7, AddedSet DEF FlightInv
  <2> QED
    BY <1>7, <2>1 DEF Waiting
<1>10. console' = console /\ zset' = zset /\ hist' = hist
  BY <1>1 DEF vars, store
<1>11. Enqueued' \subseteq Enqueued
  BY <1>8, <1>10 DEF Enqueued
<1>12. NothingFound' => NothingFound
  BY <1>8, <1>10 DEF NothingFound, Said
<1>13. \A r \in Looked' : \E s \in Looked : r.k = s.k
  <2>1. g.of = "receiveMessage" => g \in Looked
    BY <1>4, <1>8 DEF Looked
  <2>2. \A r \in Looked' : r \in Looked \/ (r = x /\ x.of = "receiveMessage")
    BY <1>8, <1>9 DEF Looked
  <2> QED
    BY <1>6, <2>1, <2>2
<1>14. \A m \in Flight' : m.of = "sendMessage" =>
         \E y \in Flight : y.of = "sendMessage" /\ m.k = y.k
  <2>1. \A m \in Flight' : m \in Flight \/ m = x
    BY <1>8, <1>9 DEF Flight
  <2>2. g \in Flight
    BY <1>8 DEF Flight
  <2> QED
    BY <1>6, <2>1, <2>2
<1>15. \A n \in DOMAIN console : console[n].says = "id" => hist[console[n].k.uid].st = "sent"
  BY DEF FoundInv
<1> QED
  BY <1>10, <1>11, <1>12, <1>13, <1>14, <1>15, FoundFrame

LEMMA AnswerKeepsFound ==
  ASSUME NInv, OrderInv, FoundInv, RunCallback
  PROVE  FoundInv'
<1>1. /\ replies # <<>> /\ replies' = Tail(replies) /\ wire' = wire
      /\ UNCHANGED <<store, now>>
  BY DEF RunCallback
<1>2. PICK g \in Message : g = Head(replies) /\ ReplyOK(g)
  BY <1>1, FirstReply
<1>3. Final(g) /\ FlightInv /\ zset' = zset /\ hist \in [Uids -> HistType]
  BY <1>1, <1>2 DEF RunCallback, store, NInv, IInv, TypeOK
<1>4. PICK e : e = Callback(g)
  OBVIOUS
<1>5. /\ e \in Printed /\ e.of = g.of /\ e.err = g.err /\ e.k = g.k
      /\ e.says = "id" <=> g.of = "sendMessage" /\ g.err = "none"
      /\ e.says = "nothing" <=> g.of = "receiveMessage" /\ g.err = "none" /\ g.k.uid = Nil
  BY <1>4, CallbackPrints
<1>6. g.of \in {"sendMessage", "receiveMessage"} /\ g.err = "none" => g.i = 2
  BY <1>2, <1>3, PlaceInCall DEF ReplyOK, Final
<1>7. g \in Unread /\ Unread' = Unread \ {g} /\ Waiting' = Waiting
  <2>1. Waiting' = Waiting
    BY <1>1 DEF Waiting
  <2> QED
    BY <1>1, <1>2, <1>3, <2>1, ReadSets
<1>8. /\ DOMAIN console = 1..Len(console) /\ Len(console) \in Nat
      /\ DOMAIN console' = 1..(Len(console) + 1)
      /\ \A n \in 1..Len(console) : console'[n] = console[n]
      /\ console'[Len(console) + 1] = e
  <2>1. console \in Seq(Printed) /\ console' = Append(console, e)
    BY <1>2, <1>4 DEF RunCallback, OrderInv, AnswersInv
  <2>2. /\ Append(console, e) \in Seq(Printed) /\ Len(Append(console, e)) = Len(console) + 1
        /\ \A i \in 1..Len(console) : Append(console, e)[i] = console[i]
        /\ Append(console, e)[Len(console) + 1] = e
    BY <1>5, <2>1, AppendProperties
  <2> QED
    BY <2>1, <2>2, LenProperties
<1>9. \A n \in DOMAIN console' : \/ n \in DOMAIN console /\ console'[n] = console[n]
                                 \/ console'[n] = e
  BY <1>8
<1>10. e.says = "id" => g.k \in Enqueued
  BY <1>5, <1>6, <1>7 DEF Enqueued
<1>11. Enqueued' \subseteq Enqueued
  BY <1>5, <1>7, <1>9, <1>10 DEF Enqueued
<1>12. NothingFound' => NothingFound
  BY <1>5, <1>6, <1>7, <1>9 DEF NothingFound, Said
<1>13. /\ \A u \in Uids : /\ hist'[u].got = hist[u].got /\ hist'[u].fate = hist[u].fate
                          /\ hist[u].st = "sent" => hist'[u].st = "sent"
       /\ e.says = "id" => hist'[g.k.uid].st = "sent"
  <2>1. CASE g.of = "sendMessage" /\ g.err = "none"
    <3>1. PICK u : u = g.k.uid
      OBVIOUS
    <3>2. u \in Uids
      BY <1>5, <1>10, <2>1, <3>1 DEF FoundInv
    <3>3. hist' = [hist EXCEPT ![u].st = "sent"]
      BY <1>2, <2>1, <3>1 DEF RunCallback
    <3> QED
      BY <1>3, <3>1, <3>2, <3>3 DEF HistType
  <2>2. CASE ~(g.of = "sendMessage" /\ g.err = "none")
    <3>1. hist' = hist
      BY <1>2, <2>2 DEF RunCallback
    <3> QED
      BY <1>5, <2>2, <3>1
  <2> QED
    BY <2>1, <2>2
<1>14. \A n \in DOMAIN console' :
         console'[n].says = "id" => hist'[console'[n].k.uid].st = "sent"
  <2>1. \A n \in DOMAIN console : console[n].says = "id" =>
          console[n].k.uid \in Uids /\ hist[console[n].k.uid].st = "sent"
    BY DEF FoundInv, Enqueued
  <2> QED
    BY <1>5, <1>9, <1>13, <2>1
<1>15. \A k \in Enqueued : k.uid \in Uids
  BY DEF FoundInv
<1>16. \A r \in Looked' : r \in Looked
  BY <1>7 DEF Looked
<1>17. \A m \in Flight' : m \in Flight
  BY <1>7 DEF Flight
<1> QED
  BY <1>3, <1>11, <1>12, <1>13, <1>14, <1>15, <1>16, <1>17, FoundFrame

(* A lost connection ends no send well and finds no message missing.       *)
LEMMA LosingKeepsFound ==
  ASSUME NInv, OrderInv, FoundInv, ConnectionLost
  PROVE  FoundInv'
<1>1. /\ replies' = <<>> /\ wire' = <<>> /\ AnswersInv /\ zset' = zset
      /\ hist \in [Uids -> HistType]
  BY DEF ConnectionLost, store, OrderInv, NInv, IInv, TypeOK
<1>2. Waiting' = {} /\ Unread' = {}
  <2>1. DOMAIN <<>> = {}
    OBVIOUS
  <2> QED
    BY <1>1, <2>1 DEF Waiting, Unread
<1>3. Looked' = {} /\ Flight' = {}
  BY <1>2 DEF Looked, Flight
<1>4. \A n \in DOMAIN console' :
        \/ n \in DOMAIN console /\ console'[n] = console[n]
        \/ console'[n].says \notin {"id", "nothing"}
  BY <1>1, LostAnswers
<1>5. Enqueued' \subseteq Enqueued
  BY <1>2, <1>4 DEF Enqueued
<1>6. NothingFound' => NothingFound
  BY <1>2, <1>4 DEF NothingFound, Said
<1>7. \A u \in Uids : /\ hist'[u].got = hist[u].got /\ hist'[u].fate = hist[u].fate
                      /\ hist[u].st = "sent" => hist'[u].st = "sent"
  BY <1>1, Losing DEF HistType
<1>8. \A k \in Enqueued : k.uid \in Uids
  BY DEF FoundInv
<1>9. \A n \in DOMAIN console' :
        console'[n].says = "id" => hist'[console'[n].k.uid].st = "sent"
  <2>1. \A n \in DOMAIN console : console[n].says = "id" =>
          console[n].k.uid \in Uids /\ hist[console[n].k.uid].st = "sent"
    BY DEF FoundInv, Enqueued
  <2> QED
    BY <1>4, <1>7, <2>1
<1> QED
  BY <1>1, <1>3, <1>5, <1>6, <1>7, <1>8, <1>9, FoundFrame

-----------------------------------------------------------------------------
(* The calls take effect in order.                                         *)

LEMMA NextKeepsFound ==
  ASSUME NInv, OrderInv, HideInv, FoundInv, [NNext]_nvars
  PROVE  FoundInv'
<1>1. CASE [Next]_vars /\ UNCHANGED peervars
  BY <1>1, GoClientsKeepFound DEF OrderInv
<1>2. CASE PeerNext
  BY <1>2, CreatingKeepsFound, LookupKeepsFound, EnqueueKeepsFound, ReceiveKeepsFound,
     GoingOnKeepsFound, AnswerKeepsFound, LosingKeepsFound
  DEF PeerNext, Redis
<1> QED
  BY <1>1, <1>2 DEF NNext, nvars

(* The program hides no message, and what it receives was handed out.      *)
LEMMA NextKeepsHidden ==
  ASSUME SendersDontHide, NInv, HideInv, [NNext]_nvars
  PROVE  HideInv'
<1>1. /\ IInv /\ hist \in [Uids -> HistType] /\ held \in [Clients -> HeldType \cup {Nil}]
      /\ \A c \in Clients : call[c].op = "ChangeMessageVisibility" => call[c].uid \in Uids
  BY CallOfOp DEF NInv, IInv, TypeOK
<1>2. ASSUME call' = call, \A u \in Uids : hist[u].got > 0 => hist'[u].got > 0,
             \A d \in Clients : held'[d] # Nil =>
               held'[d] = held[d] \/ hist'[held'[d].uid].got > 0
      PROVE  HideInv'
  <2>1. \A d \in Clients : held[d] # Nil => held[d].uid \in Uids
    BY <1>1 DEF HeldType
  <2> QED
    BY <1>1, <1>2, <2>1 DEF HideInv, HidesReceived
<1>3. CASE [Next]_vars /\ UNCHANGED peervars
  BY <1>1, <1>3, HideInvStep
<1>4. CASE ServeTime \/ ServeHSetNX \/ ServeSAdd \/ ServeStats \/ ServeLookup \/ GoOn
  <2>1. call' = call /\ hist' = hist /\ held' = held
    BY <1>4 DEF ServeTime, ServeHSetNX, ServeSAdd, ServeStats, ServeLookup, Serves, GoOn, vars,
                Replies
  <2> QED
    BY <1>2, <2>1
<1>5. CASE ServeEnqueue
  <2>1. call' = call /\ held' = held /\ \A u \in Uids : hist'[u].got = hist[u].got
    BY <1>1, <1>5 DEF ServeEnqueue, Replies, HistType
  <2> QED
    BY <1>2, <2>1
<1>6. CASE ServeReceive
  <2>1. \/ \E u \in Uids : \E k : /\ hist' = Handed(u, TimeSentUnix(k), hist[u].fate)
                                  /\ held' = [held EXCEPT ![Peer] = Unmarshal(k, u)]
        \/ UNCHANGED <<held, hist>>
    BY <1>6 DEF ServeReceive
  <2>2. call' = call
    BY <1>6 DEF ServeReceive, Replies
  <2>3. ASSUME NEW u \in Uids, NEW k, hist' = Handed(u, TimeSentUnix(k), hist[u].fate),
               held' = [held EXCEPT ![Peer] = Unmarshal(k, u)]
        PROVE  HideInv'
    <3>1. hist'[u].got > 0 /\ \A v \in Uids : hist[v].got > 0 => hist'[v].got > 0
      BY <1>1, <2>3 DEF Handed, HistType
    <3>2. \A d \in Clients : held'[d] # Nil =>
            held'[d] = held[d] \/ hist'[held'[d].uid].got > 0
      BY <1>1, <2>3, <3>1 DEF Unmarshal
    <3> QED
      BY <1>2, <2>2, <3>1, <3>2
  <2> QED
    BY <1>2, <2>1, <2>2, <2>3
<1>7. CASE RunCallback
  <2>1. call' = call /\ held' = held /\ \A u \in Uids : hist'[u].got = hist[u].got
    BY <1>1, <1>7 DEF RunCallback, HistType
  <2> QED
    BY <1>2, <2>1
<1>8. CASE ConnectionLost
  <2>1. call' = call /\ held' = held /\ \A u \in Uids : hist'[u].got = hist[u].got
    BY <1>1, <1>8, Losing DEF ConnectionLost, HistType
  <2> QED
    BY <1>2, <2>1
<1> QED
  BY <1>3, <1>4, <1>5, <1>6, <1>7, <1>8 DEF NNext, PeerNext, Redis, nvars

LEMMA InitFound == NInit => HideInv /\ FoundInv
<1> SUFFICES ASSUME NInit PROVE HideInv /\ FoundInv
  OBVIOUS
<1>1. HideInv
  BY InitHideDue DEF NInit
<1>2. /\ replies = <<>> /\ console = <<>> /\ wire = [n \in DOMAIN Script |-> First(Script[n])]
      /\ DOMAIN <<>> = {}
  BY DEF NInit
<1>3. Unread = {} /\ ~Said("receiveMessage", "nothing")
  BY <1>2 DEF Unread, Said
<1>4. \A m \in Waiting : m.i # 2
  BY <1>2, ScriptDomain DEF Waiting, First
<1>5. Enqueued = {} /\ Looked = {}
  BY <1>2, <1>3, <1>4 DEF Enqueued, Looked
<1> QED
  BY <1>1, <1>2, <1>5 DEF FoundInv

(* What the program knows of its own message, and of its absence, is true: *)
(* the message is due when its send said, and a receive that found nothing *)
(* came after somebody had received or removed a message without delay.    *)
THEOREM FoundInvariance == SendersDontHide => (NSpec => []FoundInv)
<1> SUFFICES ASSUME SendersDontHide PROVE NSpec => []FoundInv
  OBVIOUS
<1>1. NInv /\ HideInv /\ [NNext]_nvars => HideInv'
  BY NextKeepsHidden
<1>2. NInv /\ OrderInv /\ HideInv /\ FoundInv /\ [NNext]_nvars => FoundInv'
  BY NextKeepsFound
<1> QED
  BY <1>1, <1>2, InitFound, PeerInvariance, OrderInvariance, PTL DEF NSpec

LEMMA FoundIsInOrder == AnswersInv /\ FoundInv => CallsInOrder
  BY DEF AnswersInv, FoundInv, CallsInOrder, Enqueued, NothingFound

(* The receive finds the message that the call before it sends, and the    *)
(* statistics find the queue, where no client hides a message it sent.     *)
THEOREM CallsTakeEffectInOrder == SendersDontHide => (NSpec => []CallsInOrder)
<1> SUFFICES ASSUME SendersDontHide PROVE NSpec => []CallsInOrder
  OBVIOUS
<1>1. OrderInv /\ FoundInv => CallsInOrder
  BY FoundIsInOrder DEF OrderInv
<1> QED
  BY <1>1, OrderInvariance, FoundInvariance, PTL

-----------------------------------------------------------------------------
(* First in, first out, with the program among the senders and receivers.  *)

(* The send goes by the attributes it read, where no delay is set. *)
UndelayedInv ==
  /\ DueInv
  /\ \A m \in Waiting : m.of = "sendMessage" /\ m.i = 2 => m.k.q.delay = 0
  /\ \A m \in Unread : m.of = "sendMessage" /\ m.i = 1 /\ m.err = "none" => m.k.q.delay = 0

(* The message of the program is due when it is sent.                      *)
LEMMA EnqueueIsDue ==
  ASSUME NInv, UndelayedInv, ServeEnqueue
  PROVE  DueInv'
<1>1. PICK h \in Message :
        h = Head(wire) /\ wire # <<>> /\ Command(h) = "enqueue" /\ RequestOK(h) /\ h.k.t \in Nat
  BY FirstRequest DEF ServeEnqueue
<1>2. h.of = "sendMessage" /\ h.i = 2
  BY <1>1, PlaceInCall DEF RequestOK
<1>3. h \in Waiting
  BY <1>1, TakenFirst DEF Waiting, NInv, FlightInv
<1>4. h.k.q.delay = 0
  BY <1>2, <1>3 DEF UndelayedInv
<1>5. PICK u \in Uids :
        /\ zset' = [zset EXCEPT ![u] = Ms(h.k.t + Seconds(h.k.q.delay))]
        /\ hist' = [hist EXCEPT ![u] = [@ EXCEPT !.st = "sending", !.len = h.k.len, !.at = h.k.t]]
  BY <1>1 DEF ServeEnqueue
<1>6. Seconds(0) = 0
  <2>1. MaxDuration % (2 * MaxDuration) = MaxDuration
    BY RsmqAssumption, Z3
  <2>2. Wrapped(0) = 0
    BY <2>1, RsmqAssumption DEF Wrapped
  <2> QED
    BY <2>2, RsmqAssumption DEF Seconds
<1>7. zset \in [Uids -> Int \cup {Nil}] /\ hist \in [Uids -> HistType]
  BY DEF NInv, IInv, TypeOK, StoreTypeOK
<1>8. /\ zset'[u] = Ms(h.k.t) /\ hist'[u].at = h.k.t
      /\ \A v \in Uids \ {u} : zset'[v] = zset[v] /\ hist'[v] = hist[v]
  BY <1>1, <1>4, <1>5, <1>6, <1>7 DEF HistType
<1>9. attrs' = attrs /\ call' = call
  BY DEF ServeEnqueue, Replies
<1> QED
  BY <1>8, <1>9 DEF UndelayedInv, DueInv, Undelayed

(* Redis's steps keep the delays off.                                      *)
LEMMA RedisKeepsDue ==
  ASSUME NInv, UndelayedInv, Redis
  PROVE  DueInv'
<1>0. hist \in [Uids -> HistType] /\ zset \in [Uids -> Int \cup {Nil}]
  BY DEF NInv, IInv, TypeOK, StoreTypeOK
<1>1. CASE ServeTime \/ ServeStats \/ ServeLookup \/ ServeHSetNX \/ ServeSAdd
  <2>1. call' = call /\ hist' = hist /\ zset' = zset /\ attrs' \in {attrs, DefaultAttrs}
    BY <1>1 DEF ServeTime, ServeStats, ServeLookup, ServeHSetNX, ServeSAdd, Serves, Replies, store
  <2>2. DefaultAttrs.delay = 0
    BY DEF DefaultAttrs
  <2> QED
    BY <2>1, <2>2 DEF UndelayedInv, DueInv, Undelayed
<1>2. CASE ServeReceive
  <2>1. call' = call /\ attrs' = attrs
    BY <1>2 DEF ServeReceive, ReceiveScript, Replies, store
  <2>2. CASE UNCHANGED <<zset, hist>>
    BY <2>1, <2>2 DEF UndelayedInv, DueInv, Undelayed
  <2>3. ASSUME NEW u \in Uids, hist'[u].got = hist[u].got + 1,
               \A v \in Uids \ {u} : zset'[v] = zset[v] /\ hist'[v] = hist[v]
        PROVE  DueInv'
    <3>1. hist'[u].got # 0
      BY <1>0, <2>3 DEF HistType
    <3> QED
      BY <2>1, <2>3, <3>1 DEF UndelayedInv, DueInv, Undelayed
  <2> QED
    BY <1>2, <2>2, <2>3, Receiving
<1> QED
  BY <1>1, <1>2, EnqueueIsDue DEF Redis

(* Two ways to see the element that was added are one. *)
LEMMA LastIsLast ==
  ASSUME NEW s \in Seq(Message), NEW a \in Message, NEW b \in Message, Append(s, a) = Append(s, b)
  PROVE  a = b
<1>1. /\ Append(s, a)[Len(s) + 1] = a
      /\ Append(s, b)[Len(s) + 1] = b
  BY AppendProperties
<1> QED
  BY <1>1

LEMMA PeerKeepsUndelayed ==
  ASSUME NInv, UndelayedInv, PeerNext
  PROVE  UndelayedInv'
<1>0. FlightInv /\ hist \in [Uids -> HistType]
  BY DEF NInv, IInv, TypeOK
<1>1. CASE Redis
  <2>1. PICK h, r \in Message :
          /\ wire # <<>> /\ h = Head(wire) /\ wire' = Tail(wire) /\ RequestOK(h)
          /\ replies' = Append(replies, r) /\ r.of = h.of /\ r.i = h.i
    BY <1>1, RedisReplies
  <2>2. Waiting' \subseteq Waiting /\ Unread' = Unread \cup {r}
    BY <1>0, <2>1, ServedSets
  <2>3. r.of = "sendMessage" /\ r.i = 1 /\ r.err = "none" => r.k.q.delay = 0
    <3>1. SUFFICES ASSUME h.of = "sendMessage", h.i = 1, r.err = "none" PROVE r.k.q.delay = 0
      BY <2>1
    <3>2. Command(h) = "lookup"
      BY <2>1, <3>1 DEF Command, Requests
    <3>3. ServeLookup
      BY <1>1, <2>1, <3>2
      DEF Redis, ServeTime, ServeHSetNX, ServeSAdd, ServeStats, ServeEnqueue, ServeReceive, Serves
    <3>4. PICK k : k = [h.k EXCEPT !.t = now, !.q = attrs]
      OBVIOUS
    <3>5. k \in CallType /\ k.q = attrs
      <4>1. attrs \in Attrs \cup {Nil} /\ now \in Nat /\ Attrs \subseteq Options
        BY DEF NInv, IInv, TypeOK, StoreTypeOK, Attrs, Options, OptInt
      <4>2. h.k \in CallType
        BY DEF Message
      <4> QED
        BY <3>4, <4>1, <4>2 DEF CallType
    <3>6. PICK e \in {"none", "refused"} :
            /\ Replies(e, k) /\ (e = "none" => attrs # Nil)
      BY <2>1, <3>3, <3>4 DEF ServeLookup, Check
    <3>7. PICK x \in Message : replies' = Append(replies, x) /\ x.err = e /\ x.k = k
      BY <1>0, <2>1, <3>5, <3>6, Replying
    <3>8. r = x
      <4>1. replies \in Seq(Message) /\ Append(replies, r) = Append(replies, x)
        BY <1>0, <2>1, <3>7 DEF FlightInv
      <4> QED
        BY <4>1, LastIsLast
    <3> QED
      BY <3>1, <3>5, <3>6, <3>7, <3>8 DEF UndelayedInv, DueInv
  <2> QED
    BY <1>1, <2>2, <2>3, RedisKeepsDue DEF UndelayedInv
<1>2. ASSUME zset' = zset, attrs' = attrs, call' = call,
             \A u \in Uids : hist'[u].got = hist[u].got /\ hist'[u].at = hist[u].at
      PROVE  DueInv'
  BY <1>2 DEF UndelayedInv, DueInv, Undelayed
<1>3. CASE GoOn
  <2>1. /\ replies # <<>> /\ replies' = Tail(replies)
        /\ UNCHANGED <<store, call, hist>>
    BY <1>3 DEF GoOn, vars
  <2>2. PICK g \in Message : g = Head(replies) /\ ReplyOK(g)
    BY <2>1, FirstReply
  <2>3. g.err = "none" /\ ~Final(g)
    BY <1>3, <2>2 DEF GoOn, Final
  <2>4. g.i + 1 \in 1..3 /\ (g.of = "sendMessage" => g.i = 1)
    <3>1. /\ g.i + 1 \in DOMAIN Requests[g.of]
          /\ g.of = "sendMessage" => g.i = 1
      BY <2>2, <2>3, PlaceInCall DEF ReplyOK, Final
    <3>2. DOMAIN Requests[g.of] \subseteq 1..3
      BY DEF Requests, Message, Calls
    <3> QED
      BY <3>1, <3>2
  <2>5. PICK x : x = [g EXCEPT !.i = g.i + 1]
    OBVIOUS
  <2>6. x \in Message /\ x.of = g.of /\ x.k = g.k
    BY <2>4, <2>5 DEF Message
  <2>7. g \in Unread /\ Unread' \subseteq Unread
    BY <1>0, <2>1, <2>2, ReadSets
  <2>8. Waiting' = Waiting \cup {x}
    <3>1. {Append(wire, x)[n] : n \in DOMAIN Append(wire, x)} = {wire[n] : n \in DOMAIN wire} \cup {x}
      BY <1>0, <2>6, AddedSet DEF FlightInv
    <3>2. wire' = Append(wire, x)
      BY <1>3, <2>2, <2>5 DEF GoOn
    <3> QED
      BY <3>1, <3>2 DEF Waiting
  <2>9. g.of = "sendMessage" => g.k.q.delay = 0
    BY <2>3, <2>4, <2>7 DEF UndelayedInv
  <2>10. DueInv'
    BY <1>2, <2>1 DEF store
  <2> QED
    BY <2>6, <2>7, <2>8, <2>9, <2>10 DEF UndelayedInv
<1>4. CASE RunCallback
  <2>1. /\ replies # <<>> /\ replies' = Tail(replies) /\ wire' = wire
        /\ UNCHANGED <<store, call>>
    BY <1>4 DEF RunCallback
  <2>2. Unread' \subseteq Unread /\ Waiting' = Waiting
    <3>1. Waiting' = Waiting
      BY <2>1 DEF Waiting
    <3> QED
      BY <1>0, <2>1, <3>1, ReadSets
  <2>3. \A u \in Uids : hist'[u].got = hist[u].got /\ hist'[u].at = hist[u].at
    BY <1>0, <1>4 DEF RunCallback, HistType
  <2> QED
    BY <1>2, <2>1, <2>2, <2>3 DEF UndelayedInv, store
<1>5. CASE ConnectionLost
  <2>1. /\ replies' = <<>> /\ wire' = <<>>
        /\ UNCHANGED <<store, call>>
    BY <1>5 DEF ConnectionLost
  <2>2. Waiting' = {} /\ Unread' = {}
    <3>1. DOMAIN <<>> = {}
      OBVIOUS
    <3> QED
      BY <2>1, <3>1 DEF Waiting, Unread
  <2>3. \A u \in Uids : hist'[u].got = hist[u].got /\ hist'[u].at = hist[u].at
    BY <1>0, <1>5, Losing DEF HistType
  <2> QED
    BY <1>2, <2>1, <2>2, <2>3 DEF UndelayedInv, store
<1> QED
  BY <1>1, <1>3, <1>4, <1>5 DEF PeerNext

LEMMA PeerTakesOldest ==
  ASSUME NInv, DueInv, PeerNext
  PROVE  InOrder
<1>0. hist \in [Uids -> HistType]
  BY DEF NInv, IInv, TypeOK
<1>1. CASE ServeReceive
  <2> SUFFICES ASSUME NEW u \in Uids, hist[u].got = 0, hist'[u].got = 1
               PROVE  \A v \in Uids : Ms(hist[v].at) < Ms(hist[u].at) =>
                        ~(hist[v].got = 0 /\ zset[v] # Nil)
    BY DEF InOrder
  <2>0. hist' # hist
    OBVIOUS
  <2>1. PICK h \in Message : h = Head(wire) /\ h.k.t \in Nat
    BY <1>1, FirstRequest DEF ServeReceive
  <2>2. PICK w \in Uids : /\ IsNext(w, Ms(h.k.t))
                          /\ hist' = Handed(w, Ms(h.k.t), hist[w].fate)
    <3>1. TimeSentUnix(h.k) = Ms(h.k.t)
      BY DEF TimeSentUnix
    <3>2. CASE Replies("none", h.k) /\ UNCHANGED <<store, held, hist>>
      BY <2>0, <3>2
    <3> QED
      BY <1>1, <2>1, <3>1, <3>2 DEF ServeReceive, ReceiveScript
  <2>3. w = u
    BY <1>0, <2>2 DEF Handed, HistType
  <2>4. Ms(h.k.t) \in Int
    BY <2>1, MsIsInt
  <2> QED
    BY <2>2, <2>3, <2>4, NextIsOldest DEF NInv
<1>2. CASE ~ServeReceive
  <2>1. \A u \in Uids : hist'[u].got = hist[u].got
    <3>1. CASE ServeTime \/ ServeHSetNX \/ ServeSAdd \/ ServeStats \/ ServeLookup \/ GoOn
      BY <3>1
      DEF ServeTime, ServeHSetNX, ServeSAdd, ServeStats, ServeLookup, GoOn, vars
    <3>2. CASE ServeEnqueue
      BY <1>0, <3>2 DEF ServeEnqueue, HistType
    <3>4. CASE RunCallback
      BY <1>0, <3>4 DEF RunCallback, HistType
    <3>3. CASE ConnectionLost
      BY <1>0, <3>3, Losing DEF HistType
    <3> QED
      BY <1>2, <3>1, <3>2, <3>3, <3>4 DEF PeerNext, Redis
  <2> QED
    BY <1>0, <2>1 DEF InOrder
<1> QED
  BY <1>1, <1>2

(* Whoever sends and receives, Go clients or the Node.js program, messages *)
(* are first handed out in the order of the milliseconds they were sent    *)
(* in, while nobody sets a delay and no client hides what it only sent.    *)
THEOREM PeerFifo == SendersDontHide /\ DelayStays => (NSpec => FirstInFirstOut)
<1> SUFFICES ASSUME SendersDontHide, DelayStays PROVE NSpec => FirstInFirstOut
  OBVIOUS
<1>1. NInit => NInv /\ HideInv /\ UndelayedInv
  <2>1. NInit => \A m \in Waiting : m.i = 1
    BY ScriptDomain DEF NInit, Waiting, First
  <2>2. NInit => Unread = {}
    BY DEF NInit, Unread
  <2> QED
    BY <2>1, <2>2, InitNInv, InitHideDue DEF NInit, UndelayedInv
<1>2. NInv /\ HideInv /\ UndelayedInv /\ [NNext]_nvars => UndelayedInv'
  <2> SUFFICES ASSUME NInv, HideInv, UndelayedInv, [NNext]_nvars PROVE UndelayedInv'
    OBVIOUS
  <2>1. CASE [Next]_vars /\ UNCHANGED peervars
    <3>1. Waiting' = Waiting /\ Unread' = Unread
      BY <2>1 DEF peervars, Waiting, Unread
    <3> QED
      BY <2>1, <3>1, DueInvStep DEF NInv, UndelayedInv
  <2> QED
    BY <2>1, PeerKeepsUndelayed DEF NNext, nvars
<1>3. NInv /\ UndelayedInv /\ [NNext]_nvars => [InOrder]_vars
  <2> SUFFICES ASSUME NInv, UndelayedInv, [NNext]_nvars, vars' # vars PROVE InOrder
    OBVIOUS
  <2> QED
    BY FirstIsOldest, PeerTakesOldest DEF NNext, nvars, NInv, UndelayedInv
<1> QED
  BY <1>1, <1>2, <1>3, NextNInv, NextKeepsHidden, FifoIsInOrder, PTL DEF NSpec

=============================================================================
