------------------------------ MODULE RsmqFifo ------------------------------
(***************************************************************************)
(* First in, first out: where no client hides a message it only sent, and  *)
(* no delay is ever set, messages are first handed out in the order of the *)
(* milliseconds they were sent in.                                         *)
(***************************************************************************)
EXTENDS RsmqPromise

(* No client both sends and hides: a client knows the messages it sent.    *)
SendersDontHide ==
  \A c \in Clients : ~({"SendMessage", "ChangeMessageVisibility"} \subseteq Menu[c])

(* SetQueueAttributes leaves the delay, or sets it to what CreateQueue did. *)
DelayStays == \A o \in NewAttrs : o.delay \in {Nil, 0}

-----------------------------------------------------------------------------
(* The inductive invariant, in two parts.  Only messages that somebody     *)
(* received are hidden, if senders do not hide.                            *)

HidesReceived(k) == k.op = "ChangeMessageVisibility" => hist[k.uid].got > 0

HideInv ==
  \A c \in Clients :
    /\ HidesReceived(call[c])
    /\ held[c] # Nil => hist[held[c].uid].got > 0

(* And a message nobody received is due when it was sent, since no delay   *)
(* is added.                                                               *)
Sending == {"zadd", "hset", "hincrby"}

Undelayed(k) ==
  /\ k.pc \in Sending => k.q.delay = 0
  /\ k.op = "SetQueueAttributes" => k.q.delay \in {Nil, 0}

DueInv ==
  /\ attrs # Nil => attrs.delay = 0
  /\ \A c \in Clients : Undelayed(call[c])
  /\ \A u \in Uids :
       hist[u].got = 0 /\ zset[u] # Nil => zset[u] = Ms(hist[u].at)

LEMMA NoDelay ==
  ASSUME NEW k \in CallType, k.q.delay = 0
  PROVE  SendScore(k) = Ms(k.t)
<1>1. MaxDuration % (2 * MaxDuration) = MaxDuration
  BY RsmqAssumption, Z3
<1>2. Wrapped(0) = 0
  BY <1>1, RsmqAssumption DEF Wrapped
<1>3. Milliseconds(0) = 0
  BY <1>2, RsmqAssumption DEF Milliseconds
<1> QED
  BY <1>3 DEF SendScore, CallType

(* Only a script hands a message out: the next one, once.                  *)
LEMMA OnlyScriptsHand ==
  ASSUME IInv, [Next]_vars, NEW u \in Uids
  PROVE  /\ hist[u].got \in Nat
         /\ \/ hist'[u].got = hist[u].got
            \/ /\ hist'[u].got = hist[u].got + 1
               /\ \E c \in Clients :
                    /\ call[c].op \in {"ReceiveMessage", "PopMessage"}
                    /\ call[c].pc = "evalsha"
                    /\ IsNext(u, TimeSentUnix(call[c]))
<1>0. hist \in [Uids -> HistType] /\ hist[u].got \in Nat
  BY DEF IInv, TypeOK, HistType
<1>1. CASE hist' = hist
  BY <1>0, <1>1
<1>2. ASSUME NEW c \in Clients, SendMessageZAdd(c)
      PROVE  hist'[u].got = hist[u].got
  BY <1>0, <1>2 DEF SendMessageZAdd, HistType
<1>3. ASSUME NEW c \in Clients, SendMessageHIncrBy(c) \/ Fail(c)
      PROVE  hist'[u].got = hist[u].got
  BY <1>0, <1>3 DEF SendMessageHIncrBy, Fail, HistType
<1>4. ASSUME NEW c \in Clients, DeleteMessageZRem(c) \/ DeleteQueueDel(c)
      PROVE  hist'[u].got = hist[u].got
  BY <1>0, <1>4 DEF DeleteMessageZRem, DeleteQueueDel, HistType
<1>5. ASSUME NEW c \in Clients, ReceiveMessageEval(c) \/ PopMessageEval(c)
      PROVE  /\ call[c].op \in {"ReceiveMessage", "PopMessage"}
             /\ call[c].pc = "evalsha"
             /\ \/ hist'[u].got = hist[u].got
                \/ hist'[u].got = hist[u].got + 1 /\ IsNext(u, TimeSentUnix(call[c]))
  <2>1. PICK v \in Uids : /\ IsNext(v, TimeSentUnix(call[c]))
                          /\ \E f : hist' = Handed(v, TimeSentUnix(call[c]), f)
    BY <1>5 DEF ReceiveMessageEval, PopMessageEval, ReceiveScript, PopScript
  <2>2. call[c].op \in {"ReceiveMessage", "PopMessage"} /\ call[c].pc = "evalsha"
    BY <1>5 DEF ReceiveMessageEval, PopMessageEval, At
  <2> QED
    BY <1>0, <2>1, <2>2 DEF Handed, HistType
<1> QED
  BY <1>0, <1>1, <1>2, <1>3, <1>4, <1>5, HistFrame

LEMMA GotStays ==
  ASSUME IInv, [Next]_vars
  PROVE  \A u \in Uids : hist[u].got > 0 => hist'[u].got > 0
  BY OnlyScriptsHand

(* How a step changes a call: it ends, begins, moves on or finds the       *)
(* attributes.                                                             *)
Begun(c, k) ==
  /\ k.op \in Menu[c]
  /\ k.pc \notin Sending
  /\ k.op = "SetQueueAttributes" => k.q \in NewAttrs
  /\ k.op = "ChangeMessageVisibility" => k.uid \in Uids /\ Known(c, k.uid)

Moved(k, l) ==
  /\ l.op = k.op /\ l.uid = k.uid /\ l.q = k.q
  /\ l.pc \in Sending => k.pc \in Sending

Found(k, l) ==
  /\ l.op = k.op /\ l.uid = k.uid /\ l.q = attrs
  /\ attrs # Nil
  /\ l.op # "SetQueueAttributes"

LEMMA CallChanges ==
  ASSUME IInv, [Next]_vars
  PROVE  \/ call' = call
         \/ \E c \in Clients : \E k :
              /\ call' = [call EXCEPT ![c] = k]
              /\ k = Idle \/ Begun(c, k) \/ Moved(call[c], k) \/ Found(call[c], k)
<1> DEFINE Changes == \E c \in Clients : \E k :
             /\ call' = [call EXCEPT ![c] = k]
             /\ k = Idle \/ Begun(c, k) \/ Moved(call[c], k) \/ Found(call[c], k)
<1>0. call \in [Clients -> CallType]
  BY DEF IInv, TypeOK
<1>1. ASSUME NEW c \in Clients, call' = [call EXCEPT ![c] = Idle]
      PROVE  Changes
  BY <1>1
<1>2. ASSUME NEW c \in Clients, NEW pc, call' = [call EXCEPT ![c].pc = pc],
             pc \in Sending => call[c].pc \in Sending
      PROVE  Changes
  <2>1. PICK k : k = [call[c] EXCEPT !.pc = pc]
    OBVIOUS
  <2>2. call' = [call EXCEPT ![c] = k] /\ Moved(call[c], k)
    BY <1>0, <1>2, <2>1 DEF CallType, Moved
  <2> QED
    BY <2>2
<1>3. ASSUME NEW c \in Clients, NEW k, Start(c, k),
             k.pc \in {"hmset", "hmget", "zrem", "del"},
             k.op = "SetQueueAttributes" => k.q \in NewAttrs,
             k.op = "ChangeMessageVisibility" => k.uid \in Uids /\ Known(c, k.uid)
      PROVE  Changes
  <2>1. call' = [call EXCEPT ![c] = k] /\ Begun(c, k)
    BY <1>3 DEF Start, Begun, Sending
  <2> QED
    BY <2>1
<1>4. ASSUME NEW c \in Clients, NEW pc, call' = [call EXCEPT ![c] = [@ EXCEPT !.pc = pc, !.q = attrs]],
             attrs # Nil, call[c].op # "SetQueueAttributes"
      PROVE  Changes
  <2>1. PICK k : k = [call[c] EXCEPT !.pc = pc, !.q = attrs]
    OBVIOUS
  <2>2. call' = [call EXCEPT ![c] = k] /\ Found(call[c], k)
    BY <1>0, <1>4, <2>1 DEF CallType, Found
  <2> QED
    BY <2>2
<1> HIDE DEF Changes
<1>5. ASSUME NEW c \in Clients, Quiet(c)
      PROVE  Changes
  <2>1. CASE StartCreateQueue(c) \/ StartDeleteQueue(c) \/ StartPopMessage(c)
    BY <1>3, <2>1 DEF StartCreateQueue, StartDeleteQueue, StartPopMessage, Idle
  <2>2. CASE StartSendMessage(c) \/ StartReceiveMessage(c)
    BY <1>3, <2>2 DEF StartSendMessage, StartReceiveMessage, Idle
  <2>3. CASE StartChangeMessageVisibility(c) \/ StartDeleteMessage(c)
    BY <1>3, <2>3 DEF StartChangeMessageVisibility, StartDeleteMessage, Idle
  <2>4. CASE StartSetQueueAttributes(c)
    BY <1>3, <2>4 DEF StartSetQueueAttributes, Idle
  <2>5. CASE GetQueueFails(c) \/ NothingVisible(c)
    BY <1>1, <2>5 DEF GetQueueFails, NothingVisible, Return
  <2>6. CASE GetQueueSucceeds(c)
    BY <1>2, <1>4, <2>6 DEF GetQueueSucceeds, Sending
  <2>7. CASE ResendPipeline(c)
    BY <1>2, <2>7 DEF ResendPipeline, Resend, Sending
  <2> QED
    BY <1>5, <2>1, <2>2, <2>3, <2>4, <2>5, <2>6, <2>7 DEF Quiet
<1>6. ASSUME NEW c \in Clients,
             \/ CreateQueueHMSet(c) \/ CreateQueueSAdd(c) \/ SendMessageZAdd(c)
             \/ SendMessageHSet(c) \/ SendMessageHIncrBy(c)
      PROVE  Changes
  BY <1>1, <1>2, <1>6
  DEF CreateQueueHMSet, CreateQueueSAdd, SendMessageZAdd, SendMessageHSet, SendMessageHIncrBy, At,
      Goto, Return, Resend, Sending
<1>7. ASSUME NEW c \in Clients,
             ReceiveMessageEval(c) \/ PopMessageEval(c) \/ ChangeMessageVisibilityEval(c)
      PROVE  Changes
  BY <1>1, <1>2, <1>7
  DEF ReceiveMessageEval, PopMessageEval, ChangeMessageVisibilityEval, Return, Resend, Sending
<1>8. ASSUME NEW c \in Clients,
             \/ DeleteMessageZRem(c) \/ DeleteMessageHDel(c) \/ DeleteQueueDel(c)
             \/ DeleteQueueSRem(c) \/ Fail(c)
      PROVE  Changes
  BY <1>1, <1>2, <1>8
  DEF DeleteMessageZRem, DeleteMessageHDel, DeleteQueueDel, DeleteQueueSRem, Fail, Goto, Return,
      Resend, Sending
<1>9. ASSUME NEW c \in Clients, SetQueueAttributesHSet(c)
      PROVE  Changes
  <2>1. call[c].pc # "hset_vt" => NextSetting(c) \in Settings
    BY <1>9 DEF SetQueueAttributesHSet, NextSetting, Settings
  <2> QED
    BY <1>1, <1>2, <1>9, <2>1 DEF SetQueueAttributesHSet, Settings, Sending, Goto, Return, Resend
<1>10. UNCHANGED vars \/ Tick => call' = call
  BY DEF vars, Tick
<1> QED
  BY <1>5, <1>6, <1>7, <1>8, <1>9, <1>10, StepCases DEF Changes

-----------------------------------------------------------------------------
(* Both parts are kept.                                                    *)

LEMMA HeldWereGot ==
  ASSUME IInv, HideInv, [Next]_vars, NEW d \in Clients, held'[d] # Nil
  PROVE  hist'[held'[d].uid].got > 0
<1>0. /\ held \in [Clients -> HeldType \cup {Nil}]
      /\ hist \in [Uids -> HistType]
      /\ held[d] # Nil => held[d].uid \in Uids /\ hist[held[d].uid].got > 0
  BY DEF IInv, TypeOK, HideInv, HeldType
<1>1. ASSUME held[d] # Nil, held'[d].uid = held[d].uid
      PROVE  hist'[held'[d].uid].got > 0
  BY <1>0, <1>1, GotStays
<1>2. CASE held' = held
  BY <1>1, <1>2
<1>3. ASSUME NEW c \in Clients, SendMessageZAdd(c) \/ ChangeMessageVisibilityEval(c)
      PROVE  hist'[held'[d].uid].got > 0
  BY <1>0, <1>1, <1>3, OverwrittenUid DEF SendMessageZAdd, ChangeMessageVisibilityEval
<1>4. ASSUME NEW c \in Clients, ReceiveMessageEval(c) \/ PopMessageEval(c)
      PROVE  hist'[held'[d].uid].got > 0
  <2>1. PICK u \in Uids : /\ held' = held \/ held' = [held EXCEPT ![c] = Unmarshal(call[c], u)]
                          /\ \E f : hist' = Handed(u, TimeSentUnix(call[c]), f)
    BY <1>4 DEF ReceiveMessageEval, PopMessageEval
  <2>2. hist'[u].got > 0
    BY <1>0, <2>1 DEF Handed, HistType
  <2> QED
    BY <1>0, <1>1, <2>1, <2>2 DEF Unmarshal
<1> QED
  BY <1>2, <1>3, <1>4, HeldFrame

LEMMA HideInvStep ==
  ASSUME SendersDontHide, IInv, HideInv, [Next]_vars
  PROVE  HideInv'
<1>0. /\ call \in [Clients -> CallType]
      /\ \A c \in Clients : call[c].op = "ChangeMessageVisibility" => call[c].uid \in Uids
  BY CallOfOp DEF IInv, TypeOK
<1>1. ASSUME NEW k, HidesReceived(k), k.op = "ChangeMessageVisibility" => k.uid \in Uids
      PROVE  HidesReceived(k)'
  BY <1>1, GotStays DEF HidesReceived
<1>2. ASSUME NEW c \in Clients, NEW k, Begun(c, k)
      PROVE  HidesReceived(k) /\ (k.op = "ChangeMessageVisibility" => k.uid \in Uids)
  BY <1>2 DEF Begun, Known, SendersDontHide, HideInv, HidesReceived
<1>3. ASSUME NEW c \in Clients, NEW k, Moved(call[c], k) \/ Found(call[c], k)
      PROVE  HidesReceived(k) /\ (k.op = "ChangeMessageVisibility" => k.uid \in Uids)
  BY <1>0, <1>3 DEF Moved, Found, HideInv, HidesReceived
<1>4. Idle.op # "ChangeMessageVisibility"
  BY DEF Idle
<1>5. \A c \in Clients : HidesReceived(call[c])'
  <2>1. CASE call' = call
    BY <1>0, <1>1, <2>1 DEF HideInv, HidesReceived
  <2>2. ASSUME NEW c \in Clients, NEW k, call' = [call EXCEPT ![c] = k],
               k = Idle \/ Begun(c, k) \/ Moved(call[c], k) \/ Found(call[c], k)
        PROVE  \A d \in Clients : HidesReceived(call[d])'
    <3>1. HidesReceived(k)'
      BY <1>1, <1>2, <1>3, <1>4, <2>2 DEF HidesReceived
    <3> QED
      BY <1>0, <1>1, <2>2, <3>1 DEF HideInv, HidesReceived
  <2> QED
    BY <2>1, <2>2, CallChanges
<1> QED
  BY <1>5, HeldWereGot DEF HideInv

LEMMA CallsStayUndelayed ==
  ASSUME DelayStays, IInv, DueInv, [Next]_vars, NEW d \in Clients
  PROVE  Undelayed(call'[d])
<1>0. call \in [Clients -> CallType] /\ \A c \in Clients : Undelayed(call[c])
  BY DEF IInv, TypeOK, DueInv
<1>1. Undelayed(Idle)
  BY DEF Undelayed, Sending, Idle
<1>2. ASSUME NEW c \in Clients, NEW k, Begun(c, k) \/ Moved(call[c], k) \/ Found(call[c], k)
      PROVE  Undelayed(k)
  BY <1>0, <1>2 DEF Begun, Moved, Found, DelayStays, DueInv, Undelayed
<1> QED
  BY <1>0, <1>1, <1>2, CallChanges

LEMMA DelayStaysOff ==
  ASSUME IInv, DueInv, [Next]_vars, attrs' # Nil
  PROVE  attrs'.delay = 0
<1>1. CASE UNCHANGED vars \/ Tick
  BY <1>1 DEF vars, store, Tick, DueInv
<1>2. CASE \E c \in Clients : Quiet(c)
  BY <1>2, QuietFrame DEF DueInv
<1>3. ASSUME NEW c \in Clients, CreateQueueHMSet(c)
      PROVE  attrs'.delay = 0
  BY <1>3 DEF CreateQueueHMSet, DefaultAttrs
<1>4. ASSUME NEW c \in Clients, SetQueueAttributesHSet(c)
      PROVE  attrs'.delay = 0
  <2>1. /\ attrs # Nil /\ attrs \in Attrs /\ attrs.delay = 0
        /\ call[c].q.delay \in {Nil, 0}
    BY <1>4 DEF IInv, TypeOK, StoreTypeOK, QueueStays, DueInv, Undelayed, SetQueueAttributesHSet
  <2> QED
    BY <1>4, <2>1 DEF SetQueueAttributesHSet, SetField, Settings, Attrs
<1> QED
  BY <1>1, <1>2, <1>3, <1>4, StepCases
  DEF CreateQueueSAdd, SendMessageZAdd, SendMessageHSet, SendMessageHIncrBy, ReceiveMessageEval,
      ReceiveScript, PopMessageEval, PopScript, ChangeMessageVisibilityEval, HideScript,
      DeleteMessageZRem, DeleteMessageHDel, DeleteQueueDel, DeleteQueueSRem, Fail, store, DueInv

(* A message on the queue that nobody received keeps its score, unless its *)
(* send sets it again.                                                     *)
LEMMA UnreceivedStay ==
  ASSUME IInv, HideInv, [Next]_vars, NEW u \in Uids, hist'[u].got = 0, zset'[u] # Nil
  PROVE  /\ hist[u].got = 0
         /\ \/ zset'[u] = zset[u] /\ hist'[u].at = hist[u].at
            \/ \E c \in Clients : SendMessageZAdd(c) /\ call[c].uid = u
<1>0. /\ hist \in [Uids -> HistType] /\ zset \in [Uids -> Int \cup {Nil}]
      /\ hist[u].got = 0
      /\ \A c \in Clients : HidesReceived(call[c])
  <2>1. hist[u].got = 0
    BY OnlyScriptsHand, GotStays
  <2> QED
    BY <2>1 DEF IInv, TypeOK, StoreTypeOK, HideInv
<1>1. hist'[u].at = hist[u].at \/ \E c \in Clients : SendMessageZAdd(c) /\ call[c].uid = u
  <2>1. ASSUME NEW c \in Clients, SendMessageZAdd(c), call[c].uid # u
        PROVE  hist'[u].at = hist[u].at
    BY <1>0, <2>1 DEF SendMessageZAdd
  <2>2. ASSUME NEW c \in Clients,
               SendMessageHIncrBy(c) \/ Fail(c) \/ DeleteMessageZRem(c) \/ DeleteQueueDel(c)
        PROVE  hist'[u].at = hist[u].at
    BY <1>0, <2>2 DEF SendMessageHIncrBy, Fail, DeleteMessageZRem, DeleteQueueDel, HistType
  <2>3. ASSUME NEW c \in Clients, ReceiveMessageEval(c) \/ PopMessageEval(c)
        PROVE  hist'[u].at = hist[u].at
    <3>1. PICK v \in Uids : \E f : hist' = Handed(v, TimeSentUnix(call[c]), f)
      BY <2>3 DEF ReceiveMessageEval, PopMessageEval
    <3> QED
      BY <1>0, <3>1 DEF Handed, HistType
  <2> QED
    BY <2>1, <2>2, <2>3, HistFrame
<1>2. zset'[u] = zset[u] \/ \E c \in Clients : SendMessageZAdd(c) /\ call[c].uid = u
  <2>1. ASSUME NEW c \in Clients, SendMessageZAdd(c), call[c].uid # u
        PROVE  zset'[u] = zset[u]
    BY <1>0, <2>1 DEF SendMessageZAdd
  <2>2. ASSUME NEW c \in Clients, DeleteMessageZRem(c) \/ DeleteQueueDel(c)
        PROVE  zset'[u] = zset[u]
    BY <1>0, <2>2 DEF DeleteMessageZRem, DeleteQueueDel, NoField
  <2>3. ASSUME NEW c \in Clients, ChangeMessageVisibilityEval(c)
        PROVE  zset'[u] = zset[u]
    BY <1>0, <2>3 DEF ChangeMessageVisibilityEval, HideScript, At, HidesReceived
  <2>4. ASSUME NEW c \in Clients, ReceiveMessageEval(c) \/ PopMessageEval(c)
        PROVE  zset'[u] = zset[u]
    <3>1. PICK v \in Uids : /\ \A w \in Uids \ {v} : zset'[w] = zset[w]
                            /\ \E f : hist' = Handed(v, TimeSentUnix(call[c]), f)
      BY <1>0, <2>4 DEF ReceiveMessageEval, ReceiveScript, PopMessageEval, PopScript
    <3>2. v # u
      BY <1>0, <3>1 DEF Handed, HistType
    <3> QED
      BY <3>1, <3>2
  <2> QED
    BY <2>1, <2>2, <2>3, <2>4, ZsetFrame
<1> QED
  BY <1>0, <1>1, <1>2

LEMMA UnreceivedAreDue ==
  ASSUME IInv, HideInv, DueInv, [Next]_vars, NEW u \in Uids, hist'[u].got = 0, zset'[u] # Nil
  PROVE  zset'[u] = Ms(hist'[u].at)
<1>1. /\ hist \in [Uids -> HistType] /\ zset \in [Uids -> Int \cup {Nil}]
      /\ zset[u] # Nil /\ hist[u].got = 0 => zset[u] = Ms(hist[u].at)
      /\ \A c \in Clients : CallOK(call[c], now) /\ Undelayed(call[c])
  BY DEF IInv, TypeOK, StoreTypeOK, CallInv, DueInv
<1>2. ASSUME NEW c \in Clients, SendMessageZAdd(c), call[c].uid = u
      PROVE  zset'[u] = Ms(hist'[u].at)
  <2>1. /\ zset'[u] = SendScore(call[c]) /\ hist'[u].at = call[c].t
        /\ call[c] \in CallType /\ call[c].q.delay = 0
    BY <1>1, <1>2, CallOfOp DEF SendMessageZAdd, At, Undelayed, Sending, HistType
  <2> QED
    BY <2>1, NoDelay
<1> QED
  BY <1>1, <1>2, UnreceivedStay

LEMMA DueInvStep ==
  ASSUME DelayStays, IInv, HideInv, DueInv, [Next]_vars
  PROVE  DueInv'
  BY CallsStayUndelayed, DelayStaysOff, UnreceivedAreDue DEF DueInv, Undelayed

LEMMA InitHideDue == Init => HideInv /\ DueInv
  BY StoreAssumption
  DEF Init, StoreInit, NoField, DefaultAttrs, HideInv, HidesReceived, DueInv, Undelayed, Sending, Idle

-----------------------------------------------------------------------------
(* The step that hands a message out for the first time takes the oldest.  *)

InOrder ==
  \A u, v \in Uids :
    /\ hist[u].got = 0
    /\ hist'[u].got = 1
    /\ Ms(hist[v].at) < Ms(hist[u].at)
    => ~(hist[v].got = 0 /\ zset[v] # Nil)

LEMMA NextIsOldest ==
  ASSUME IInv, DueInv, NEW t \in Int, NEW u \in Uids, IsNext(u, t), hist[u].got = 0,
         NEW v \in Uids, Ms(hist[v].at) < Ms(hist[u].at)
  PROVE  ~(hist[v].got = 0 /\ zset[v] # Nil)
<1> SUFFICES ASSUME hist[v].got = 0, zset[v] # Nil PROVE FALSE
  OBVIOUS
<1>1. /\ zset[u] # Nil /\ zset[u] <= t
      /\ zset[u] = Ms(hist[u].at) /\ zset[v] = Ms(hist[v].at)
  BY DEF IsNext, Visible, DueInv
<1>2. zset[u] \in Int /\ zset[v] \in Int
  BY <1>1 DEF IInv, TypeOK, StoreTypeOK
<1>3. v \in Visible(t)
  BY <1>1, <1>2 DEF Visible
<1> QED
  BY <1>1, <1>2, <1>3 DEF IsNext

LEMMA FirstIsOldest ==
  ASSUME IInv, DueInv, [Next]_vars
  PROVE  InOrder
<1> SUFFICES ASSUME NEW u \in Uids, hist[u].got = 0, hist'[u].got = 1
             PROVE  \A v \in Uids : Ms(hist[v].at) < Ms(hist[u].at) =>
                      ~(hist[v].got = 0 /\ zset[v] # Nil)
  BY DEF InOrder
<1>1. PICK c \in Clients :
        call[c].pc = "evalsha" /\ IsNext(u, TimeSentUnix(call[c]))
  BY OnlyScriptsHand
<1>2. TimeSentUnix(call[c]) \in Int
  BY <1>1, CallOfOp, TimesAreInts DEF IInv, TypeOK
<1> QED
  BY <1>1, <1>2, NextIsOldest

LEMMA FifoIsInOrder == FirstInFirstOut <=> [][InOrder]_vars
  BY DEF FirstInFirstOut, InOrder

(* Messages are first handed out in the order of the milliseconds they     *)
(* were sent in, however many senders and receivers there are, though a    *)
(* send may be repeated and the queue deleted and created again.           *)
THEOREM Fifo == SendersDontHide /\ DelayStays => (Spec => FirstInFirstOut)
<1> SUFFICES ASSUME SendersDontHide, DelayStays PROVE Spec => FirstInFirstOut
  OBVIOUS
<1>1. IInv /\ HideInv /\ [Next]_vars => HideInv'
  BY HideInvStep
<1>2. IInv /\ HideInv /\ DueInv /\ [Next]_vars => DueInv'
  BY DueInvStep
<1>3. IInv /\ DueInv /\ [Next]_vars => [InOrder]_vars
  BY FirstIsOldest
<1> QED
  BY <1>1, <1>2, <1>3, InitHideDue, FifoIsInOrder, Invariance, PTL DEF Spec

=============================================================================
