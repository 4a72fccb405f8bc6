----------------------------- MODULE RsmqProofs -----------------------------
(***************************************************************************)
(* IInv of Rsmq is inductive, and what follows from it, for any number of  *)
(* clients and messages, any menu, any options, any delays and any faults. *)
(***************************************************************************)
EXTENDS RsmqSteps

-----------------------------------------------------------------------------
(* Senders: a step changes the call of one client c, and the stage of no   *)
(* message but the one c sends.                                            *)
LEMMA SenderInvKept ==
  ASSUME IInv, NEW c \in Clients,
         \A d \in Clients \ {c} : call'[d] = call[d],
         \A u \in Uids :
           \/ hist'[u].st = hist[u].st /\ hist'[u].len = hist[u].len
           \/ call[c].op = "SendMessage" /\ call[c].uid = u /\ hist'[u].st # "unsent",
         PlaceOK(call'[c], hist'),
         call'[c].op = "SendMessage" =>
           \A d \in Clients \ {c} : call[d].op = "SendMessage" => call[d].uid # call'[c].uid,
         \A d \in Clients : held'[d] # Nil =>
           \/ held[d] # Nil /\ held'[d].uid = held[d].uid
           \/ held'[d].uid \in Uids /\ hist[held'[d].uid].st # "unsent"
  PROVE  SenderInv'
<1>0. /\ SenderInv
      /\ \A d \in Clients : CallOK(call[d], now)
      /\ \A d \in Clients : held[d] # Nil => held[d].uid \in Uids
  BY DEF IInv, TypeOK, CallInv, HeldType
<1>1. ASSUME NEW d \in Clients \ {c} PROVE PlaceOK(call'[d], hist')
  <2>1. PlaceOK(call[d], hist) /\ CallOK(call[d], now)
    BY <1>0 DEF SenderInv
  <2>2. call[c].op = "SendMessage" /\ call[d].op = "SendMessage" => call[c].uid # call[d].uid
    BY <1>0 DEF SenderInv
  <2> QED
    BY <2>1, <2>2 DEF PlaceOK, CallOK
<1>2. \A u \in Uids : hist[u].st # "unsent" => hist'[u].st # "unsent"
  OBVIOUS
<1>3. \A d \in Clients : held'[d] # Nil => hist'[held'[d].uid].st # "unsent"
  BY <1>0, <1>2 DEF SenderInv
<1>4. ASSUME NEW d \in Clients, NEW e \in Clients, d # e,
             call'[d].op = "SendMessage", call'[e].op = "SendMessage"
      PROVE  call'[d].uid # call'[e].uid
  BY <1>0, <1>4 DEF SenderInv
<1> QED
  BY <1>1, <1>3, <1>4 DEF SenderInv

LEMMA OverwrittenUid ==
  ASSUME held \in [Clients -> HeldType \cup {Nil}], NEW c, NEW u, NEW s, NEW d \in Clients,
         Overwritten(c, u, s)[d] # Nil
  PROVE  held[d] # Nil /\ Overwritten(c, u, s)[d].uid = held[d].uid
  BY DEF Overwritten, HeldType

LEMMA SenderInvStep == IInv /\ [Next]_vars => SenderInv'
<1> SUFFICES ASSUME IInv, [Next]_vars PROVE SenderInv'
  OBVIOUS
<1>0. /\ call \in [Clients -> CallType]
      /\ hist \in [Uids -> HistType]
      /\ held \in [Clients -> HeldType \cup {Nil}]
      /\ \A c \in Clients : CallOK(call[c], now) /\ PlaceOK(call[c], hist)
  BY DEF IInv, TypeOK, CallInv, SenderInv
<1>1. CASE UNCHANGED vars \/ Tick
  BY <1>1 DEF vars, Tick, SenderInv, IInv
<1>2. ASSUME NEW c \in Clients, hist' = hist, held' = held,
             \A d \in Clients \ {c} : call'[d] = call[d],
             \/ call'[c].op \notin {"SendMessage", "ChangeMessageVisibility", "DeleteMessage"}
             \/ call'[c].op \in {"ChangeMessageVisibility", "DeleteMessage"}
                  /\ hist[call'[c].uid].st # "unsent"
             \/ /\ call'[c].op = "SendMessage"
                /\ call'[c].pc = "hmget"
                /\ hist[call'[c].uid].st = "unsent"
                /\ \A d \in Clients : call[d].uid # call'[c].uid
             \/ /\ call'[c].op = "SendMessage"
                /\ call[c].op = "SendMessage"
                /\ call'[c].uid = call[c].uid
                /\ PlaceOK(call'[c], hist)
      PROVE  SenderInv'
  <2>1. PlaceOK(call'[c], hist')
    BY <1>2 DEF PlaceOK
  <2>2. call'[c].op = "SendMessage" =>
          \A d \in Clients \ {c} : call[d].op = "SendMessage" => call[d].uid # call'[c].uid
    BY <1>2 DEF IInv, SenderInv
  <2> QED
    BY <1>2, <2>1, <2>2, SenderInvKept
<1>3. ASSUME NEW c \in Clients,
             \/ StartCreateQueue(c) \/ StartPopMessage(c) \/ StartDeleteQueue(c)
             \/ StartReceiveMessage(c) \/ StartSetQueueAttributes(c)
             \/ GetQueueFails(c) \/ NothingVisible(c)
      PROVE  SenderInv'
  <2>1. hist' = hist /\ held' = held
    BY <1>3, QuietFrame DEF Quiet
  <2>2. \A d \in Clients \ {c} : call'[d] = call[d]
    BY <1>0, <1>3
    DEF StartCreateQueue, StartPopMessage, StartDeleteQueue, StartReceiveMessage,
        StartSetQueueAttributes, GetQueueFails, NothingVisible, Start, Return
  <2>3. CASE StartCreateQueue(c) \/ StartPopMessage(c) \/ StartDeleteQueue(c)
    <3>1. call'[c].op \in {"CreateQueue", "PopMessage", "DeleteQueue"}
      BY <1>0, <2>3 DEF StartCreateQueue, StartPopMessage, StartDeleteQueue, Start, Idle
    <3> QED
      BY <1>2, <2>1, <2>2, <3>1
  <2>4. CASE StartReceiveMessage(c) \/ StartSetQueueAttributes(c)
    <3>1. call'[c].op \in {"ReceiveMessage", "SetQueueAttributes"}
      BY <1>0, <2>4 DEF StartReceiveMessage, StartSetQueueAttributes, Start, Idle
    <3> QED
      BY <1>2, <2>1, <2>2, <3>1
  <2>5. CASE GetQueueFails(c) \/ NothingVisible(c)
    <3>1. call'[c].op = "none"
      BY <1>0, <2>5 DEF GetQueueFails, NothingVisible, Return, Idle
    <3> QED
      BY <1>2, <2>1, <2>2, <3>1
  <2> QED
    BY <1>3, <2>3, <2>4, <2>5
<1>4. ASSUME NEW c \in Clients, StartSendMessage(c)
      PROVE  SenderInv'
  <2>1. hist' = hist /\ held' = held
    BY <1>4, QuietFrame DEF Quiet
  <2>2. /\ \A d \in Clients \ {c} : call'[d] = call[d]
        /\ call'[c].op = "SendMessage" /\ call'[c].pc = "hmget"
        /\ hist[call'[c].uid].st = "unsent"
        /\ \A d \in Clients : call[d].uid # call'[c].uid
    BY <1>0, <1>4 DEF StartSendMessage, NewUID, Start, Idle
  <2> QED
    BY <1>2, <2>1, <2>2
<1>5. ASSUME NEW c \in Clients, StartChangeMessageVisibility(c) \/ StartDeleteMessage(c)
      PROVE  SenderInv'
  <2>1. hist' = hist /\ held' = held
    BY <1>5, QuietFrame DEF Quiet
  <2>2. PICK u \in Uids : Known(c, u) /\ call'[c].uid = u
    BY <1>0, <1>5 DEF StartChangeMessageVisibility, StartDeleteMessage, Start, Idle
  <2>3. hist[u].st # "unsent"
    BY <2>2 DEF Known, IInv, SenderInv
  <2>4. /\ \A d \in Clients \ {c} : call'[d] = call[d]
        /\ call'[c].op \in {"ChangeMessageVisibility", "DeleteMessage"}
    BY <1>0, <1>5 DEF StartChangeMessageVisibility, StartDeleteMessage, Start, Idle
  <2> QED
    BY <1>2, <2>1, <2>2, <2>3, <2>4
<1>6. ASSUME NEW c \in Clients, NEW pc \in Commands,
             call' = [call EXCEPT ![c].pc = pc] \/ call' = [call EXCEPT ![c] = [@ EXCEPT !.pc = pc, !.q = attrs]],
             hist' = hist, held' = held,
             call[c].op = "SendMessage" =>
               \/ pc = "zadd" /\ call[c].pc \in {"hmget", "hset", "hincrby"}
               \/ pc = "hincrby" /\ call[c].pc = "hset"
      PROVE  SenderInv'
  <2>1. /\ \A d \in Clients \ {c} : call'[d] = call[d]
        /\ call'[c].op = call[c].op
        /\ call'[c].uid = call[c].uid
        /\ call'[c].len = call[c].len
        /\ call'[c].pc = pc
    <3>1. CASE call' = [call EXCEPT ![c].pc = pc]
      BY <1>0, <3>1 DEF CallType
    <3>2. CASE call' = [call EXCEPT ![c] = [@ EXCEPT !.pc = pc, !.q = attrs]]
      BY <1>0, <3>2 DEF CallType
    <3> QED
      BY <1>6, <3>1, <3>2
  <2>2. PlaceOK(call'[c], hist)
    BY <1>0, <1>6, <2>1 DEF PlaceOK
  <2> QED
    BY <1>2, <1>6, <2>1, <2>2 DEF PlaceOK
<1>7. ASSUME NEW c \in Clients, GetQueueSucceeds(c) \/ ResendPipeline(c)
      PROVE  SenderInv'
  <2>1. hist' = hist /\ held' = held
    BY <1>7, QuietFrame DEF Quiet
  <2>2. CASE GetQueueSucceeds(c)
    BY <1>6, <2>1, <2>2 DEF GetQueueSucceeds, Commands, Settings
  <2>3. CASE ResendPipeline(c)
    <3>1. call[c].op = "SendMessage" => call[c].pc \in {"hmget", "zadd", "hset", "hincrby"}
      BY <1>0 DEF CallOK
    <3> QED
      BY <1>6, <2>1, <2>3, <3>1 DEF ResendPipeline, Resend, Commands, Settings
  <2> QED
    BY <1>7, <2>2, <2>3
<1>8. ASSUME NEW c \in Clients,
             CreateQueueHMSet(c) \/ SendMessageHSet(c) \/ DeleteMessageHDel(c)
               \/ DeleteQueueSRem(c) \/ SetQueueAttributesHSet(c) \/ CreateQueueSAdd(c)
      PROVE  SenderInv'
  <2>1. hist' = hist /\ held' = held
    BY <1>8 DEF CreateQueueHMSet, CreateQueueSAdd, SendMessageHSet, DeleteMessageHDel, DeleteQueueSRem,
                SetQueueAttributesHSet
  <2>2. CASE call' = [call EXCEPT ![c] = Idle]
    <3>1. call'[c].op = "none" /\ \A d \in Clients \ {c} : call'[d] = call[d]
      BY <1>0, <2>2 DEF Idle
    <3> QED
      BY <1>2, <2>1, <3>1
  <2>3. CASE CreateQueueHMSet(c) \/ SendMessageHSet(c)
    BY <1>6, <2>1, <2>3 DEF CreateQueueHMSet, SendMessageHSet, At, Goto, Resend, Commands
  <2>4. CASE DeleteMessageHDel(c) \/ DeleteQueueSRem(c) \/ CreateQueueSAdd(c)
    BY <1>6, <2>1, <2>2, <2>4
    DEF DeleteMessageHDel, DeleteQueueSRem, CreateQueueSAdd, At, Return, Resend, Commands
  <2>5. CASE SetQueueAttributesHSet(c)
    <3>1. call[c].pc # "hset_vt" => NextSetting(c) \in Commands
      BY <2>5 DEF SetQueueAttributesHSet, NextSetting, Settings, Commands
    <3> QED
      BY <1>6, <2>1, <2>2, <2>5, <3>1
      DEF SetQueueAttributesHSet, Goto, Return, Resend, Commands, Settings
  <2> QED
    BY <1>8, <2>3, <2>4, <2>5
<1>9. ASSUME NEW c \in Clients, SendMessageZAdd(c)
      PROVE  SenderInv'
  <2> DEFINE u == call[c].uid
  <2>1. /\ call[c].op = "SendMessage" /\ u \in Uids
        /\ call' = [call EXCEPT ![c].pc = "hset"]
        /\ hist'[u].st = "sending" /\ hist'[u].len = call[c].len
        /\ \A v \in Uids \ {u} : hist'[v] = hist[v]
    BY <1>0, <1>9 DEF SendMessageZAdd, At, Goto, CallOK, HistType
  <2>2. /\ \A d \in Clients \ {c} : call'[d] = call[d]
        /\ call'[c].op = "SendMessage"
        /\ call'[c].pc = "hset"
        /\ call'[c].uid = u
        /\ call'[c].len = call[c].len
    BY <1>0, <2>1 DEF CallType
  <2>3. PlaceOK(call'[c], hist')
    BY <2>1, <2>2 DEF PlaceOK
  <2>4. \A d \in Clients : held'[d] # Nil => held[d] # Nil /\ held'[d].uid = held[d].uid
    BY <1>0, <1>9, OverwrittenUid DEF SendMessageZAdd
  <2>5. \A d \in Clients \ {c} : call[d].op = "SendMessage" => call[d].uid # u
    BY <2>1 DEF IInv, SenderInv
  <2> QED
    BY <2>1, <2>2, <2>3, <2>4, <2>5, SenderInvKept
<1>10. ASSUME NEW c \in Clients, SendMessageHIncrBy(c) \/ Fail(c)
       PROVE  SenderInv'
  <2>1. held' = held
    BY <1>10 DEF SendMessageHIncrBy, Fail
  <2>2. CASE call' = [call EXCEPT ![c] = Idle]
    <3>1. call'[c].op = "none" /\ \A d \in Clients \ {c} : call'[d] = call[d]
      BY <1>0, <2>2 DEF Idle
    <3>2. \A u \in Uids :
            \/ hist'[u] = hist[u]
            \/ call[c].op = "SendMessage" /\ call[c].uid = u /\ hist'[u].st \in {"sent", "failed"}
      BY <1>0, <1>10 DEF SendMessageHIncrBy, Fail, At, HistType
    <3>3. PlaceOK(call'[c], hist')
      BY <3>1 DEF PlaceOK
    <3>4. \A d \in Clients : held'[d] # Nil => held[d] # Nil /\ held'[d].uid = held[d].uid
      BY <2>1
    <3> QED
      BY <3>1, <3>2, <3>3, <3>4, SenderInvKept
  <2>3. CASE SendMessageHIncrBy(c) /\ hist' = hist /\ Resend(c, "zadd")
    BY <1>6, <2>1, <2>3 DEF SendMessageHIncrBy, At, Resend, Commands
  <2> QED
    BY <1>10, <2>2, <2>3 DEF SendMessageHIncrBy, Return, Fail
<1>11. ASSUME NEW c \in Clients, call[c].op \notin {"SendMessage", "DeleteMessage"},
              call' = [call EXCEPT ![c] = Idle] \/ \E pc \in Commands : call' = [call EXCEPT ![c].pc = pc],
              \A u \in Uids : hist'[u].st = hist[u].st /\ hist'[u].len = hist[u].len,
              \A d \in Clients : held'[d] # Nil =>
                \/ held[d] # Nil /\ held'[d].uid = held[d].uid
                \/ held'[d].uid \in Uids /\ hist[held'[d].uid].st # "unsent"
       PROVE  SenderInv'
  <2>1. /\ \A d \in Clients \ {c} : call'[d] = call[d]
        /\ \/ call'[c].op = "none"
           \/ call'[c].op = call[c].op /\ call'[c].uid = call[c].uid
    BY <1>0, <1>11 DEF CallType, Idle
  <2>2. call'[c].op # "SendMessage" /\ PlaceOK(call'[c], hist')
    BY <1>0, <1>11, <2>1 DEF PlaceOK, CallOK
  <2> QED
    BY <1>11, <2>1, <2>2, SenderInvKept
<1>12. ASSUME NEW c \in Clients, ReceiveMessageEval(c) \/ PopMessageEval(c)
       PROVE  SenderInv'
  <2>1. PICK u \in Uids, f \in Fates :
          /\ zset[u] # Nil
          /\ hist' = Handed(u, TimeSentUnix(call[c]), f)
          /\ held' = held \/ held' = [held EXCEPT ![c] = Unmarshal(call[c], u)]
    BY <1>0, <1>12
    DEF ReceiveMessageEval, PopMessageEval, ReceiveScript, PopScript, IsNext, Visible, Fates, HistType
  <2>2. hist[u].st # "unsent"
    BY <2>1 DEF IInv, StoredInv
  <2>3. \A v \in Uids : hist'[v].st = hist[v].st /\ hist'[v].len = hist[v].len
    BY <1>0, <2>1 DEF Handed, HistType
  <2>4. \A d \in Clients : held'[d] # Nil =>
                \/ held[d] # Nil /\ held'[d].uid = held[d].uid
                \/ held'[d].uid \in Uids /\ hist[held'[d].uid].st # "unsent"
    BY <1>0, <2>1, <2>2 DEF Unmarshal
  <2>5. call[c].op \notin {"SendMessage", "DeleteMessage"}
    BY <1>12 DEF ReceiveMessageEval, PopMessageEval, At
  <2>6. call' = [call EXCEPT ![c] = Idle] \/ \E pc \in Commands : call' = [call EXCEPT ![c].pc = pc]
    BY <1>12 DEF ReceiveMessageEval, PopMessageEval, Return, Resend, Commands
  <2> QED
    BY <1>11, <2>3, <2>4, <2>5, <2>6
<1>13. ASSUME NEW c \in Clients, ChangeMessageVisibilityEval(c)
       PROVE  SenderInv'
  <2>1. \A d \in Clients : held'[d] # Nil => held[d] # Nil /\ held'[d].uid = held[d].uid
    BY <1>0, <1>13, OverwrittenUid DEF ChangeMessageVisibilityEval
  <2>2. call' = [call EXCEPT ![c] = Idle] \/ \E pc \in Commands : call' = [call EXCEPT ![c].pc = pc]
    BY <1>13 DEF ChangeMessageVisibilityEval, Return, Resend, Commands
  <2> QED
    BY <1>11, <1>13, <2>1, <2>2 DEF ChangeMessageVisibilityEval, At
<1>14. ASSUME NEW c \in Clients, DeleteMessageZRem(c) \/ DeleteQueueDel(c)
       PROVE  SenderInv'
  <2>1. \A u \in Uids : hist'[u].st = hist[u].st /\ hist'[u].len = hist[u].len
    BY <1>0, <1>14 DEF DeleteMessageZRem, DeleteQueueDel, HistType
  <2>2. /\ \A d \in Clients \ {c} : call'[d] = call[d]
        /\ call'[c].op = call[c].op
        /\ call'[c].uid = call[c].uid
        /\ call[c].op \in {"DeleteMessage", "DeleteQueue"}
        /\ held' = held
    BY <1>0, <1>14 DEF DeleteMessageZRem, DeleteQueueDel, At, Goto, CallType
  <2>3. PlaceOK(call'[c], hist')
    BY <1>0, <2>1, <2>2 DEF PlaceOK, CallOK
  <2> QED
    BY <2>1, <2>2, <2>3, SenderInvKept
<1> QED
  BY <1>1, <1>3, <1>4, <1>5, <1>7, <1>8, <1>9, <1>10, <1>12, <1>13, <1>14, StepCases
  DEF Quiet

-----------------------------------------------------------------------------
(* What Redis holds.  The steps that only move a call along.               *)
LEMMA QuietPlace ==
  ASSUME IInv, NEW c \in Clients, Quiet(c)
  PROVE  /\ \A d \in Clients \ {c} : call'[d] = call[d]
         /\ call'[c].pc \notin {"hincrby", "hdel"}
<1>0. call \in [Clients -> CallType] /\ \A d \in Clients : CallOK(call[d], now)
  BY DEF IInv, TypeOK, CallInv
<1>1. CASE StartCreateQueue(c)
  BY <1>0, <1>1 DEF StartCreateQueue, Start, Idle
<1>2. CASE StartReceiveMessage(c)
  BY <1>0, <1>2 DEF StartReceiveMessage, Start, Idle
<1>3. CASE StartChangeMessageVisibility(c)
  BY <1>0, <1>3 DEF StartChangeMessageVisibility, Start, Idle
<1>4. CASE StartSendMessage(c)
  BY <1>0, <1>4 DEF StartSendMessage, Start, Idle
<1>8. CASE StartSetQueueAttributes(c)
  BY <1>0, <1>8 DEF StartSetQueueAttributes, Start, Idle
<1>9. CASE StartDeleteMessage(c)
  BY <1>0, <1>9 DEF StartDeleteMessage, Start, Idle
<1>10. CASE StartPopMessage(c)
  BY <1>0, <1>10 DEF StartPopMessage, Start, Idle
<1>11. CASE StartDeleteQueue(c)
  BY <1>0, <1>11 DEF StartDeleteQueue, Start, Idle
<1>5. CASE GetQueueFails(c) \/ NothingVisible(c)
  BY <1>0, <1>5 DEF GetQueueFails, NothingVisible, Return, Idle
<1>6. CASE GetQueueSucceeds(c)
  BY <1>0, <1>6 DEF GetQueueSucceeds, CallType
<1>7. CASE ResendPipeline(c)
  BY <1>0, <1>7 DEF ResendPipeline, Resend, CallType
<1> QED
  BY <1>1, <1>2, <1>3, <1>4, <1>5, <1>6, <1>7, <1>8,
     <1>9, <1>10, <1>11 DEF Quiet

LEMMA StoredKept ==
  ASSUME IInv, NEW c \in Clients,
         zset' = zset, body' = body, rc' = rc, fr' = fr, hist' = hist,
         \A d \in Clients \ {c} : call'[d] = call[d],
         call'[c].pc \notin {"hincrby", "hdel"} \/ call'[c] = call[c]
  PROVE  StoredInv' /\ ReceiptsCounted'
<1>1. StoredInv /\ ReceiptsCounted
  BY DEF IInv
<1>2. ReceiptsCounted'
  BY <1>1 DEF ReceiptsCounted
<1>3. \A d \in Clients : call'[d].pc \in {"hincrby", "hdel"} => call'[d] = call[d]
  OBVIOUS
<1> QED
  BY <1>1, <1>2, <1>3 DEF StoredInv

LEMMA StoredInvStep == IInv /\ [Next]_vars => StoredInv' /\ ReceiptsCounted'
<1> SUFFICES ASSUME IInv, [Next]_vars PROVE StoredInv' /\ ReceiptsCounted'
  OBVIOUS
<1>0. /\ call \in [Clients -> CallType]
      /\ hist \in [Uids -> HistType]
      /\ StoreTypeOK
      /\ \A c \in Clients : CallOK(call[c], now) /\ PlaceOK(call[c], hist)
      /\ StoredInv
      /\ ReceiptsCounted
  BY DEF IInv, TypeOK, CallInv, SenderInv
<1>1. CASE UNCHANGED vars \/ Tick
  BY <1>0, <1>1 DEF vars, store, Tick, StoredInv, ReceiptsCounted
<1>2. ASSUME NEW c \in Clients, Quiet(c)
      PROVE  StoredInv' /\ ReceiptsCounted'
  BY <1>2, QuietFrame, QuietPlace, StoredKept
<1>3. ASSUME NEW c \in Clients, CreateQueueHMSet(c) \/ CreateQueueSAdd(c) \/ DeleteQueueSRem(c)
      PROVE  StoredInv' /\ ReceiptsCounted'
  <2>1. /\ \A d \in Clients \ {c} : call'[d] = call[d]
        /\ call'[c].pc \notin {"hincrby", "hdel"}
    BY <1>0, <1>3 DEF CreateQueueHMSet, CreateQueueSAdd, DeleteQueueSRem, Goto, Return, Resend, CallType, Idle
  <2> QED
    BY <1>3, <2>1, StoredKept DEF CreateQueueHMSet, CreateQueueSAdd, DeleteQueueSRem
<1>4. ASSUME NEW c \in Clients, SetQueueAttributesHSet(c)
      PROVE  StoredInv' /\ ReceiptsCounted'
  <2>1. call[c].pc # "hset_vt" => NextSetting(c) \in {"hset_maxsize", "hset_vt"}
    BY <1>4 DEF SetQueueAttributesHSet, NextSetting, Settings
  <2>2. /\ \A d \in Clients \ {c} : call'[d] = call[d]
        /\ call'[c].pc \notin {"hincrby", "hdel"}
    BY <1>0, <1>4, <2>1 DEF SetQueueAttributesHSet, Goto, Return, Resend, CallType, Idle
  <2> QED
    BY <1>4, <2>2, StoredKept DEF SetQueueAttributesHSet
<1>5. ASSUME NEW c \in Clients, SendMessageZAdd(c)
      PROVE  StoredInv' /\ ReceiptsCounted'
  <2> DEFINE u == call[c].uid
  <2>1. /\ call[c].op = "SendMessage" /\ u \in Uids
        /\ hist[u].st \in {"unsent", "sending"}
        /\ SendScore(call[c]) \in Int
    BY <1>0, <1>5, TimesAreInts DEF SendMessageZAdd, At, CallOK, PlaceOK
  <2>2. /\ zset'[u] # Nil
        /\ hist'[u].st = "sending"
        /\ hist'[u].got = hist[u].got
        /\ hist'[u].first = hist[u].first
        /\ hist'[u].resent = (hist[u].st = "sending")
        /\ \A v \in Uids \ {u} : hist'[v] = hist[v] /\ zset'[v] = zset[v]
        /\ body' = body /\ rc' = rc /\ fr' = fr
    BY <1>0, <1>5, <2>1, StoreAssumption DEF SendMessageZAdd, HistType, StoreTypeOK
  <2>3. /\ \A d \in Clients \ {c} : call'[d] = call[d]
        /\ call'[c].pc = "hset"
    BY <1>0, <1>5 DEF SendMessageZAdd, Goto, CallType
  <2>4. ASSUME NEW d \in Clients, call'[d].pc \in {"hincrby", "hdel"}
        PROVE  /\ call'[d] = call[d]
               /\ call[d].pc = "hincrby" => call[d].uid \in Uids \ {u}
               /\ call[d].pc = "hdel" /\ call[d].uid = u => hist[u].st = "sending"
    <3>1. d # c /\ call'[d] = call[d]
      BY <2>3, <2>4
    <3>2. CallOK(call[d], now) /\ PlaceOK(call[d], hist) /\ call[d] \in CallType
      BY <1>0
    <3>3. call[d].pc = "hincrby" => call[d].op = "SendMessage"
      BY <3>2 DEF CallOK, CallType, Methods, Settings
    <3>4. call[d].pc = "hdel" => call[d].op = "DeleteMessage"
      BY <3>2 DEF CallOK, CallType, Methods, Settings
    <3>5. call[d].op = "SendMessage" => call[d].uid # u
      BY <2>1, <3>1 DEF IInv, SenderInv
    <3> QED
      BY <2>1, <3>1, <3>2, <3>3, <3>4, <3>5 DEF CallOK, PlaceOK
  <2>5. \A v \in Uids :
          /\ hist'[v].st = "unsent" =>
               /\ zset'[v] = Nil /\ rc'[v] = Nil /\ fr'[v] = Nil
               /\ hist'[v].got = 0 /\ ~hist'[v].resent
          /\ hist'[v].st # "unsent" => zset'[v] # Nil \/ hist'[v].fate # "none"
          /\ hist'[v].st = "sent" /\ zset'[v] # Nil => body'[v] = hist'[v].len
    BY <1>0, <2>2 DEF StoredInv
  <2>6. \A d \in Clients :
          call'[d].pc = "hincrby" /\ zset'[call'[d].uid] # Nil =>
            body'[call'[d].uid] = call'[d].len
    BY <1>0, <2>2, <2>4 DEF StoredInv
  <2>7. ASSUME NEW d \in Clients, call'[d].pc = "hdel"
        PROVE  zset'[call'[d].uid] = Nil \/ hist'[call'[d].uid].resent
    <3>1. call'[d] = call[d] /\ (call[d].uid = u => hist[u].st = "sending")
      BY <2>4, <2>7
    <3>2. CASE call[d].uid = u
      BY <2>2, <3>1, <3>2
    <3>3. CASE call[d].uid # u
      <4>1. call[d].uid \in Uids
        BY <1>0, <2>7, <3>1 DEF CallOK, CallType, Methods, Settings
      <4> QED
        BY <1>0, <2>2, <2>7, <3>1, <3>3, <4>1 DEF StoredInv
    <3> QED
      BY <3>2, <3>3
  <2>8. ReceiptsCounted'
    <3>1. hist[u].st = "unsent" => rc[u] = Nil /\ hist[u].got = 0
      BY <1>0, <2>1 DEF StoredInv
    <3>2. hist[u].st = "sending" => hist'[u].resent
      BY <2>2
    <3> QED
      BY <1>0, <2>1, <2>2, <3>1, <3>2 DEF ReceiptsCounted
  <2> QED
    BY <2>5, <2>6, <2>7, <2>8 DEF StoredInv
<1>6. ASSUME NEW c \in Clients, SendMessageHSet(c)
      PROVE  StoredInv' /\ ReceiptsCounted'
  <2> DEFINE u == call[c].uid
  <2>1. /\ call[c].op = "SendMessage" /\ u \in Uids
        /\ hist[u].st = "sending"
        /\ \A d \in Clients \ {c} : call[d].op = "SendMessage" => call[d].uid # u
    BY <1>0, <1>6 DEF SendMessageHSet, At, CallOK, PlaceOK, IInv, SenderInv
  <2>2. /\ zset' = zset /\ rc' = rc /\ fr' = fr /\ hist' = hist
        /\ body'[u] = call[c].len
        /\ \A v \in Uids \ {u} : body'[v] = body[v]
        /\ \A d \in Clients \ {c} : call'[d] = call[d]
        /\ call'[c].pc = "hincrby" /\ call'[c].uid = u /\ call'[c].len = call[c].len
    BY <1>0, <1>6, <2>1 DEF SendMessageHSet, Goto, StoreTypeOK, CallType
  <2>3. ReceiptsCounted'
    BY <1>0, <2>2 DEF ReceiptsCounted
  <2>4. \A d \in Clients \ {c} : call[d].pc = "hincrby" => call[d].uid \in Uids \ {u}
    BY <1>0, <2>1 DEF CallOK, CallType, Methods, Settings
  <2> QED
    BY <1>0, <2>1, <2>2, <2>3, <2>4 DEF StoredInv
<1>7. ASSUME NEW c \in Clients, SendMessageHIncrBy(c)
      PROVE  StoredInv' /\ ReceiptsCounted'
  <2> DEFINE u == call[c].uid
  <2>1. /\ u \in Uids /\ call[c].pc = "hincrby"
        /\ hist[u].st = "sending" /\ hist[u].len = call[c].len
    BY <1>0, <1>7 DEF SendMessageHIncrBy, At, CallOK, PlaceOK
  <2>2. /\ zset' = zset /\ body' = body /\ rc' = rc /\ fr' = fr
        /\ \A d \in Clients \ {c} : call'[d] = call[d]
        /\ call'[c].pc \in {"idle", "zadd"}
    BY <1>0, <1>7 DEF SendMessageHIncrBy, Return, Resend, CallType, Idle
  <2>3. CASE hist' = hist
    BY <2>2, <2>3, StoredKept
  <2>4. CASE hist' = [hist EXCEPT ![u].st = "sent"]
    <3>1. /\ hist'[u].st = "sent" /\ hist'[u].len = call[c].len
          /\ hist'[u].got = hist[u].got /\ hist'[u].first = hist[u].first
          /\ hist'[u].resent = hist[u].resent /\ hist'[u].fate = hist[u].fate
          /\ \A v \in Uids \ {u} : hist'[v] = hist[v]
      BY <1>0, <2>1, <2>4 DEF HistType
    <3>2. ReceiptsCounted'
      BY <1>0, <2>2, <3>1 DEF ReceiptsCounted
    <3>3. zset[u] # Nil => body[u] = call[c].len
      BY <1>0, <2>1 DEF StoredInv
    <3>4. ASSUME NEW d \in Clients, call'[d].pc \in {"hincrby", "hdel"}
          PROVE  /\ call'[d] = call[d] /\ call[d].uid \in Uids
                 /\ hist'[call[d].uid].resent = hist[call[d].uid].resent
      <4>1. call'[d] = call[d]
        BY <2>2, <3>4
      <4>2. call[d].uid \in Uids
        BY <1>0, <3>4, <4>1 DEF CallOK, CallType, Methods, Settings
      <4> QED
        BY <3>1, <4>1, <4>2
    <3> QED
      BY <1>0, <2>1, <2>2, <3>1, <3>2, <3>3, <3>4 DEF StoredInv
  <2> QED
    BY <1>7, <2>3, <2>4 DEF SendMessageHIncrBy
<1>8. ASSUME NEW c \in Clients, Fail(c)
      PROVE  StoredInv' /\ ReceiptsCounted'
  <2>1. /\ zset' = zset /\ body' = body /\ rc' = rc /\ fr' = fr
        /\ \A d \in Clients \ {c} : call'[d] = call[d]
        /\ call'[c].pc = "idle"
    BY <1>0, <1>8 DEF Fail, store, Idle
  <2>2. CASE hist' = hist
    BY <2>1, <2>2, StoredKept
  <2>3. ASSUME NEW u \in Uids, hist[u].st = "sending", hist' = [hist EXCEPT ![u].st = "failed"]
        PROVE  StoredInv' /\ ReceiptsCounted'
    <3>1. /\ hist'[u].st = "failed"
          /\ hist'[u].got = hist[u].got /\ hist'[u].first = hist[u].first
          /\ hist'[u].resent = hist[u].resent /\ hist'[u].fate = hist[u].fate
          /\ \A v \in Uids \ {u} : hist'[v] = hist[v]
      BY <1>0, <2>3 DEF HistType
    <3>2. ReceiptsCounted'
      BY <1>0, <2>1, <3>1 DEF ReceiptsCounted
    <3>4. ASSUME NEW d \in Clients, call'[d].pc \in {"hincrby", "hdel"}
          PROVE  /\ call'[d] = call[d] /\ call[d].uid \in Uids
                 /\ hist'[call[d].uid].resent = hist[call[d].uid].resent
      <4>1. call'[d] = call[d]
        BY <2>1, <3>4
      <4>2. call[d].uid \in Uids
        BY <1>0, <3>4, <4>1 DEF CallOK, CallType, Methods, Settings
      <4> QED
        BY <3>1, <4>1, <4>2
    <3> QED
      BY <1>0, <2>1, <2>3, <3>1, <3>2, <3>4 DEF StoredInv
  <2>4. call[c].op = "SendMessage" => call[c].uid \in Uids
    BY <1>0 DEF CallOK
  <2> QED
    BY <1>8, <2>2, <2>3, <2>4 DEF Fail
<1>9. ASSUME NEW c \in Clients, NEW u \in Uids,
             \A d \in Clients \ {c} : call'[d] = call[d],
             call'[c].pc \notin {"hincrby", "hdel"},
             zset[u] # Nil,
             \A v \in Uids \ {u} :
               zset'[v] = zset[v] /\ body'[v] = body[v] /\ rc'[v] = rc[v] /\ fr'[v] = fr[v]
                 /\ hist'[v] = hist[v],
             hist'[u].st = hist[u].st, hist'[u].len = hist[u].len, hist'[u].resent = hist[u].resent,
             zset'[u] # Nil => body'[u] = body[u],
             zset'[u] = Nil => hist'[u].fate # "none",
             rc'[u] = Nil <=> fr'[u] = Nil,
             zset'[u] # Nil /\ ~hist[u].resent =>
               IF hist'[u].got = 0 THEN rc'[u] = Nil
               ELSE rc'[u] = hist'[u].got /\ fr'[u] = hist'[u].first
      PROVE  StoredInv' /\ ReceiptsCounted'
  <2>1. hist[u].st # "unsent"
    BY <1>0, <1>9 DEF StoredInv
  <2>2. ReceiptsCounted'
    BY <1>0, <1>9 DEF ReceiptsCounted
  <2>3. ASSUME NEW d \in Clients, call'[d].pc \in {"hincrby", "hdel"}
        PROVE  call'[d] = call[d] /\ call[d].uid \in Uids
    <3>1. call'[d] = call[d]
      BY <1>9, <2>3
    <3> QED
      BY <1>0, <2>3, <3>1 DEF CallOK, CallType, Methods, Settings
  <2>4. \A v \in Uids :
          /\ hist'[v].st = "unsent" =>
               /\ zset'[v] = Nil /\ rc'[v] = Nil /\ fr'[v] = Nil
               /\ hist'[v].got = 0 /\ ~hist'[v].resent
          /\ hist'[v].st # "unsent" => zset'[v] # Nil \/ hist'[v].fate # "none"
          /\ hist'[v].st = "sent" /\ zset'[v] # Nil => body'[v] = hist'[v].len
    BY <1>0, <1>9, <2>1 DEF StoredInv
  <2>5. \A v \in Uids : zset'[v] # Nil => zset[v] # Nil /\ body'[v] = body[v]
    BY <1>9
  <2>6. \A v \in Uids : hist'[v].resent = hist[v].resent
    BY <1>9
  <2> QED
    BY <1>0, <2>2, <2>3, <2>4, <2>5, <2>6 DEF StoredInv
<1>10. ASSUME NEW c \in Clients, ReceiveMessageEval(c)
       PROVE  StoredInv' /\ ReceiptsCounted'
  <2> DEFINE k == call[c]
  <2>1. PICK u \in Uids :
          /\ ReceiveScript(u, TimeSentUnix(k), TimeVisibilityExpiresUnix(k, k.vt))
          /\ hist' = Handed(u, TimeSentUnix(k), hist[u].fate)
    BY <1>10 DEF ReceiveMessageEval
  <2>2. k \in CallType /\ k.q \in Attrs
    BY <1>0, <1>10 DEF ReceiveMessageEval, At, CallOK
  <2>3. TimeVisibilityExpiresUnix(k, k.vt) \in Int /\ TimeSentUnix(k) \in Int
    BY <2>2, TimesAreInts
  <2>4. /\ \A d \in Clients \ {c} : call'[d] = call[d]
        /\ call'[c].pc \notin {"hincrby", "hdel"}
    BY <1>0, <1>10 DEF ReceiveMessageEval, Return, Resend, CallType, Idle
  <2>5. /\ zset[u] # Nil /\ zset'[u] # Nil
        /\ body' = body
        /\ rc'[u] = NextRC(u)
        /\ fr'[u] = FirstReceived(u, TimeSentUnix(k))
        /\ \A v \in Uids \ {u} : zset'[v] = zset[v] /\ rc'[v] = rc[v] /\ fr'[v] = fr[v]
    BY <1>0, <2>1, <2>3, StoreAssumption DEF ReceiveScript, IsNext, Visible, StoreTypeOK
  <2>6. /\ hist'[u].st = hist[u].st /\ hist'[u].len = hist[u].len /\ hist'[u].resent = hist[u].resent
        /\ hist'[u].got = hist[u].got + 1
        /\ hist'[u].first = IF hist[u].got = 0 THEN TimeSentUnix(k) ELSE hist[u].first
        /\ hist[u].got \in Nat
        /\ \A v \in Uids \ {u} : hist'[v] = hist[v]
    BY <1>0, <2>1 DEF Handed, HistType
  <2>7. rc'[u] # Nil /\ fr'[u] # Nil
    BY <1>0, <2>3, <2>5, StoreAssumption DEF NextRC, FirstReceived, StoreTypeOK, ReceiptsCounted
  <2>8. ~hist[u].resent => rc'[u] = hist'[u].got /\ fr'[u] = hist'[u].first
    BY <1>0, <2>5, <2>6, StoreAssumption DEF NextRC, FirstReceived, StoreTypeOK, ReceiptsCounted
  <2> QED
    BY <2>4, <2>5, <2>6, <2>7, <2>8, <1>9
<1>11. ASSUME NEW c \in Clients, PopMessageEval(c)
       PROVE  StoredInv' /\ ReceiptsCounted'
  <2>1. PICK u \in Uids, f \in {"stolen", "popped"} :
          /\ PopScript(u, TimeSentUnix(call[c]))
          /\ hist' = Handed(u, TimeSentUnix(call[c]), f)
    BY <1>11 DEF PopMessageEval
  <2>2. /\ \A d \in Clients \ {c} : call'[d] = call[d]
        /\ call'[c].pc \notin {"hincrby", "hdel"}
    BY <1>0, <1>11 DEF PopMessageEval, Return, Resend, CallType, Idle
  <2>3. /\ zset[u] # Nil /\ zset'[u] = Nil /\ rc'[u] = Nil /\ fr'[u] = Nil
        /\ \A v \in Uids \ {u} :
             zset'[v] = zset[v] /\ body'[v] = body[v] /\ rc'[v] = rc[v] /\ fr'[v] = fr[v]
    BY <1>0, <2>1 DEF PopScript, IsNext, Visible, StoreTypeOK
  <2>4. /\ hist'[u].st = hist[u].st /\ hist'[u].len = hist[u].len /\ hist'[u].resent = hist[u].resent
        /\ hist'[u].fate = f
        /\ \A v \in Uids \ {u} : hist'[v] = hist[v]
    BY <1>0, <2>1 DEF Handed, HistType
  <2> QED
    BY <2>2, <2>3, <2>4, <1>9
<1>12. ASSUME NEW c \in Clients, ChangeMessageVisibilityEval(c)
       PROVE  StoredInv' /\ ReceiptsCounted'
  <2> DEFINE u == call[c].uid
  <2>1. u \in Uids /\ TimeVisibilityExpiresUnix(call[c], call[c].vt) \in Int
    BY <1>0, <1>12, TimesAreInts DEF ChangeMessageVisibilityEval, At, CallOK
  <2>2. /\ \A d \in Clients \ {c} : call'[d] = call[d]
        /\ call'[c].pc \notin {"hincrby", "hdel"}
        /\ body' = body /\ rc' = rc /\ fr' = fr /\ hist' = hist
    BY <1>0, <1>12 DEF ChangeMessageVisibilityEval, HideScript, Return, Resend, CallType, Idle
  <2>3. CASE zset[u] = Nil
    BY <1>12, <2>2, <2>3, StoredKept DEF ChangeMessageVisibilityEval, HideScript
  <2>4. CASE zset[u] # Nil
    <3>1. zset'[u] # Nil /\ \A v \in Uids \ {u} : zset'[v] = zset[v]
      BY <1>0, <1>12, <2>1, <2>4, StoreAssumption
      DEF ChangeMessageVisibilityEval, HideScript, StoreTypeOK
    <3> QED
      BY <1>0, <2>1, <2>2, <2>4, <3>1, <1>9 DEF ReceiptsCounted
  <2> QED
    BY <2>3, <2>4
<1>13. ASSUME NEW c \in Clients, DeleteMessageZRem(c)
       PROVE  StoredInv' /\ ReceiptsCounted'
  <2> DEFINE u == call[c].uid
  <2>1. u \in Uids
    BY <1>0, <1>13 DEF DeleteMessageZRem, At, CallOK
  <2>2. /\ \A d \in Clients \ {c} : call'[d] = call[d]
        /\ call'[c].pc = "hdel" /\ call'[c].uid = u
        /\ body' = body /\ rc' = rc /\ fr' = fr
        /\ zset'[u] = Nil
        /\ \A v \in Uids \ {u} : zset'[v] = zset[v]
    BY <1>0, <1>13, <2>1 DEF DeleteMessageZRem, Goto, CallType, StoreTypeOK
  <2>3. /\ \A v \in Uids : /\ hist'[v].st = hist[v].st /\ hist'[v].len = hist[v].len
                           /\ hist'[v].resent = hist[v].resent /\ hist'[v].got = hist[v].got
                           /\ hist'[v].first = hist[v].first
        /\ \A v \in Uids \ {u} : hist'[v] = hist[v]
        /\ hist'[u].fate = IF zset[u] = Nil THEN hist[u].fate ELSE "deleted"
    BY <1>0, <1>13, <2>1 DEF DeleteMessageZRem, HistType
  <2>4. ReceiptsCounted'
    BY <1>0, <2>1, <2>2, <2>3 DEF ReceiptsCounted
  <2>5. ASSUME NEW d \in Clients \ {c}, call'[d].pc \in {"hincrby", "hdel"}
        PROVE  call'[d] = call[d] /\ call[d].uid \in Uids
    <3>1. call'[d] = call[d]
      BY <2>2
    <3> QED
      BY <1>0, <2>5, <3>1 DEF CallOK, CallType, Methods, Settings
  <2>6. \A v \in Uids :
          /\ hist'[v].st = "unsent" =>
               /\ zset'[v] = Nil /\ rc'[v] = Nil /\ fr'[v] = Nil
               /\ hist'[v].got = 0 /\ ~hist'[v].resent
          /\ hist'[v].st # "unsent" => zset'[v] # Nil \/ hist'[v].fate # "none"
          /\ hist'[v].st = "sent" /\ zset'[v] # Nil => body'[v] = hist'[v].len
    BY <1>0, <2>2, <2>3 DEF StoredInv
  <2>7. \A v \in Uids : zset'[v] # Nil => zset[v] # Nil
    BY <2>2
  <2>8. ASSUME NEW d \in Clients
        PROVE  /\ call'[d].pc = "hincrby" /\ zset'[call'[d].uid] # Nil =>
                    body'[call'[d].uid] = call'[d].len
               /\ call'[d].pc = "hdel" => zset'[call'[d].uid] = Nil \/ hist'[call'[d].uid].resent
    <3>1. CASE d = c
      BY <2>2, <3>1
    <3>2. CASE d # c
      BY <1>0, <2>2, <2>3, <2>5, <2>7, <3>2 DEF StoredInv
    <3> QED
      BY <3>1, <3>2
  <2> QED
    BY <2>4, <2>6, <2>8 DEF StoredInv
<1>14. ASSUME NEW c \in Clients, DeleteMessageHDel(c)
       PROVE  StoredInv' /\ ReceiptsCounted'
  <2> DEFINE u == call[c].uid
  <2>1. u \in Uids /\ (zset[u] = Nil \/ hist[u].resent)
    BY <1>0, <1>14 DEF DeleteMessageHDel, At, CallOK, StoredInv
  <2>2. /\ \A d \in Clients \ {c} : call'[d] = call[d]
        /\ call'[c].pc \in {"idle", "zrem"}
        /\ zset' = zset /\ body' = body /\ hist' = hist
        /\ rc'[u] = Nil /\ fr'[u] = Nil
        /\ \A v \in Uids \ {u} : rc'[v] = rc[v] /\ fr'[v] = fr[v]
    BY <1>0, <1>14, <2>1 DEF DeleteMessageHDel, Return, Resend, CallType, StoreTypeOK, Idle
  <2>3. ReceiptsCounted'
    BY <1>0, <2>1, <2>2 DEF ReceiptsCounted
  <2>4. \A d \in Clients : call'[d].pc \in {"hincrby", "hdel"} => call'[d] = call[d]
    BY <2>2
  <2> QED
    BY <1>0, <2>1, <2>2, <2>3, <2>4 DEF StoredInv
<1>15. ASSUME NEW c \in Clients, DeleteQueueDel(c)
       PROVE  StoredInv' /\ ReceiptsCounted'
  <2>1. /\ \A d \in Clients \ {c} : call'[d] = call[d]
        /\ call'[c].pc = "srem"
        /\ \A v \in Uids : zset'[v] = Nil
        /\ body' = body /\ rc' = rc /\ fr' = fr
    BY <1>0, <1>15 DEF DeleteQueueDel, Goto, CallType, NoField
  <2>2. \A v \in Uids : /\ hist'[v].st = hist[v].st
                        /\ hist'[v].resent = hist[v].resent /\ hist'[v].got = hist[v].got
                        /\ hist'[v].fate = IF zset[v] = Nil THEN hist[v].fate ELSE "cleared"
    BY <1>0, <1>15 DEF DeleteQueueDel, HistType
  <2>3. ReceiptsCounted'
    BY <1>0, <2>1, <2>2 DEF ReceiptsCounted
  <2>4. \A v \in Uids :
          /\ hist'[v].st = "unsent" =>
               /\ zset'[v] = Nil /\ rc'[v] = Nil /\ fr'[v] = Nil
               /\ hist'[v].got = 0 /\ ~hist'[v].resent
          /\ hist'[v].st # "unsent" => zset'[v] # Nil \/ hist'[v].fate # "none"
          /\ hist'[v].st = "sent" /\ zset'[v] # Nil => body'[v] = hist'[v].len
    BY <1>0, <2>1, <2>2 DEF StoredInv
  <2>5. ASSUME NEW d \in Clients, call'[d].pc \in {"hincrby", "hdel"}
        PROVE  call'[d] = call[d] /\ call[d].uid \in Uids
    <3>1. call'[d] = call[d]
      BY <2>1, <2>5
    <3> QED
      BY <1>0, <2>5, <3>1 DEF CallOK, CallType, Methods, Settings
  <2> QED
    BY <2>1, <2>3, <2>4, <2>5 DEF StoredInv
<1> QED
  BY <1>1, <1>2, <1>3, <1>4, <1>5, <1>6, <1>7, <1>8, <1>10, <1>11, <1>12, <1>13, <1>14, <1>15,
     StepCases

-----------------------------------------------------------------------------
(* Leases.  The heart of the argument: a script never hands out a message  *)
(* on which someone holds a lease that runs on after this millisecond,     *)
(* because the score of the message is beyond every time a script can have *)
(* read.                                                                   *)
LEMMA VisibleIsUnleased ==
  ASSUME IInv, NEW t \in Nat, t <= now,
         NEW u \in Uids, IsNext(u, Ms(t)),
         NEW d \in Clients
  PROVE  ~RunsOn(d, u)
<1> SUFFICES ASSUME RunsOn(d, u) PROVE FALSE
  OBVIOUS
<1>1. /\ zset[u] # Nil /\ zset[u] \in Int /\ zset[u] <= Ms(t)
      /\ now \in Nat
  BY DEF IInv, TypeOK, StoreTypeOK, IsNext, Visible
<1>2. Ms(t) <= Ms(now)
  BY <1>1, MsMonotone
<1>3. held[d] \in HeldType /\ Ms(held[d].deadline) \in Int /\ Ms(now) < Ms(held[d].deadline)
  BY MsIsInt DEF IInv, TypeOK, HeldType, RunsOn
<1>4. Ms(held[d].deadline) <= zset[u]
  BY <1>1 DEF IInv, LeaseInv
<1> QED
  BY <1>1, <1>2, <1>3, <1>4, MsIsInt

LEMMA NextIsUnleased ==
  ASSUME IInv, NEW c \in Clients,
         NEW u \in Uids, IsNext(u, TimeSentUnix(call[c])),
         NEW d \in Clients
  PROVE  ~RunsOn(d, u)
<1>1. call[c].t \in Nat /\ call[c].t <= now
  BY DEF IInv, TypeOK, CallInv, CallOK, CallType
<1> QED
  BY <1>1, VisibleIsUnleased DEF TimeSentUnix

(* A lease that runs on after a step in which its record did not change    *)
(* ran on before it.                                                       *)
LEMMA LeasesOnlyExpire ==
  ASSUME IInv, [Next]_vars, NEW c \in Clients, NEW u \in Uids,
         held'[c] = held[c], RunsOn(c, u)'
  PROVE  RunsOn(c, u)
<1>1. held[c] # Nil /\ held[c].uid = u /\ held[c].lease = "kept"
      /\ held[c].deadline \in Int
  BY DEF RunsOn, IInv, TypeOK, HeldType
<1>2. now \in Int /\ now' \in Int /\ now <= now'
  BY NowFrame DEF IInv, TypeOK, Tick
<1>3. Ms(now) <= Ms(now') /\ Ms(now) \in Int /\ Ms(now') \in Int /\ Ms(held[c].deadline) \in Int
  BY <1>1, <1>2, MsMonotone, MsIsInt
<1>4. Ms(now') < Ms(held[c].deadline)
  BY DEF RunsOn, Ms
<1> QED
  BY <1>1, <1>3, <1>4 DEF RunsOn

LEMMA OverwrittenLease ==
  ASSUME held \in [Clients -> HeldType \cup {Nil}], NEW c \in Clients, NEW u, NEW s,
         NEW d \in Clients,
         Overwritten(c, u, s)[d] # Nil, Overwritten(c, u, s)[d].lease = "kept"
  PROVE  /\ Overwritten(c, u, s)[d] = held[d]
         /\ held[d].uid = u => ~(s < Ms(held[d].deadline))
  BY DEF Overwritten, HeldType

(* What a script that hands out a message does to leases.                  *)
LEMMA HandingOut ==
  ASSUME IInv, NEW c \in Clients, ReceiveMessageEval(c) \/ PopMessageEval(c)
  PROVE  \E u \in Uids :
           /\ IsNext(u, TimeSentUnix(call[c]))
           /\ \A v \in Uids \ {u} : zset'[v] = zset[v]
           /\ \/ held' = held
              \/ /\ held' = [held EXCEPT ![c] = Unmarshal(call[c], u)]
                 /\ \/ zset'[u] = Nil
                    \/ zset'[u] = Ms(Unmarshal(call[c], u).deadline)
           /\ call[c].q \in Attrs
           /\ now' = now
<1>0. /\ zset \in [Uids -> Int \cup {Nil}]
      /\ call[c].q \in Attrs
  BY CallOfOp DEF IInv, TypeOK, StoreTypeOK, ReceiveMessageEval, PopMessageEval, At
<1>1. CASE ReceiveMessageEval(c)
  <2>1. PICK u \in Uids :
          /\ ReceiveScript(u, TimeSentUnix(call[c]), TimeVisibilityExpiresUnix(call[c], call[c].vt))
          /\ held' = held \/ held' = [held EXCEPT ![c] = Unmarshal(call[c], u)]
    BY <1>1 DEF ReceiveMessageEval
  <2>2. TimeVisibilityExpiresUnix(call[c], call[c].vt) = Ms(Unmarshal(call[c], u).deadline)
    BY DEF TimeVisibilityExpiresUnix, Unmarshal
  <2> QED
    BY <1>0, <1>1, <2>1, <2>2 DEF ReceiveScript, ReceiveMessageEval
<1>2. CASE PopMessageEval(c)
  <2>1. PICK u \in Uids :
          /\ PopScript(u, TimeSentUnix(call[c]))
          /\ held' = held \/ held' = [held EXCEPT ![c] = Unmarshal(call[c], u)]
    BY <1>2 DEF PopMessageEval
  <2> QED
    BY <1>0, <1>2, <2>1 DEF PopScript, PopMessageEval
<1> QED
  BY <1>1, <1>2

(* What a step that sets a score without handing out does to leases.       *)
LEMMA Overwriting ==
  ASSUME IInv, NEW c \in Clients, SendMessageZAdd(c) \/ ChangeMessageVisibilityEval(c)
  PROVE  \/ held' = held /\ zset' = zset
         \/ \E u \in Uids, s \in Int :
              /\ held' = Overwritten(c, u, s)
              /\ zset' = [zset EXCEPT ![u] = s]
<1>1. /\ call[c].uid \in Uids
      /\ SendScore(call[c]) \in Int
      /\ TimeVisibilityExpiresUnix(call[c], call[c].vt) \in Int
  BY CallOfOp, TimesAreInts DEF SendMessageZAdd, ChangeMessageVisibilityEval, At
<1> QED
  BY <1>1 DEF SendMessageZAdd, ChangeMessageVisibilityEval, HideScript

LEMMA LeaseInvStep == IInv /\ [Next]_vars => LeaseInv'
<1> SUFFICES ASSUME IInv, [Next]_vars, NEW d \in Clients, NEW v \in Uids,
                    RunsOn(d, v)', zset'[v] # Nil
             PROVE  Ms(held'[d].deadline) <= zset'[v]
  BY DEF LeaseInv, Ms
<1>0. /\ held \in [Clients -> HeldType \cup {Nil}]
      /\ zset \in [Uids -> Int \cup {Nil}]
      /\ held'[d] # Nil /\ held'[d].uid = v /\ held'[d].lease = "kept"
  BY DEF IInv, TypeOK, StoreTypeOK, RunsOn
<1>1. CASE held'[d] = held[d] /\ zset'[v] = zset[v]
  <2>1. RunsOn(d, v)
    BY <1>1, LeasesOnlyExpire
  <2> QED
    BY <1>1, <2>1 DEF IInv, LeaseInv
<1>2. ASSUME NEW c \in Clients, SendMessageZAdd(c) \/ ChangeMessageVisibilityEval(c)
      PROVE  Ms(held'[d].deadline) <= zset'[v]
  <2>1. CASE held' = held /\ zset' = zset
    BY <1>1, <2>1
  <2>2. ASSUME NEW u \in Uids, NEW s \in Int,
               held' = Overwritten(c, u, s), zset' = [zset EXCEPT ![u] = s]
        PROVE  Ms(held'[d].deadline) <= zset'[v]
    <3>1. held'[d] = held[d] /\ (v = u => ~(s < Ms(held[d].deadline)))
      BY <1>0, <2>2, OverwrittenLease
    <3>2. CASE v = u
      <4>1. zset'[v] = s /\ Ms(held[d].deadline) \in Int
        BY <1>0, <2>2, <3>1, <3>2, MsIsInt DEF HeldType
      <4> QED
        BY <3>1, <3>2, <4>1
    <3>3. CASE v # u
      BY <1>0, <1>1, <2>2, <3>1, <3>3
    <3> QED
      BY <3>2, <3>3
  <2> QED
    BY <1>2, <2>1, <2>2, Overwriting
<1>3. ASSUME NEW c \in Clients, ReceiveMessageEval(c) \/ PopMessageEval(c)
      PROVE  Ms(held'[d].deadline) <= zset'[v]
  <2>1. PICK u \in Uids :
           /\ IsNext(u, TimeSentUnix(call[c]))
           /\ \A w \in Uids \ {u} : zset'[w] = zset[w]
           /\ \/ held' = held
              \/ /\ held' = [held EXCEPT ![c] = Unmarshal(call[c], u)]
                 /\ \/ zset'[u] = Nil
                    \/ zset'[u] = Ms(Unmarshal(call[c], u).deadline)
           /\ call[c].q \in Attrs
    BY <1>3, HandingOut
  <2>2. CASE held'[d] = held[d]
    <3>1. RunsOn(d, v)
      BY <2>2, LeasesOnlyExpire
    <3>2. v # u
      BY <2>1, <2>2, <3>1, NextIsUnleased
    <3> QED
      BY <1>1, <2>1, <2>2, <3>2
  <2>3. CASE held'[d] # held[d]
    <3>1. held'[d] = Unmarshal(call[c], u) /\ (zset'[u] = Nil \/ zset'[u] = Ms(Unmarshal(call[c], u).deadline))
      BY <1>0, <2>1, <2>3
    <3>2. v = u
      BY <1>0, <3>1 DEF Unmarshal
    <3>3. Unmarshal(call[c], u).deadline \in Int
      <4>1. call[c] \in CallType
        BY DEF IInv, TypeOK
      <4> QED
        BY <2>1, <4>1, TimesAreInts DEF Unmarshal
    <3> QED
      BY <3>1, <3>2, <3>3, MsIsInt
  <2> QED
    BY <2>2, <2>3
<1>4. ASSUME NEW c \in Clients, DeleteMessageZRem(c) \/ DeleteQueueDel(c)
      PROVE  Ms(held'[d].deadline) <= zset'[v]
  <2>1. held' = held /\ (zset'[v] = zset[v] \/ zset'[v] = Nil)
    BY <1>0, <1>4 DEF DeleteMessageZRem, DeleteQueueDel, NoField
  <2> QED
    BY <1>1, <2>1
<1> QED
  BY <1>1, <1>2, <1>3, <1>4, HeldFrame, ZsetFrame

LEMMA OneRunsOnStep == IInv /\ [Next]_vars => OneRunsOn'
<1> SUFFICES ASSUME IInv, [Next]_vars, NEW d \in Clients, NEW e \in Clients, NEW v \in Uids,
                    d # e,
                    RunsOn(d, v)', RunsOn(e, v)'
             PROVE  FALSE
  BY DEF OneRunsOn
<1>0. /\ held \in [Clients -> HeldType \cup {Nil}]
      /\ held'[d] # Nil /\ held'[d].uid = v /\ held'[d].lease = "kept"
      /\ held'[e] # Nil /\ held'[e].uid = v /\ held'[e].lease = "kept"
  BY DEF IInv, TypeOK, RunsOn
<1>1. CASE held'[d] = held[d] /\ held'[e] = held[e]
  <2>1. RunsOn(d, v) /\ RunsOn(e, v)
    BY <1>1, LeasesOnlyExpire
  <2> QED
    BY <1>1, <2>1 DEF IInv, OneRunsOn
<1>2. ASSUME NEW c \in Clients, SendMessageZAdd(c) \/ ChangeMessageVisibilityEval(c)
      PROVE  FALSE
  <2>1. CASE held' = held
    BY <1>1, <2>1
  <2>2. ASSUME NEW u \in Uids, NEW s \in Int, held' = Overwritten(c, u, s)
        PROVE  FALSE
    <3>1. held'[d] = held[d] /\ held'[e] = held[e]
      BY <1>0, <2>2, OverwrittenLease
    <3> QED
      BY <1>1, <3>1
  <2> QED
    BY <1>2, <2>1, <2>2, Overwriting
<1>3. ASSUME NEW c \in Clients, ReceiveMessageEval(c) \/ PopMessageEval(c)
      PROVE  FALSE
  <2>1. PICK u \in Uids :
           /\ IsNext(u, TimeSentUnix(call[c]))
           /\ held' = held \/ held' = [held EXCEPT ![c] = Unmarshal(call[c], u)]
           /\ call[c].q \in Attrs
    BY <1>3, HandingOut
  <2>2. ASSUME NEW f \in {d, e}, held'[f] = held[f]
        PROVE  v # u
    <3>1. RunsOn(f, v)
      BY <2>2, LeasesOnlyExpire
    <3> QED
      BY <2>1, <3>1, NextIsUnleased
  <2>3. held'[d] = held[d] \/ held'[e] = held[e]
    BY <1>0, <2>1
  <2>4. v # u
    BY <2>2, <2>3
  <2>5. held'[d] = held[d] /\ held'[e] = held[e]
    BY <1>0, <2>1, <2>4 DEF Unmarshal
  <2> QED
    BY <1>1, <2>5
<1> QED
  BY <1>1, <1>2, <1>3, HeldFrame

-----------------------------------------------------------------------------
(* The queue's attributes.                                                 *)
LEMMA AttrsStay ==
  ASSUME IInv, [Next]_vars, attrs # Nil
  PROVE  attrs' # Nil
<1>1. CASE UNCHANGED vars \/ Tick
  BY <1>1 DEF vars, store, Tick
<1>2. CASE \E c \in Clients : Quiet(c)
  BY <1>2, QuietFrame
<1>3. ASSUME NEW c \in Clients, CreateQueueHMSet(c)
      PROVE  attrs' # Nil
  BY <1>3, StoreAssumption DEF CreateQueueHMSet, DefaultAttrs, Attrs
<1>4. ASSUME NEW c \in Clients, SetQueueAttributesHSet(c)
      PROVE  attrs' # Nil
  <2>1. attrs \in Attrs /\ call[c].q \in Options
    BY <1>4, CallOfOp DEF IInv, TypeOK, StoreTypeOK, SetQueueAttributesHSet
  <2>2. attrs' \in Attrs
    BY <1>4, <2>1 DEF SetQueueAttributesHSet, SetField, Attrs, Options, OptInt
  <2> QED
    BY <2>2, StoreAssumption
<1> QED
  BY <1>1, <1>2, <1>3, <1>4, StepCases
  DEF CreateQueueSAdd, SendMessageZAdd, SendMessageHSet, SendMessageHIncrBy, ReceiveMessageEval,
      ReceiveScript, PopMessageEval, PopScript, ChangeMessageVisibilityEval, HideScript,
      DeleteMessageZRem, DeleteMessageHDel, DeleteQueueDel, DeleteQueueSRem, Fail, store

LEMMA QueueStaysStep == IInv /\ [Next]_vars => QueueStays'
<1> DEFINE Writing == {"zadd", "hset", "hincrby"} \cup Settings
<1> SUFFICES ASSUME IInv, [Next]_vars, NEW d \in Clients, call'[d].pc \in Writing
             PROVE  call[d].pc \in Writing \/ attrs # Nil
  BY AttrsStay DEF QueueStays, IInv
<1>0. call \in [Clients -> CallType]
  BY DEF IInv, TypeOK
<1>1. CASE UNCHANGED vars \/ Tick
  BY <1>1 DEF vars, Tick
<1>2. ASSUME NEW c \in Clients,
             StartCreateQueue(c) \/ StartPopMessage(c) \/ StartDeleteQueue(c) \/ StartReceiveMessage(c)
      PROVE  call[d].pc \in Writing
  <2>1. call'[d] = call[d] \/ call'[d].pc \in {"hmset", "hmget", "del"}
    BY <1>0, <1>2
    DEF StartCreateQueue, StartPopMessage, StartDeleteQueue, StartReceiveMessage, Start, Idle
  <2> QED
    BY <2>1 DEF Settings
<1>3. ASSUME NEW c \in Clients, StartChangeMessageVisibility(c) \/ StartDeleteMessage(c)
      PROVE  call[d].pc \in Writing
  <2>1. call'[d] = call[d] \/ call'[d].pc \in {"hmget", "zrem"}
    BY <1>0, <1>3 DEF StartChangeMessageVisibility, StartDeleteMessage, Start, Idle
  <2> QED
    BY <2>1 DEF Settings
<1>4. ASSUME NEW c \in Clients, StartSendMessage(c)
      PROVE  call[d].pc \in Writing
  BY <1>0, <1>4 DEF StartSendMessage, NewUID, Start, Idle, Settings
<1>5. ASSUME NEW c \in Clients, StartSetQueueAttributes(c)
      PROVE  call[d].pc \in Writing
  BY <1>0, <1>5 DEF StartSetQueueAttributes, Start, Idle, Settings
<1>6. ASSUME NEW c \in Clients, GetQueueFails(c) \/ NothingVisible(c) \/ Fail(c)
      PROVE  call[d].pc \in Writing
  BY <1>0, <1>6 DEF GetQueueFails, NothingVisible, Fail, Return, Idle, Settings
<1>7. ASSUME NEW c \in Clients, GetQueueSucceeds(c)
      PROVE  attrs # Nil
  BY <1>7 DEF GetQueueSucceeds
<1>8. ASSUME NEW c \in Clients,
             ResendPipeline(c) \/ CreateQueueHMSet(c) \/ CreateQueueSAdd(c)
      PROVE  call[d].pc \in Writing
  BY <1>0, <1>8
  DEF ResendPipeline, CreateQueueHMSet, CreateQueueSAdd, Goto, Return, Resend, Idle, CallType, Settings
<1>9. ASSUME NEW c \in Clients, SendMessageZAdd(c) \/ SendMessageHSet(c) \/ SendMessageHIncrBy(c)
      PROVE  call[d].pc \in Writing
  BY <1>0, <1>9
  DEF SendMessageZAdd, SendMessageHSet, SendMessageHIncrBy, At, Goto, Return, Resend, CallType, Settings
<1>10. ASSUME NEW c \in Clients,
              ReceiveMessageEval(c) \/ PopMessageEval(c) \/ ChangeMessageVisibilityEval(c)
       PROVE  call[d].pc \in Writing
  BY <1>0, <1>10
  DEF ReceiveMessageEval, PopMessageEval, ChangeMessageVisibilityEval, Return, Resend, Idle, CallType, Settings
<1>11. ASSUME NEW c \in Clients, \/ DeleteMessageZRem(c) \/ DeleteMessageHDel(c)
                                 \/ DeleteQueueDel(c) \/ DeleteQueueSRem(c)
       PROVE  call[d].pc \in Writing
  BY <1>0, <1>11
  DEF DeleteMessageZRem, DeleteMessageHDel, DeleteQueueDel, DeleteQueueSRem, Goto, Return, Resend,
      Idle, CallType, Settings
<1>12. ASSUME NEW c \in Clients, SetQueueAttributesHSet(c)
       PROVE  call[d].pc \in Writing
  BY <1>0, <1>12 DEF SetQueueAttributesHSet, Goto, Return, Resend, Idle
<1> QED
  BY <1>1, <1>2, <1>3, <1>4, <1>5, <1>6, <1>7, <1>8, <1>9, <1>10, <1>11, <1>12, StepCases
  DEF Quiet

-----------------------------------------------------------------------------
(* IInv is inductive.                                                      *)
LEMMA InitIInv == Init => IInv
<1> SUFFICES ASSUME Init PROVE IInv
  OBVIOUS
<1>1. listed \in BOOLEAN
  BY Zenon DEF Init, StoreInit
<1>2. attrs \in Attrs \cup {Nil}
  BY StoreAssumption DEF Init, StoreInit, DefaultAttrs, Attrs
<1>3. StoreTypeOK
  BY <1>1, <1>2 DEF Init, StoreInit, NoField, StoreTypeOK
<1>4. Idle \in CallType
  BY DEF Idle, CallType, OptInt
<1>5. TypeOK
  BY <1>3, <1>4 DEF Init, TypeOK, HistType, Stages, Fates, OptInt
<1>6. CallInv
  BY DEF Init, CallInv, CallOK, Idle
<1>7. SenderInv
  BY DEF Init, SenderInv, PlaceOK, Idle
<1>8. StoredInv /\ ReceiptsCounted
  BY DEF Init, StoreInit, NoField, StoredInv, ReceiptsCounted, Idle
<1>9. LeaseInv /\ OneRunsOn
  BY DEF Init, LeaseInv, OneRunsOn, RunsOn
<1>10. QueueStays
  BY DEF Init, QueueStays, Idle, Settings
<1> QED
  BY <1>5, <1>6, <1>7, <1>8, <1>9, <1>10 DEF IInv

LEMMA NextIInv == IInv /\ [Next]_vars => IInv'
  BY TypeStep, CallInvStep, SenderInvStep, StoredInvStep, LeaseInvStep, OneRunsOnStep, QueueStaysStep
  DEF IInv

(* Whatever the clients call, in whatever interleaving, with any replies   *)
(* lost and any client crashed: types, what a call carries at each of its  *)
(* commands, one sender per message, what is stored of a message, and the  *)
(* scores behind running leases stay as IInv says.                         *)
THEOREM Invariance == Spec => []IInv
  BY InitIInv, NextIInv, PTL DEF Spec

(* Every variable keeps its type.  The first-received field is a time only *)
(* because :rc and :fr come and go together, so the type needs IInv.       *)
THEOREM Typing == Spec => []TypeOK
<1>1. IInv => TypeOK
  BY DEF IInv
<1> QED
  BY <1>1, Invariance, PTL

(* A lease is over by Redis's clock, or ends in this millisecond, or runs  *)
(* on after it.                                                            *)
LEMMA KeptEnds ==
  ASSUME IInv, NEW c \in Clients, NEW u \in Uids, Kept(c, u)
  PROVE  RunsOn(c, u) \/ Ms(now) = Ms(held[c].deadline)
<1>1. /\ held[c] # Nil /\ held[c].uid = u /\ held[c].lease = "kept"
      /\ now < held[c].deadline /\ now \in Int /\ held[c].deadline \in Int
  BY DEF Kept, Leased, IInv, TypeOK, HeldType
<1>2. Ms(now) <= Ms(held[c].deadline) /\ Ms(now) \in Int /\ Ms(held[c].deadline) \in Int
  BY <1>1, MsMonotone, MsIsInt
<1> QED
  BY <1>1, <1>2 DEF RunsOn

(* ReceiveMessage: two callers hold running leases on one message at most  *)
(* in the millisecond in which one of the leases ends, by the deadlines    *)
(* they know, whoever else receives, changes visibility, sends again,      *)
(* deletes or sets the queue's timeout, at whatever time, unless a lease   *)
(* was cut.                                                                *)
THEOREM Exclusion == Spec => []BriefOverlap
<1>1. IInv => BriefOverlap
  <2> SUFFICES ASSUME IInv, NEW c \in Clients, NEW d \in Clients, NEW u \in Uids,
                      c # d, Kept(c, u), Kept(d, u)
               PROVE  Ms(now) \in {Ms(held[c].deadline), Ms(held[d].deadline)}
    BY DEF BriefOverlap
  <2>1. ~(RunsOn(c, u) /\ RunsOn(d, u))
    BY DEF IInv, OneRunsOn
  <2> QED
    BY <2>1, KeptEnds
<1> QED
  BY <1>1, Invariance, PTL

(* SendMessage: an acknowledged message is stored until somebody takes it. *)
THEOREM NothingLost == Spec => []SentNotLost
<1>1. IInv => SentNotLost
  BY DEF IInv, StoredInv, SentNotLost
<1> QED
  BY <1>1, Invariance, PTL

(* The :rc and :fr fields report the receipts of a queued message.         *)
THEOREM Counting == Spec => []ReceiptsCounted
<1>1. IInv => ReceiptsCounted
  BY DEF IInv
<1> QED
  BY <1>1, Invariance, PTL

(* No pipeline writes into a queue hash that is not there.                 *)
THEOREM QueueSurvives == Spec => []QueueStays
<1>1. IInv => QueueStays
  BY DEF IInv
<1> QED
  BY <1>1, Invariance, PTL

(* The step of GoneStaysGone. *)
Stays ==
  \A u \in Uids :
    hist[u].st \in {"sent", "failed"} /\ zset[u] = Nil => zset'[u] = Nil

LEMMA GoneStays == IInv /\ [Next]_vars => Stays
<1> SUFFICES ASSUME IInv, [Next]_vars, NEW u \in Uids,
                    hist[u].st \in {"sent", "failed"}, zset[u] = Nil
             PROVE  zset'[u] = Nil
  BY DEF Stays
<1>0. zset \in [Uids -> Int \cup {Nil}]
  BY DEF IInv, TypeOK, StoreTypeOK
<1>1. CASE zset' = zset
  BY <1>1
<1>2. ASSUME NEW c \in Clients, SendMessageZAdd(c)
      PROVE  zset'[u] = Nil
  <2>1. hist[call[c].uid].st \in {"unsent", "sending"}
    BY <1>2 DEF IInv, SenderInv, PlaceOK, SendMessageZAdd, At
  <2> QED
    BY <1>0, <1>2, <2>1 DEF SendMessageZAdd
<1>3. ASSUME NEW c \in Clients, ReceiveMessageEval(c) \/ PopMessageEval(c)
      PROVE  zset'[u] = Nil
  <2>1. PICK v \in Uids : zset[v] # Nil /\ \A w \in Uids \ {v} : zset'[w] = zset[w]
    BY <1>3, HandingOut DEF IsNext, Visible
  <2> QED
    BY <2>1
<1>4. ASSUME NEW c \in Clients, ChangeMessageVisibilityEval(c)
      PROVE  zset'[u] = Nil
  BY <1>0, <1>4 DEF ChangeMessageVisibilityEval, HideScript
<1>5. ASSUME NEW c \in Clients, DeleteMessageZRem(c) \/ DeleteQueueDel(c)
      PROVE  zset'[u] = Nil
  BY <1>0, <1>5 DEF DeleteMessageZRem, DeleteQueueDel, NoField
<1> QED
  BY <1>1, <1>2, <1>3, <1>4, <1>5, ZsetFrame

LEMMA StaysIsGone == GoneStaysGone <=> [][Stays]_vars
  BY DEF GoneStaysGone, Stays

(* A late script or command does not queue a message again once it left    *)
(* the queue and its SendMessage ended.                                    *)
THEOREM NoResurrection == Spec => GoneStaysGone
<1>1. IInv /\ [Next]_vars => [Stays]_vars
  BY GoneStays
<1> QED
  BY <1>1, StaysIsGone, Invariance, PTL DEF Spec

=============================================================================
