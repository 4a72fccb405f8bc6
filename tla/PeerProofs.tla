------------------------------ MODULE PeerProofs ------------------------------
(***************************************************************************)
(* The Node.js program beside any Go clients: the inductive invariant of   *)
(* the library survives its steps, and the queue keeps its promise to all. *)
(***************************************************************************)
EXTENDS NodePeer, RsmqPromise, SequenceTheorems

-----------------------------------------------------------------------------
(* Sequences.                                                              *)

LEMMA TakenFirst ==
  ASSUME NEW s \in Seq(Message), s # <<>>
  PROVE  /\ Head(s) \in Message
         /\ 1 \in DOMAIN s /\ Head(s) = s[1]
         /\ Tail(s) \in Seq(Message)
         /\ \A n \in DOMAIN Tail(s) : n + 1 \in DOMAIN s /\ Tail(s)[n] = s[n + 1]
<1>1. Len(s) \in Nat \ {0} /\ DOMAIN s = 1..Len(s)
  BY EmptySeq, LenProperties
<1>2. /\ Head(s) \in Message /\ Tail(s) \in Seq(Message)
      /\ Len(Tail(s)) = Len(s) - 1
      /\ \A i \in 1..Len(Tail(s)) : Tail(s)[i] = s[i + 1]
  BY HeadTailProperties
<1>3. DOMAIN Tail(s) = 1..(Len(s) - 1)
  BY <1>2, LenProperties
<1>4. Head(s) = s[1]
  OBVIOUS
<1> QED
  BY <1>1, <1>2, <1>3, <1>4

LEMMA AddedLast ==
  ASSUME NEW s \in Seq(Message), NEW m \in Message
  PROVE  /\ Append(s, m) \in Seq(Message)
         /\ \A n \in DOMAIN Append(s, m) :
              \/ n \in DOMAIN s /\ Append(s, m)[n] = s[n]
              \/ n = Len(s) + 1 /\ Append(s, m)[n] = m
<1>1. /\ Append(s, m) \in Seq(Message)
      /\ Len(Append(s, m)) = Len(s) + 1
      /\ \A i \in 1..Len(s) : Append(s, m)[i] = s[i]
      /\ Append(s, m)[Len(s) + 1] = m
  BY AppendProperties
<1>2. Len(s) \in Nat /\ DOMAIN s = 1..Len(s) /\ DOMAIN Append(s, m) = 1..(Len(s) + 1)
  BY <1>1, LenProperties
<1> QED
  BY <1>1, <1>2

-----------------------------------------------------------------------------
(* Go clients under the program.                                           *)

(* A client that sends u after a step was sending it before, or u was not  *)
(* sent by anyone.                                                         *)
LEMMA SendersStay ==
  ASSUME IInv, [Next]_vars, NEW d \in Clients, NEW u \in Uids,
         call'[d].op = "SendMessage", call'[d].uid = u, hist[u].st # "unsent"
  PROVE  call[d].op = "SendMessage" /\ call[d].uid = u
<1>0. call \in [Clients -> CallType]
  BY DEF IInv, TypeOK
<1>1. CASE UNCHANGED vars \/ Tick
  BY <1>1 DEF vars, Tick
<1>2. ASSUME NEW c \in Clients, NEW k, call' = [call EXCEPT ![c] = k],
             k.op = "SendMessage" => \/ k.uid # u
                                     \/ k.op = call[c].op /\ k.uid = call[c].uid
      PROVE  call[d].op = "SendMessage" /\ call[d].uid = u
  BY <1>0, <1>2
<1>3. ASSUME NEW c \in Clients,
             \/ StartCreateQueue(c) \/ StartPopMessage(c) \/ StartDeleteQueue(c)
             \/ StartReceiveMessage(c) \/ StartChangeMessageVisibility(c)
             \/ StartDeleteMessage(c) \/ StartSetQueueAttributes(c)
      PROVE  call[d].op = "SendMessage" /\ call[d].uid = u
  <2>1. CASE StartCreateQueue(c)
    BY <1>2, <2>1 DEF StartCreateQueue, Start, Idle
  <2>2. CASE StartPopMessage(c)
    BY <1>2, <2>2 DEF StartPopMessage, Start, Idle
  <2>3. CASE StartDeleteQueue(c)
    BY <1>2, <2>3 DEF StartDeleteQueue, Start, Idle
  <2>4. CASE StartReceiveMessage(c)
    BY <1>2, <2>4 DEF StartReceiveMessage, Start, Idle
  <2>5. CASE StartChangeMessageVisibility(c)
    BY <1>2, <2>5 DEF StartChangeMessageVisibility, Start, Idle
  <2>6. CASE StartDeleteMessage(c)
    BY <1>2, <2>6 DEF StartDeleteMessage, Start, Idle
  <2>7. CASE StartSetQueueAttributes(c)
    BY <1>2, <2>7 DEF StartSetQueueAttributes, Start, Idle
  <2> QED
    BY <1>3, <2>1, <2>2, <2>3, <2>4, <2>5, <2>6, <2>7
<1>4. ASSUME NEW c \in Clients, StartSendMessage(c)
      PROVE  call[d].op = "SendMessage" /\ call[d].uid = u
  BY <1>2, <1>4 DEF StartSendMessage, NewUID, Start, Idle
<1>5. ASSUME NEW c \in Clients,
             \/ call' = [call EXCEPT ![c] = Idle]
             \/ \E pc : call' = [call EXCEPT ![c].pc = pc]
             \/ call' = [call EXCEPT ![c] = [@ EXCEPT !.pc = "zadd", !.q = attrs]]
             \/ call' = [call EXCEPT ![c] = [@ EXCEPT !.pc = "evalsha", !.q = attrs]]
      PROVE  call[d].op = "SendMessage" /\ call[d].uid = u
  <2>1. CASE call' = [call EXCEPT ![c] = Idle]
    BY <1>2, <2>1 DEF Idle
  <2>2. ASSUME NEW pc, call' = [call EXCEPT ![c].pc = pc]
        PROVE  call[d].op = "SendMessage" /\ call[d].uid = u
    BY <1>0, <2>2 DEF CallType
  <2>3. ASSUME NEW pc, call' = [call EXCEPT ![c] = [@ EXCEPT !.pc = pc, !.q = attrs]]
        PROVE  call[d].op = "SendMessage" /\ call[d].uid = u
    BY <1>0, <2>3 DEF CallType
  <2> QED
    BY <1>5, <2>1, <2>2, <2>3
<1>6. ASSUME NEW c \in Clients,
             GetQueueFails(c) \/ GetQueueSucceeds(c) \/ NothingVisible(c) \/ ResendPipeline(c) \/ Fail(c)
      PROVE  call[d].op = "SendMessage" /\ call[d].uid = u
  <2>1. CASE GetQueueSucceeds(c)
    BY <1>5, <2>1 DEF GetQueueSucceeds
  <2>2. CASE ResendPipeline(c)
    BY <1>5, <2>2 DEF ResendPipeline, Resend
  <2> QED
    BY <1>5, <1>6, <2>1, <2>2 DEF GetQueueFails, NothingVisible, Fail, Return
<1>7. ASSUME NEW c \in Clients,
             \/ CreateQueueHMSet(c) \/ CreateQueueSAdd(c) \/ SendMessageZAdd(c)
             \/ SendMessageHSet(c) \/ SendMessageHIncrBy(c) \/ ReceiveMessageEval(c)
             \/ PopMessageEval(c) \/ ChangeMessageVisibilityEval(c) \/ SetQueueAttributesHSet(c)
      PROVE  call[d].op = "SendMessage" /\ call[d].uid = u
  BY <1>5, <1>7
  DEF CreateQueueHMSet, CreateQueueSAdd, SendMessageZAdd, SendMessageHSet, SendMessageHIncrBy,
      ReceiveMessageEval, PopMessageEval, ChangeMessageVisibilityEval, SetQueueAttributesHSet,
      Goto, Return, Resend
<1>8. ASSUME NEW c \in Clients,
             \/ DeleteMessageZRem(c) \/ DeleteMessageHDel(c)
             \/ DeleteQueueDel(c) \/ DeleteQueueSRem(c)
      PROVE  call[d].op = "SendMessage" /\ call[d].uid = u
  BY <1>5, <1>8
  DEF DeleteMessageZRem, DeleteMessageHDel, DeleteQueueDel, DeleteQueueSRem, Goto, Return, Resend
<1> QED
  BY <1>1, <1>2, <1>3, <1>4, <1>6, <1>7, <1>8, StepCases DEF Quiet

(* What the program stored, no Go client takes apart.                      *)
LEMMA StoredStays ==
  ASSUME IInv, [Next]_vars, NEW u \in Uids, Stored(u)
  PROVE  Stored(u)'
<1>0. /\ hist \in [Uids -> HistType] /\ zset \in [Uids -> Int \cup {Nil}]
      /\ body \in [Uids -> Nat \cup {Nil}]
      /\ hist[u].st = "sending" /\ (zset[u] # Nil => body[u] = hist[u].len)
      /\ \A c \in Clients : call[c].op = "SendMessage" => call[c].uid # u
  BY DEF IInv, TypeOK, StoreTypeOK, Stored
<1>1. \A c \in Clients : call'[c].op = "SendMessage" => call'[c].uid # u
  BY <1>0, SendersStay
<1> DEFINE Same == /\ hist'[u].st = hist[u].st /\ hist'[u].len = hist[u].len
                   /\ zset'[u] # Nil => zset[u] # Nil /\ body'[u] = body[u]
<1>2. UNCHANGED vars \/ Tick => Same
  BY DEF vars, store, Tick
<1>3. (\E c \in Clients : Quiet(c)) => Same
  BY QuietFrame
<1>4. ASSUME NEW c \in Clients, SendMessageZAdd(c) \/ SendMessageHSet(c) \/ SendMessageHIncrBy(c)
      PROVE  Same
  <2>1. call[c].uid # u
    BY <1>0, <1>4 DEF SendMessageZAdd, SendMessageHSet, SendMessageHIncrBy, At
  <2> QED
    BY <1>0, <1>4, <2>1 DEF SendMessageZAdd, SendMessageHSet, SendMessageHIncrBy
<1>5. ASSUME NEW c \in Clients, ReceiveMessageEval(c) \/ PopMessageEval(c)
      PROVE  Same
  <2>1. \E v \in Uids : \E t, f : IsNext(v, t) /\ hist' = Handed(v, t, f)
    BY <1>5 DEF ReceiveMessageEval, PopMessageEval, ReceiveScript, PopScript
  <2>2. hist'[u].st = hist[u].st /\ hist'[u].len = hist[u].len
    BY <1>0, <2>1 DEF Handed, HistType
  <2>3. CASE ReceiveMessageEval(c)
    BY <1>0, <2>2, <2>3 DEF ReceiveMessageEval, ReceiveScript, IsNext, Visible
  <2>4. CASE PopMessageEval(c)
    BY <1>0, <2>2, <2>4 DEF PopMessageEval, PopScript, IsNext, Visible
  <2> QED
    BY <1>5, <2>3, <2>4
<1>6. ASSUME NEW c \in Clients, ChangeMessageVisibilityEval(c)
      PROVE  Same
  BY <1>0, <1>6 DEF ChangeMessageVisibilityEval, HideScript
<1>7. ASSUME NEW c \in Clients, DeleteMessageZRem(c) \/ DeleteQueueDel(c)
      PROVE  Same
  BY <1>0, <1>7 DEF DeleteMessageZRem, DeleteQueueDel, NoField, HistType
<1>8. ASSUME NEW c \in Clients, Fail(c)
      PROVE  Same
  BY <1>0, <1>8 DEF Fail, store
<1>9. ASSUME NEW c \in Clients,
             \/ CreateQueueHMSet(c) \/ CreateQueueSAdd(c) \/ DeleteMessageHDel(c)
             \/ DeleteQueueSRem(c) \/ SetQueueAttributesHSet(c)
      PROVE  Same
  BY <1>9
  DEF CreateQueueHMSet, CreateQueueSAdd, DeleteMessageHDel, DeleteQueueSRem, SetQueueAttributesHSet
<1>10. Same
  BY <1>2, <1>3, <1>4, <1>5, <1>6, <1>7, <1>8, <1>9, StepCases
<1> QED
  BY <1>0, <1>1, <1>10 DEF Stored

-----------------------------------------------------------------------------
(* The program's steps keep the library's invariant.                       *)

LEMMA AttributesKeepIInv ==
  ASSUME IInv,
         UNCHANGED <<zset, body, rc, fr, totalrecv, totalsent, now, call, calls, faults, held, hist>>,
         listed' \in BOOLEAN, attrs' \in Attrs \cup {Nil}, attrs # Nil => attrs' # Nil
  PROVE  IInv'
<1>1. StoreTypeOK'
  <2>1. listed' \in BOOLEAN
    OBVIOUS
  <2> QED
    BY <2>1 DEF IInv, TypeOK, StoreTypeOK
<1>2. TypeOK'
  BY <1>1 DEF IInv, TypeOK
<1>3. CallInv' /\ SenderInv'
  BY DEF IInv, CallInv, SenderInv
<1>4. StoredInv' /\ ReceiptsCounted'
  BY DEF IInv, StoredInv, ReceiptsCounted
<1>5. LeaseInv' /\ OneRunsOn'
  BY DEF IInv, LeaseInv, OneRunsOn, RunsOn, Ms
<1>6. QueueStays'
  BY DEF IInv, QueueStays
<1> QED
  BY <1>2, <1>3, <1>4, <1>5, <1>6 DEF IInv

(* A message that nobody sent yet is stored whole in one step.             *)
LEMMA EnqueueKeepsIInv ==
  ASSUME IInv, NEW u \in Uids, NewUID(u),
         NEW s \in Int, NEW n \in Nat, NEW t \in Nat,
         zset' = [zset EXCEPT ![u] = s],
         body' = [body EXCEPT ![u] = n],
         hist' = [hist EXCEPT ![u] = [@ EXCEPT !.st = "sending", !.len = n, !.at = t]],
         totalsent' = totalsent + 1,
         UNCHANGED <<listed, attrs, rc, fr, totalrecv, now, call, calls, faults, held>>
  PROVE  IInv' /\ Stored(u)'
<1>0. /\ TypeOK /\ CallInv /\ SenderInv /\ StoredInv /\ LeaseInv /\ OneRunsOn
      /\ ReceiptsCounted /\ QueueStays
      /\ hist \in [Uids -> HistType] /\ zset \in [Uids -> Int \cup {Nil}]
      /\ body \in [Uids -> Nat \cup {Nil}]
  BY DEF IInv, TypeOK, StoreTypeOK
<1>1. /\ hist'[u] \in HistType
      /\ hist'[u].st = "sending" /\ hist'[u].len = n
      /\ hist'[u].got = hist[u].got /\ hist'[u].first = hist[u].first
      /\ hist'[u].resent = hist[u].resent /\ hist'[u].fate = hist[u].fate
      /\ \A v \in Uids \ {u} : hist'[v] = hist[v]
      /\ hist' \in [Uids -> HistType]
  <2>1. \A x \in HistType :
          /\ [x EXCEPT !.st = "sending", !.len = n, !.at = t] \in HistType
          /\ LET y == [x EXCEPT !.st = "sending", !.len = n, !.at = t]
             IN /\ y.st = "sending" /\ y.len = n /\ y.got = x.got /\ y.first = x.first
                /\ y.resent = x.resent /\ y.fate = x.fate
    BY DEF HistType, Stages
  <2> QED
    BY <1>0, <2>1
<1>2. /\ zset'[u] = s /\ s # Nil /\ body'[u] = n
      /\ \A v \in Uids \ {u} : zset'[v] = zset[v] /\ body'[v] = body[v]
  BY <1>0, StoreAssumption
<1>3. /\ hist[u].st = "unsent"
      /\ \A c \in Clients : call[c].uid # u
      /\ \A c \in Clients : held[c] # Nil => held[c].uid # u
  BY <1>0 DEF NewUID, SenderInv
<1>4. TypeOK'
  BY <1>0, <1>1 DEF TypeOK, StoreTypeOK
<1>5. CallInv' /\ QueueStays'
  BY <1>0 DEF CallInv, QueueStays
<1>6. SenderInv'
  <2>1. ASSUME NEW c \in Clients
        PROVE  PlaceOK(call[c], hist')
    <3>1. PlaceOK(call[c], hist) /\ CallOK(call[c], now) /\ call[c].uid # u
      BY <1>0, <1>3 DEF SenderInv, CallInv
    <3> QED
      BY <1>1, <3>1 DEF PlaceOK, CallOK
  <2>2. \A c \in Clients : held[c] # Nil => held[c].uid \in Uids
    BY <1>0 DEF TypeOK, HeldType
  <2> QED
    BY <1>0, <1>1, <1>3, <2>1, <2>2 DEF SenderInv
<1>7. StoredInv'
  <2>1. \A c \in Clients : call[c].pc \in {"hincrby", "hdel"} => call[c].uid \in Uids \ {u}
    BY <1>0, <1>3 DEF TypeOK, CallInv, CallOK, CallType, Methods, Settings
  <2> QED
    BY <1>0, <1>1, <1>2, <1>3, <2>1 DEF StoredInv
<1>8. ReceiptsCounted'
  <2>1. rc[u] = Nil /\ hist[u].got = 0
    BY <1>0, <1>3 DEF StoredInv
  <2> QED
    BY <1>0, <1>1, <1>2, <2>1 DEF ReceiptsCounted
<1>9. LeaseInv' /\ OneRunsOn'
  <2>1. \A c \in Clients, v \in Uids : RunsOn(c, v)' => RunsOn(c, v) /\ v # u
    BY <1>3 DEF RunsOn, Ms
  <2> QED
    BY <1>0, <1>2, <2>1 DEF LeaseInv, OneRunsOn, RunsOn, Ms
<1>10. Stored(u)'
  BY <1>1, <1>2, <1>3 DEF Stored
<1> QED
  BY <1>4, <1>5, <1>6, <1>7, <1>8, <1>9, <1>10 DEF IInv

(* Sends of stored messages end.                                           *)
LEMMA ClosingKeepsIInv ==
  ASSUME IInv, UNCHANGED <<store, now, call, calls, faults, held>>,
         NEW S \in SUBSET Uids, \A u \in S : Stored(u),
         NEW e \in {"sent", "failed"},
         hist' = [u \in Uids |-> IF u \in S THEN [hist[u] EXCEPT !.st = e] ELSE hist[u]]
  PROVE  IInv'
<1>0. /\ TypeOK /\ CallInv /\ SenderInv /\ StoredInv /\ LeaseInv /\ OneRunsOn
      /\ ReceiptsCounted /\ QueueStays
      /\ hist \in [Uids -> HistType]
  BY DEF IInv, TypeOK
<1>1. UNCHANGED <<listed, attrs, zset, body, rc, fr, totalrecv, totalsent>>
  BY DEF store
<1>2. /\ \A u \in S : /\ hist'[u].st = e /\ hist[u].st = "sending"
                      /\ zset[u] # Nil => body[u] = hist[u].len
      /\ \A c \in Clients : call[c].op = "SendMessage" => call[c].uid \notin S
      /\ \A u \in Uids \ S : hist'[u] = hist[u]
      /\ \A u \in Uids : /\ hist'[u].len = hist[u].len /\ hist'[u].got = hist[u].got
                         /\ hist'[u].first = hist[u].first /\ hist'[u].fate = hist[u].fate
                         /\ hist'[u].resent = hist[u].resent
      /\ hist' \in [Uids -> HistType]
  BY <1>0 DEF Stored, HistType, Stages
<1>3. TypeOK'
  BY <1>0, <1>1, <1>2 DEF TypeOK, StoreTypeOK
<1>4. CallInv' /\ QueueStays'
  BY <1>0, <1>1 DEF CallInv, QueueStays
<1>5. SenderInv'
  <2>1. ASSUME NEW c \in Clients
        PROVE  PlaceOK(call[c], hist')
    <3>1. PlaceOK(call[c], hist) /\ CallOK(call[c], now)
      BY <1>0 DEF SenderInv, CallInv
    <3>2. \A u \in Uids : hist[u].st # "unsent" => hist'[u].st # "unsent"
      BY <1>2
    <3>3. call[c].op = "SendMessage" => hist'[call[c].uid] = hist[call[c].uid]
      <4>1. call[c].op = "SendMessage" => call[c].uid \in Uids \ S
        BY <1>2, <3>1 DEF CallOK
      <4> QED
        BY <1>2, <4>1
    <3> QED
      BY <3>1, <3>2, <3>3 DEF PlaceOK, CallOK
  <2>2. \A c \in Clients : held[c] # Nil => held[c].uid \in Uids
    BY <1>0 DEF TypeOK, HeldType
  <2> QED
    BY <1>0, <1>2, <2>1, <2>2 DEF SenderInv
<1>6. StoredInv'
  <2>1. \A c \in Clients : call[c].pc \in {"hincrby", "hdel"} => call[c].uid \in Uids
    BY <1>0 DEF TypeOK, CallInv, CallOK, CallType, Methods, Settings
  <2>2. \A u \in Uids :
          /\ hist'[u].st = "unsent" <=> hist[u].st = "unsent"
          /\ hist'[u].st = "sent" /\ zset[u] # Nil => body[u] = hist[u].len
    <3> SUFFICES ASSUME NEW u \in Uids
                 PROVE  /\ hist'[u].st = "unsent" <=> hist[u].st = "unsent"
                        /\ hist'[u].st = "sent" /\ zset[u] # Nil => body[u] = hist[u].len
      OBVIOUS
    <3>1. CASE u \in S
      BY <1>2, <3>1
    <3>2. CASE u \notin S
      BY <1>0, <1>2, <3>2 DEF StoredInv
    <3> QED
      BY <3>1, <3>2
  <2> QED
    BY <1>0, <1>1, <1>2, <2>1, <2>2 DEF StoredInv
<1>7. ReceiptsCounted'
  BY <1>0, <1>1, <1>2 DEF ReceiptsCounted
<1>8. LeaseInv' /\ OneRunsOn'
  BY <1>0, <1>1 DEF LeaseInv, OneRunsOn, RunsOn, Ms
<1> QED
  BY <1>3, <1>4, <1>5, <1>6, <1>7, <1>8 DEF IInv

(* The package receives a message as the library does, with the timeout    *)
(* the queue has; it takes the message also when the text is not there.    *)
LEMMA ReceiveKeepsIInv ==
  ASSUME IInv, NEW c \in Clients, NEW k \in CallType,
         k.q \in Attrs, k.vt = Nil, k.t <= now,
         NEW u \in Uids,
         ReceiveScript(u, TimeSentUnix(k), TimeVisibilityExpiresUnix(k, Nil)),
         hist' = Handed(u, TimeSentUnix(k), hist[u].fate),
         held' = [held EXCEPT ![c] = Unmarshal(k, u)],
         UNCHANGED <<now, call, calls, faults>>
  PROVE  IInv' /\ \A v \in Uids : Stored(v) => Stored(v)'
<1>0. /\ TypeOK /\ CallInv /\ SenderInv /\ StoredInv /\ LeaseInv /\ OneRunsOn
      /\ ReceiptsCounted /\ QueueStays /\ StoreTypeOK
      /\ hist \in [Uids -> HistType] /\ zset \in [Uids -> Int \cup {Nil}]
      /\ held \in [Clients -> HeldType \cup {Nil}]
      /\ now \in Nat /\ k.t \in Nat
  BY DEF IInv, TypeOK, StoreTypeOK, CallType
<1> DEFINE s == TimeVisibilityExpiresUnix(k, Nil)
           t == TimeSentUnix(k)
           h == Unmarshal(k, u)
<1>1. /\ s \in Int /\ t \in Int /\ FirstReceived(u, t) \in Int
      /\ h \in HeldType /\ h.uid = u
      /\ s = Ms(h.deadline)
  BY <1>0, TimesAreInts, UnmarshalType
  DEF ReceiptsCounted, TimeVisibilityExpiresUnix, Unmarshal
<1>2. /\ zset[u] # Nil /\ zset'[u] = s /\ s # Nil
      /\ UNCHANGED <<listed, attrs, body, totalsent>> /\ totalrecv' = totalrecv + 1
      /\ rc'[u] = NextRC(u) /\ fr'[u] = FirstReceived(u, t)
      /\ \A v \in Uids \ {u} : zset'[v] = zset[v] /\ rc'[v] = rc[v] /\ fr'[v] = fr[v]
  BY <1>0, <1>1, StoreAssumption DEF ReceiveScript, IsNext, Visible, StoreTypeOK
<1>3. /\ hist'[u].st = hist[u].st /\ hist'[u].len = hist[u].len
      /\ hist'[u].resent = hist[u].resent /\ hist'[u].fate = hist[u].fate
      /\ hist'[u].got = hist[u].got + 1 /\ hist[u].got \in Nat
      /\ hist'[u].first = IF hist[u].got = 0 THEN t ELSE hist[u].first
      /\ \A v \in Uids \ {u} : hist'[v] = hist[v]
      /\ hist' \in [Uids -> HistType]
  <2> DEFINE g == [hist[u] EXCEPT !.got = hist[u].got + 1,
                                  !.first = IF hist[u].got = 0 THEN t ELSE hist[u].first,
                                  !.fate = hist[u].fate]
  <2>1. hist' = [hist EXCEPT ![u] = g]
    BY DEF Handed
  <2>2. hist[u] \in HistType
    BY <1>0
  <2>3. g \in HistType
    <3>1. /\ hist[u].got + 1 \in Nat /\ hist[u].fate \in Fates
          /\ (IF hist[u].got = 0 THEN t ELSE hist[u].first) \in OptInt
      BY <1>1, <2>2 DEF HistType, OptInt
    <3>2. \A x \in HistType, n \in Nat, f \in Fates, o \in OptInt :
            [x EXCEPT !.got = n, !.first = o, !.fate = f] \in HistType
      BY DEF HistType
    <3> QED
      BY <2>2, <3>1, <3>2
  <2>4. /\ g.st = hist[u].st /\ g.len = hist[u].len /\ g.resent = hist[u].resent
        /\ g.fate = hist[u].fate /\ g.got = hist[u].got + 1 /\ hist[u].got \in Nat
        /\ g.first = IF hist[u].got = 0 THEN t ELSE hist[u].first
    BY <2>2 DEF HistType
  <2> HIDE DEF g
  <2> QED
    BY <1>0, <2>1, <2>3, <2>4
<1>4. NextRC(u) \in Nat
  BY <1>0, StoreAssumption DEF NextRC, StoreTypeOK
<1>5. TypeOK'
  <2>1. StoreTypeOK'
    BY <1>0, <1>1, <1>4 DEF ReceiveScript, StoreTypeOK
  <2>2. held' \in [Clients -> HeldType \cup {Nil}]
    BY <1>0, <1>1
  <2> QED
    BY <1>0, <1>3, <2>1, <2>2 DEF TypeOK
<1>6. CallInv' /\ QueueStays'
  BY <1>0, <1>2 DEF CallInv, QueueStays
<1>7. hist[u].st # "unsent" /\ \A v \in Uids : hist'[v].st = hist[v].st /\ hist'[v].len = hist[v].len
  BY <1>0, <1>2, <1>3 DEF StoredInv
<1>8. SenderInv'
  <2>1. ASSUME NEW d \in Clients
        PROVE  PlaceOK(call[d], hist')
    <3>1. PlaceOK(call[d], hist) /\ CallOK(call[d], now)
      BY <1>0 DEF SenderInv, CallInv
    <3> QED
      BY <1>7, <3>1 DEF PlaceOK, CallOK
  <2>2. \A d \in Clients : held'[d] # Nil =>
          held'[d].uid \in Uids /\ hist[held'[d].uid].st # "unsent"
    BY <1>0, <1>1, <1>7 DEF TypeOK, HeldType, SenderInv
  <2> QED
    BY <1>0, <1>7, <2>1, <2>2 DEF SenderInv
<1>9. StoredInv'
  <2>1. \A d \in Clients : call[d].pc \in {"hincrby", "hdel"} => call[d].uid \in Uids
    BY <1>0 DEF TypeOK, CallInv, CallOK, CallType, Methods, Settings
  <2>2. \A v \in Uids : /\ zset'[v] # Nil <=> zset[v] # Nil
                        /\ hist'[v].resent = hist[v].resent /\ hist'[v].fate = hist[v].fate
    BY <1>2, <1>3
  <2>3. ASSUME NEW v \in Uids, hist[v].st = "unsent"
        PROVE  /\ zset'[v] = Nil /\ rc'[v] = Nil /\ fr'[v] = Nil
               /\ hist'[v].got = 0 /\ ~hist'[v].resent
    <3>1. v # u
      BY <1>7, <2>3
    <3> QED
      BY <1>0, <1>2, <1>3, <2>3, <3>1 DEF StoredInv
  <2>4. \A v \in Uids : /\ hist[v].st # "unsent" => zset'[v] # Nil \/ hist'[v].fate # "none"
                        /\ hist[v].st = "sent" /\ zset'[v] # Nil => body[v] = hist[v].len
    BY <1>0, <2>2 DEF StoredInv
  <2>5. \A d \in Clients :
          /\ call[d].pc = "hincrby" /\ zset'[call[d].uid] # Nil => body[call[d].uid] = call[d].len
          /\ call[d].pc = "hdel" => zset'[call[d].uid] = Nil \/ hist'[call[d].uid].resent
    BY <1>0, <2>1, <2>2 DEF StoredInv
  <2> QED
    BY <1>2, <1>7, <2>3, <2>4, <2>5 DEF StoredInv
<1>10. ReceiptsCounted'
  <2>1. rc'[u] # Nil /\ fr'[u] # Nil
    BY <1>1, <1>2, <1>4, StoreAssumption
  <2>2. ~hist[u].resent => rc'[u] = hist'[u].got /\ fr'[u] = hist'[u].first
    BY <1>0, <1>2, <1>3, StoreAssumption DEF NextRC, FirstReceived, StoreTypeOK, ReceiptsCounted
  <2> QED
    BY <1>0, <1>2, <1>3, <2>1, <2>2 DEF ReceiptsCounted
<1>11. ASSUME NEW d \in Clients, RunsOn(d, u)
       PROVE  FALSE
  <2>1. IsNext(u, Ms(k.t))
    BY DEF ReceiveScript, TimeSentUnix
  <2> QED
    BY <1>0, <1>11, <2>1, VisibleIsUnleased
<1>12. \A d \in Clients, v \in Uids :
         RunsOn(d, v)' => \/ held'[d] = held[d] /\ RunsOn(d, v)
                          \/ d = c /\ held'[d] = h /\ v = u
  BY <1>0, <1>1 DEF RunsOn, Ms
<1>13. LeaseInv'
  <2> SUFFICES ASSUME NEW d \in Clients, NEW v \in Uids,
                      RunsOn(d, v)', zset'[v] # Nil
               PROVE  Ms(held'[d].deadline) <= zset'[v]
    BY DEF LeaseInv, Ms
  <2>1. CASE held'[d] = held[d] /\ RunsOn(d, v)
    <3>1. v # u
      BY <1>11, <2>1
    <3> QED
      BY <1>0, <1>2, <2>1, <3>1 DEF LeaseInv
  <2>2. CASE held'[d] = h /\ v = u
    BY <1>1, <1>2, <2>2
  <2> QED
    BY <1>12, <2>1, <2>2
<1>14. OneRunsOn'
  <2> SUFFICES ASSUME NEW d \in Clients, NEW e \in Clients, NEW v \in Uids, d # e,
                      RunsOn(d, v)', RunsOn(e, v)'
               PROVE  FALSE
    BY DEF OneRunsOn
  <2>1. CASE held'[d] = held[d] /\ held'[e] = held[e] /\ RunsOn(d, v) /\ RunsOn(e, v)
    BY <1>0, <2>1 DEF OneRunsOn
  <2>2. CASE v = u
    BY <1>11, <1>12, <2>2
  <2> QED
    BY <1>12, <2>1, <2>2
<1>15. \A v \in Uids : Stored(v) => Stored(v)'
  BY <1>2, <1>7 DEF Stored
<1> QED
  BY <1>5, <1>6, <1>8, <1>9, <1>10, <1>13, <1>14, <1>15 DEF IInv

-----------------------------------------------------------------------------
(* What is in flight.                                                      *)

(* What a message's position in its call says about it.                    *)
LEMMA PlaceInCall ==
  ASSUME NEW m \in Message, m.i \in DOMAIN Requests[m.of]
  PROVE  /\ Command(m) \in {"time", "stats", "hsetnx", "sadd"} =>
              m.of \notin {"sendMessage", "receiveMessage"}
         /\ Command(m) = "lookup" => m.of \in {"sendMessage", "receiveMessage"} /\ m.i = 1
         /\ Command(m) = "enqueue" => m.of = "sendMessage" /\ m.i = 2
         /\ Command(m) = "evalsha" => m.of = "receiveMessage" /\ m.i = 2
         /\ m.i # Len(Requests[m.of]) => m.i + 1 \in DOMAIN Requests[m.of]
         /\ m.of \in {"sendMessage", "receiveMessage"} =>
              m.i \in {1, 2} /\ Len(Requests[m.of]) = 2
<1>1. m.of \in {"createQueue", "getQueueAttributes", "sendMessage", "receiveMessage"}
  <2>1. DOMAIN Requests = {"createQueue", "getQueueAttributes", "sendMessage", "receiveMessage"}
    BY DEF Requests
  <2> QED
    BY <2>1 DEF Message, Calls
<1>2. CASE m.of = "createQueue"
  BY <1>2 DEF Requests, Command
<1>3. CASE m.of = "getQueueAttributes"
  BY <1>3 DEF Requests, Command
<1>4. CASE m.of = "sendMessage"
  BY <1>4 DEF Requests, Command
<1>5. CASE m.of = "receiveMessage"
  BY <1>5 DEF Requests, Command
<1> QED
  BY <1>1, <1>2, <1>3, <1>4, <1>5

(* Time passing and what Go clients do leave it as it is.                  *)
LEMMA FlightStays ==
  ASSUME FlightInv, UNCHANGED peervars,
         now \in Nat, now' \in Nat, now <= now',
         \A u \in Uids : Stored(u) => Stored(u)'
  PROVE  FlightInv'
<1>1. \A m \in Message : m.k.t \in Nat
  BY DEF Message, CallType
<1>2. \A m \in Message : RequestOK(m) => RequestOK(m)'
  BY <1>1 DEF RequestOK
<1>3. \A m \in Message : ReplyOK(m) => ReplyOK(m)'
  BY <1>1 DEF ReplyOK
<1>4. wire' = wire /\ replies' = replies
  BY DEF peervars
<1>5. /\ \A n \in DOMAIN wire : wire[n] \in Message
      /\ \A n \in DOMAIN replies : replies[n] \in Message
  BY ElementOfSeq, LenProperties DEF FlightInv
<1>6. \A u : Stored(u) => Stored(u)'
  BY DEF Stored
<1> QED
  BY <1>2, <1>3, <1>4, <1>5, <1>6 DEF FlightInv

(* Redis takes the first request and answers it.                           *)
LEMMA ServedFlight ==
  ASSUME FlightInv, wire # <<>>, wire' = Tail(wire),
         NEW r \in Message, replies' = Append(replies, r), r.of = Head(wire).of,
         ReplyOK(r), r.of = "sendMessage" /\ r.i = 2 => Stored(r.k.uid)',
         now' = now,
         r.of # "sendMessage" => \A u \in Uids : Stored(u) => Stored(u)'
  PROVE  FlightInv'
<1>1. /\ wire \in Seq(Message) /\ replies \in Seq(Message)
      /\ Len(wire) \in Nat /\ Len(replies) \in Nat
      /\ DOMAIN wire = 1..Len(wire) /\ DOMAIN replies = 1..Len(replies)
  BY LenProperties DEF FlightInv
<1>2. /\ 1 \in DOMAIN wire /\ Head(wire) = wire[1]
      /\ wire' \in Seq(Message)
      /\ \A n \in DOMAIN wire' : n + 1 \in DOMAIN wire /\ wire'[n] = wire[n + 1]
  BY <1>1, TakenFirst
<1>3. /\ replies' \in Seq(Message)
      /\ \A n \in DOMAIN replies' : \/ n \in DOMAIN replies /\ replies'[n] = replies[n]
                                    \/ n = Len(replies) + 1 /\ replies'[n] = r
  BY <1>1, AddedLast
<1>4. \A n \in DOMAIN wire' : n \in Nat
  <2>1. DOMAIN wire' = 1..Len(wire')
    BY <1>2, LenProperties
  <2> QED
    BY <2>1
<1>5. \A m : RequestOK(m) => RequestOK(m)'
  BY DEF RequestOK
<1>6. \A m : ReplyOK(m) => ReplyOK(m)'
  BY DEF ReplyOK
<1>7. \A n \in DOMAIN wire' : RequestOK(wire[n])'
  BY <1>2, <1>5 DEF FlightInv
<1>8. \A n \in DOMAIN replies' : ReplyOK(replies[n])'
  BY <1>3, <1>6 DEF FlightInv
<1>9. \A n \in DOMAIN replies : replies[n].of # r.of
  BY <1>2 DEF FlightInv
<1>10. \A n \in DOMAIN replies' :
         replies'[n].of = "sendMessage" /\ replies'[n].i = 2 => Stored(replies[n].k.uid)'
  <2>1. \A u : Stored(u) /\ r.of # "sendMessage" => Stored(u)'
    BY DEF Stored
  <2> QED
    BY <1>3, <1>9, <2>1 DEF FlightInv
<1>11. \A i, n \in DOMAIN wire' : wire'[i].of = wire'[n].of => i = n
  BY <1>2, <1>4 DEF FlightInv
<1>12. \A i, n \in DOMAIN replies' : replies'[i].of = replies'[n].of => i = n
  BY <1>3, <1>9 DEF FlightInv
<1>13. \A i \in DOMAIN wire', n \in DOMAIN replies' : wire'[i].of # replies'[n].of
  <2>1. \A i \in DOMAIN wire' : wire'[i].of # r.of
    BY <1>2, <1>4 DEF FlightInv
  <2> QED
    BY <1>2, <1>3, <2>1 DEF FlightInv
<1> QED
  BY <1>2, <1>3, <1>7, <1>8, <1>10, <1>11, <1>12, <1>13 DEF FlightInv

(* The package reads a reply, and writes the next request if there is one. *)
LEMMA ReadFlight ==
  ASSUME FlightInv, replies # <<>>, replies' = Tail(replies),
         now' = now,
         \/ wire' = wire
         \/ \E m \in Message : /\ wire' = Append(wire, m)
                              /\ m.of = Head(replies).of
                              /\ RequestOK(m),
         Head(replies).of # "sendMessage" => \A u \in Uids : Stored(u) => Stored(u)'
  PROVE  FlightInv'
<1>1. /\ wire \in Seq(Message) /\ replies \in Seq(Message)
      /\ Len(wire) \in Nat /\ Len(replies) \in Nat
      /\ DOMAIN wire = 1..Len(wire) /\ DOMAIN replies = 1..Len(replies)
  BY LenProperties DEF FlightInv
<1>2. /\ 1 \in DOMAIN replies /\ Head(replies) = replies[1]
      /\ replies' \in Seq(Message)
      /\ \A n \in DOMAIN replies' : n + 1 \in DOMAIN replies /\ replies'[n] = replies[n + 1]
  BY <1>1, TakenFirst
<1>3. PICK m : /\ wire' \in Seq(Message)
               /\ \A n \in DOMAIN wire' :
                    \/ n \in DOMAIN wire /\ wire'[n] = wire[n]
                    \/ /\ n = Len(wire) + 1 /\ wire'[n] = m
                       /\ m.of = Head(replies).of /\ RequestOK(m)
  <2>1. CASE wire' = wire
    BY <1>1, <2>1
  <2>2. ASSUME NEW x \in Message, wire' = Append(wire, x), x.of = Head(replies).of, RequestOK(x)
        PROVE  /\ wire' \in Seq(Message)
               /\ \A n \in DOMAIN wire' : \/ n \in DOMAIN wire /\ wire'[n] = wire[n]
                                          \/ n = Len(wire) + 1 /\ wire'[n] = x
    BY <1>1, <2>2, AddedLast
  <2> QED
    BY <2>1, <2>2
<1>4. \A n \in DOMAIN replies' : n \in Nat
  <2>1. DOMAIN replies' = 1..Len(replies')
    BY <1>2, LenProperties
  <2> QED
    BY <2>1
<1>5. \A x : RequestOK(x) => RequestOK(x)'
  BY DEF RequestOK
<1>6. \A x : ReplyOK(x) => ReplyOK(x)'
  BY DEF ReplyOK
<1>7. \A n \in DOMAIN wire' : RequestOK(wire[n])'
  BY <1>3, <1>5 DEF FlightInv
<1>8. \A n \in DOMAIN replies' : ReplyOK(replies[n])'
  BY <1>2, <1>6 DEF FlightInv
<1>9. \A n \in DOMAIN replies' : replies'[n].of # Head(replies).of
  BY <1>2, <1>4 DEF FlightInv
<1>10. \A n \in DOMAIN replies' :
         replies'[n].of = "sendMessage" /\ replies'[n].i = 2 => Stored(replies[n].k.uid)'
  <2>1. \A u : Stored(u) /\ Head(replies).of # "sendMessage" => Stored(u)'
    BY DEF Stored
  <2> QED
    BY <1>2, <1>9, <2>1 DEF FlightInv
<1>11. \A i, n \in DOMAIN wire' : wire'[i].of = wire'[n].of => i = n
  BY <1>2, <1>3 DEF FlightInv
<1>12. \A i, n \in DOMAIN replies' : replies'[i].of = replies'[n].of => i = n
  BY <1>2, <1>4 DEF FlightInv
<1>13. \A i \in DOMAIN wire', n \in DOMAIN replies' : wire'[i].of # replies'[n].of
  BY <1>2, <1>3, <1>9 DEF FlightInv
<1> QED
  BY <1>2, <1>3, <1>7, <1>8, <1>10, <1>11, <1>12, <1>13 DEF FlightInv

LEMMA NilIsNoUid == Nil \notin Uids
<1>1. Nil \notin Nat
  BY StoreAssumption
<1> QED
  BY <1>1, StoreAssumption

(* What Redis does for a request, spelled out as a reply r to it.          *)
LEMMA Replying ==
  ASSUME FlightInv, wire # <<>>,
         NEW e \in {"none", "refused"}, NEW k \in CallType, Replies(e, k)
  PROVE  \E r \in Message :
           /\ replies' = Append(replies, r)
           /\ r.of = Head(wire).of /\ r.i = Head(wire).i /\ r.err = e /\ r.k = k
<1>1. Head(wire) \in Message
  BY TakenFirst DEF FlightInv
<1>2. \A m \in Message : /\ [m EXCEPT !.err = e, !.k = k] \in Message
                         /\ [m EXCEPT !.err = e, !.k = k].of = m.of
                         /\ [m EXCEPT !.err = e, !.k = k].i = m.i
                         /\ [m EXCEPT !.err = e, !.k = k].err = e
                         /\ [m EXCEPT !.err = e, !.k = k].k = k
  BY DEF Message
<1> QED
  BY <1>1, <1>2 DEF Replies

(* A step that leaves the queue and its history alone.                     *)
LEMMA NothingMoves ==
  ASSUME UNCHANGED <<store, hist, call>>
  PROVE  \A u \in Uids : Stored(u) => Stored(u)'
  BY DEF Stored, store

-----------------------------------------------------------------------------
(* The steps of Redis on the program's requests.                           *)

(* The first request, as the commands find it.                             *)
LEMMA FirstRequest ==
  ASSUME NInv, NEW cmd, Serves(cmd)
  PROVE  \E h \in Message :
           /\ h = Head(wire) /\ wire # <<>> /\ wire' = Tail(wire)
           /\ Command(h) = cmd /\ RequestOK(h)
           /\ h.k \in CallType /\ h.k.t \in Nat
<1>1. wire # <<>> /\ wire \in Seq(Message)
  BY DEF NInv, FlightInv, Serves
<1>2. Head(wire) \in Message /\ RequestOK(Head(wire))
  <2>1. 1 \in DOMAIN wire /\ Head(wire) = wire[1] /\ wire[1] \in Message
    BY <1>1, TakenFirst
  <2> QED
    BY <2>1 DEF NInv, FlightInv
<1>3. \A m \in Message : m.k \in CallType /\ m.k.t \in Nat
  BY DEF Message, CallType
<1> QED
  BY <1>1, <1>2, <1>3 DEF Serves

LEMMA LookingKeepsNInv ==
  ASSUME NInv, ServeTime \/ ServeStats \/ ServeLookup
  PROVE  NInv'
<1>1. UNCHANGED vars
  BY DEF ServeTime, ServeStats, ServeLookup, Replies, vars
<1>2. IInv'
  BY <1>1, NextIInv DEF NInv
<1>3. \A u \in Uids : Stored(u) => Stored(u)'
  BY <1>1, NothingMoves DEF vars
<1>4. ASSUME NEW cmd \in {"time", "stats"}, Serves(cmd), NEW e \in {"none", "refused"},
             Replies(e, Head(wire).k)
      PROVE  FlightInv'
  <2>1. PICK h \in Message :
          /\ h = Head(wire) /\ wire # <<>> /\ wire' = Tail(wire)
          /\ Command(h) = cmd /\ RequestOK(h) /\ h.k \in CallType
    BY <1>4, FirstRequest
  <2>2. h.of \notin {"sendMessage", "receiveMessage"}
    BY <1>4, <2>1, PlaceInCall DEF RequestOK
  <2>3. PICK r \in Message :
          replies' = Append(replies, r) /\ r.of = h.of /\ r.i = h.i /\ r.k = h.k
    BY <1>4, <2>1, Replying DEF NInv
  <2>4. ReplyOK(r)
    BY <2>1, <2>2, <2>3 DEF RequestOK, ReplyOK
  <2> QED
    BY <1>1, <1>3, <2>1, <2>2, <2>3, <2>4, ServedFlight DEF NInv, vars
<1>5. ASSUME ServeLookup
      PROVE  FlightInv'
  <2>1. PICK h \in Message :
          /\ h = Head(wire) /\ wire # <<>> /\ wire' = Tail(wire)
          /\ Command(h) = "lookup" /\ RequestOK(h) /\ h.k \in CallType
    BY <1>5, FirstRequest DEF ServeLookup
  <2>2. h.i = 1
    BY <2>1, PlaceInCall DEF RequestOK
  <2>3. PICK k : k = [h.k EXCEPT !.t = now, !.q = attrs]
    OBVIOUS
  <2>4. attrs \in Attrs \cup {Nil} /\ now \in Nat /\ Attrs \subseteq Options
    BY DEF NInv, IInv, TypeOK, StoreTypeOK, Attrs, Options, OptInt
  <2>5. /\ k \in CallType /\ k.t = now /\ k.q = attrs
        /\ k.uid = h.k.uid /\ k.vt = h.k.vt /\ k.len = h.k.len
    BY <2>1, <2>3, <2>4 DEF CallType
  <2>6. PICK e \in {"none", "refused"} : Replies(e, k) /\ (e = "none" => attrs # Nil)
    BY <1>5, <2>1, <2>3 DEF ServeLookup, Check
  <2>7. PICK r \in Message :
          replies' = Append(replies, r) /\ r.of = h.of /\ r.i = 1 /\ r.err = e /\ r.k = k
    BY <2>1, <2>2, <2>5, <2>6, Replying DEF NInv
  <2>8. ReplyOK(r)
    BY <2>1, <2>2, <2>4, <2>5, <2>6, <2>7 DEF RequestOK, ReplyOK
  <2> QED
    BY <1>1, <1>3, <2>1, <2>7, <2>8, ServedFlight DEF NInv, vars
<1> QED
  BY <1>2, <1>4, <1>5 DEF ServeTime, ServeStats, Check, NInv

LEMMA CreatingKeepsNInv ==
  ASSUME NInv, ServeHSetNX \/ ServeSAdd
  PROVE  NInv'
<1>1. PICK h \in Message, e \in {"none", "refused"} :
        /\ h = Head(wire) /\ wire # <<>> /\ wire' = Tail(wire)
        /\ Command(h) \in {"hsetnx", "sadd"} /\ RequestOK(h) /\ h.k \in CallType
        /\ Replies(e, h.k)
  BY FirstRequest DEF ServeHSetNX, ServeSAdd, Check
<1>2. /\ UNCHANGED <<zset, body, rc, fr, totalrecv, totalsent, now, call, calls, faults, held, hist>>
      /\ listed' \in BOOLEAN /\ attrs' \in Attrs \cup {Nil}
      /\ attrs # Nil => attrs' # Nil
  <2>1. listed \in BOOLEAN /\ attrs \in Attrs \cup {Nil}
    BY DEF NInv, IInv, TypeOK, StoreTypeOK
  <2>2. DefaultAttrs \in Attrs
    BY StoreAssumption DEF DefaultAttrs, Attrs
  <2> QED
    BY <2>1, <2>2 DEF ServeHSetNX, ServeSAdd, Replies
<1>3. IInv'
  BY <1>2, AttributesKeepIInv DEF NInv
<1>4. \A u \in Uids : Stored(u) => Stored(u)'
  BY <1>2 DEF Stored
<1>5. h.of \notin {"sendMessage", "receiveMessage"}
  BY <1>1, PlaceInCall DEF RequestOK
<1>6. PICK r \in Message :
        replies' = Append(replies, r) /\ r.of = h.of /\ r.i = h.i /\ r.k = h.k
  BY <1>1, Replying DEF NInv
<1>7. ReplyOK(r)
  BY <1>1, <1>5, <1>6 DEF RequestOK, ReplyOK
<1> QED
  BY <1>1, <1>2, <1>3, <1>4, <1>5, <1>6, <1>7, ServedFlight DEF NInv

(* What an enqueue does, and what it leaves behind.                        *)
LEMMA Enqueuing ==
  ASSUME NInv, ServeEnqueue
  PROVE  \E u \in Uids :
           /\ NewUID(u)
           /\ \A v \in Uids \ {u} : zset'[v] = zset[v] /\ hist'[v] = hist[v]
           /\ zset'[u] \in Int /\ hist'[u].st = "sending" /\ hist'[u].got = hist[u].got
           /\ now' = now
           /\ NInv'
<1>1. PICK h \in Message :
        /\ h = Head(wire) /\ wire # <<>> /\ wire' = Tail(wire)
        /\ Command(h) = "enqueue" /\ RequestOK(h) /\ h.k \in CallType
  BY FirstRequest DEF ServeEnqueue
<1>2. h.of = "sendMessage" /\ h.i = 2 /\ h.k.q \in Attrs /\ h.k.len \in Nat /\ h.k.t \in Nat
  BY <1>1, PlaceInCall DEF RequestOK, CallType
<1> DEFINE s == Ms(h.k.t + Seconds(h.k.q.delay))
<1>3. PICK u \in Uids :
        /\ NewUID(u)
        /\ zset' = [zset EXCEPT ![u] = s]
        /\ body' = [body EXCEPT ![u] = h.k.len]
        /\ hist' = [hist EXCEPT ![u] = [@ EXCEPT !.st = "sending", !.len = h.k.len, !.at = h.k.t]]
        /\ Replies("none", [h.k EXCEPT !.uid = u])
        /\ totalsent' = totalsent + 1
        /\ UNCHANGED <<listed, attrs, rc, fr, totalrecv, held>>
  BY <1>1 DEF ServeEnqueue
<1>4. s \in Int
  <2>1. h.k.q.delay \in Int
    BY <1>2 DEF Attrs
  <2>2. h.k.t + Seconds(h.k.q.delay) \in Int
    BY <1>2, <2>1, DurationsAreInts
  <2> QED
    BY <2>2, MsIsInt
<1>5. UNCHANGED <<now, call, calls, faults>>
  BY <1>3 DEF Replies
<1>6. IInv' /\ Stored(u)'
  BY <1>2, <1>3, <1>4, <1>5, EnqueueKeepsIInv DEF NInv
<1>7. PICK k : k = [h.k EXCEPT !.uid = u]
  OBVIOUS
<1>8. /\ k \in CallType /\ k.uid = u
      /\ k.t = h.k.t /\ k.vt = h.k.vt /\ k.len = h.k.len /\ k.q = h.k.q
  BY <1>1, <1>7 DEF CallType
<1>9. PICK r \in Message :
        replies' = Append(replies, r) /\ r.of = h.of /\ r.i = 2 /\ r.k = k
  BY <1>1, <1>2, <1>3, <1>7, <1>8, Replying DEF NInv
<1>10. ReplyOK(r)
  <2>1. 2 \in DOMAIN Requests[r.of]
    BY <1>1, <1>2, <1>9 DEF RequestOK
  <2> QED
    BY <1>1, <1>2, <1>8, <1>9, <2>1 DEF RequestOK, ReplyOK
<1>11. FlightInv'
  BY <1>1, <1>2, <1>5, <1>6, <1>8, <1>9, <1>10, ServedFlight DEF NInv
<1>12. /\ \A v \in Uids \ {u} : zset'[v] = zset[v] /\ hist'[v] = hist[v]
       /\ zset'[u] \in Int /\ hist'[u].st = "sending" /\ hist'[u].got = hist[u].got
  BY <1>3, <1>4 DEF NInv, IInv, TypeOK, StoreTypeOK, HistType
<1> QED
  BY <1>3, <1>5, <1>6, <1>11, <1>12 DEF NInv

(* What a receive does, and what it leaves behind.                         *)
LEMMA Receiving ==
  ASSUME NInv, ServeReceive
  PROVE  /\ NInv' /\ now' = now
         /\ \/ UNCHANGED <<zset, hist>>
            \/ \E u \in Uids :
                 /\ zset[u] # Nil /\ zset[u] <= Ms(now) /\ zset'[u] # Nil
                 /\ hist'[u].st = hist[u].st /\ hist'[u].got = hist[u].got + 1
                 /\ \A v \in Uids \ {u} : zset'[v] = zset[v] /\ hist'[v] = hist[v]
<1>1. PICK h \in Message :
        /\ h = Head(wire) /\ wire # <<>> /\ wire' = Tail(wire)
        /\ Command(h) = "evalsha" /\ RequestOK(h) /\ h.k \in CallType
  BY FirstRequest DEF ServeReceive
<1>2. h.of = "receiveMessage" /\ h.i = 2 /\ h.k.q \in Attrs /\ h.k.vt = Nil /\ h.k.t <= now
  BY <1>1, PlaceInCall DEF RequestOK
<1>3. ASSUME NEW k \in CallType, k.t = h.k.t, k.vt = Nil, Replies("none", k),
             \A u \in Uids : Stored(u) => Stored(u)'
      PROVE  FlightInv' /\ UNCHANGED <<now, call, calls, faults>>
  <2>1. PICK r \in Message :
          replies' = Append(replies, r) /\ r.of = h.of /\ r.i = 2 /\ r.k = k
    BY <1>1, <1>2, <1>3, Replying DEF NInv
  <2>2. ReplyOK(r)
    BY <1>1, <1>2, <1>3, <2>1 DEF RequestOK, ReplyOK
  <2>3. UNCHANGED <<now, call, calls, faults>>
    BY <1>3 DEF Replies
  <2> QED
    BY <1>1, <1>2, <1>3, <2>1, <2>2, <2>3, ServedFlight DEF NInv
<1>4. CASE UNCHANGED <<store, held, hist>> /\ Replies("none", h.k)
  <2>1. UNCHANGED vars
    BY <1>4 DEF Replies, vars
  <2>2. \A u \in Uids : Stored(u) => Stored(u)'
    BY <2>1, NothingMoves DEF vars
  <2>3. NInv'
    BY <1>1, <1>2, <1>3, <1>4, <2>1, <2>2, NextIInv DEF NInv
  <2> QED
    BY <2>1, <2>3 DEF vars, store
<1>5. ASSUME NEW u \in Uids,
             ReceiveScript(u, TimeSentUnix(h.k), TimeVisibilityExpiresUnix(h.k, Nil)),
             hist' = Handed(u, TimeSentUnix(h.k), hist[u].fate),
             held' = [held EXCEPT ![Peer] = Unmarshal(h.k, u)],
             Replies("none", [h.k EXCEPT !.uid = u])
      PROVE  /\ NInv' /\ now' = now
             /\ zset[u] # Nil /\ zset[u] <= Ms(now) /\ zset'[u] # Nil
             /\ hist'[u].st = hist[u].st /\ hist'[u].got = hist[u].got + 1
             /\ \A v \in Uids \ {u} : zset'[v] = zset[v] /\ hist'[v] = hist[v]
  <2>1. UNCHANGED <<now, call, calls, faults>>
    BY <1>5 DEF Replies
  <2>2. IInv' /\ \A v \in Uids : Stored(v) => Stored(v)'
    BY <1>1, <1>2, <1>5, <2>1, ReceiveKeepsIInv, PeerAssumption DEF NInv
  <2>3. PICK k : k = [h.k EXCEPT !.uid = u]
    OBVIOUS
  <2>4. k \in CallType /\ k.t = h.k.t /\ k.vt = Nil
    BY <1>1, <1>2, <2>3 DEF CallType
  <2>5. FlightInv'
    BY <1>3, <1>5, <2>2, <2>3, <2>4
  <2>6. /\ hist \in [Uids -> HistType] /\ zset \in [Uids -> Int \cup {Nil}]
        /\ now \in Nat /\ h.k.t \in Nat
    BY <1>1 DEF NInv, IInv, TypeOK, StoreTypeOK, CallType
  <2>7. zset[u] # Nil /\ zset[u] <= Ms(now)
    <3>1. zset[u] # Nil /\ zset[u] <= Ms(h.k.t)
      BY <1>5 DEF ReceiveScript, IsNext, Visible, TimeSentUnix
    <3>2. Ms(h.k.t) \in Int /\ Ms(now) \in Int /\ Ms(h.k.t) <= Ms(now)
      BY <1>2, <2>6, MsIsInt, MsMonotone
    <3> QED
      BY <2>6, <3>1, <3>2
  <2>8. zset'[u] # Nil /\ \A v \in Uids \ {u} : zset'[v] = zset[v]
    <3>1. TimeVisibilityExpiresUnix(h.k, Nil) # Nil
      BY <1>1, <1>2, TimesAreInts, StoreAssumption
    <3> QED
      BY <1>5, <2>6, <3>1 DEF ReceiveScript
  <2>9. /\ hist'[u].st = hist[u].st /\ hist'[u].got = hist[u].got + 1
        /\ \A v \in Uids \ {u} : hist'[v] = hist[v]
    BY <1>5, <2>6 DEF Handed, HistType
  <2> QED
    BY <2>1, <2>2, <2>5, <2>7, <2>8, <2>9 DEF NInv
<1>6. \/ UNCHANGED <<store, held, hist>> /\ Replies("none", h.k)
      \/ \E u \in Uids :
           /\ ReceiveScript(u, TimeSentUnix(h.k), TimeVisibilityExpiresUnix(h.k, Nil))
           /\ hist' = Handed(u, TimeSentUnix(h.k), hist[u].fate)
           /\ held' = [held EXCEPT ![Peer] = Unmarshal(h.k, u)]
           /\ Replies("none", [h.k EXCEPT !.uid = u])
  BY <1>1 DEF ServeReceive
<1> QED
  BY <1>4, <1>5, <1>6

-----------------------------------------------------------------------------
(* The steps of the program.                                               *)

LEMMA FirstReply ==
  ASSUME NInv, replies # <<>>
  PROVE  \E m \in Message :
           /\ m = Head(replies) /\ m = replies[1] /\ 1 \in DOMAIN replies
           /\ ReplyOK(m)
           /\ m.of = "sendMessage" /\ m.i = 2 => Stored(m.k.uid)
<1>1. 1 \in DOMAIN replies /\ Head(replies) = replies[1] /\ replies[1] \in Message
  BY TakenFirst DEF NInv, FlightInv
<1> QED
  BY <1>1 DEF NInv, FlightInv

LEMMA GoingOn ==
  ASSUME NInv, GoOn
  PROVE  NInv'
<1>1. UNCHANGED vars /\ replies # <<>> /\ replies' = Tail(replies)
  BY DEF GoOn
<1>2. PICK m \in Message : m = Head(replies) /\ ReplyOK(m)
  BY <1>1, FirstReply
<1>3. m.err = "none" /\ m.i # Len(Requests[m.of])
  BY <1>2 DEF GoOn, Final
<1>4. /\ m.i + 1 \in DOMAIN Requests[m.of] /\ m.i + 1 \in 1..3
      /\ m.of \in {"sendMessage", "receiveMessage"} => m.i = 1
  <2>1. m.i \in 1..3
    BY DEF Message
  <2>2. /\ m.i + 1 \in DOMAIN Requests[m.of]
        /\ m.of \in {"sendMessage", "receiveMessage"} => m.i = 1
    BY <1>2, <1>3, PlaceInCall DEF ReplyOK
  <2>3. DOMAIN Requests[m.of] \subseteq 1..3
    BY DEF Requests, Message, Calls
  <2> QED
    BY <2>1, <2>2, <2>3
<1>5. PICK r : r = [m EXCEPT !.i = m.i + 1]
  OBVIOUS
<1>6. r \in Message /\ r.of = m.of /\ r.i = m.i + 1 /\ r.k = m.k
  BY <1>4, <1>5 DEF Message
<1>7. RequestOK(r)
  BY <1>2, <1>3, <1>4, <1>6 DEF RequestOK, ReplyOK
<1>8. wire' = Append(wire, r)
  BY <1>2, <1>5 DEF GoOn
<1>9. \A u \in Uids : Stored(u) => Stored(u)'
  BY <1>1, NothingMoves DEF vars
<1>10. FlightInv'
  BY <1>1, <1>2, <1>6, <1>7, <1>8, <1>9, ReadFlight DEF NInv, vars
<1> QED
  BY <1>1, <1>10, NextIInv DEF NInv

(* A callback that prints the identifier ends the send of a stored message. *)
LEMMA CallingBack ==
  ASSUME NInv, RunCallback
  PROVE  /\ NInv' /\ UNCHANGED <<zset, now>>
         /\ \/ hist' = hist
            \/ \E u \in Uids : hist[u].st = "sending" /\ hist' = [hist EXCEPT ![u].st = "sent"]
<1>1. /\ replies # <<>> /\ replies' = Tail(replies) /\ wire' = wire
      /\ UNCHANGED <<store, now, call, calls, faults, held>>
  BY DEF RunCallback
<1>2. PICK m \in Message :
        /\ m = Head(replies) /\ ReplyOK(m)
        /\ m.of = "sendMessage" /\ m.i = 2 => Stored(m.k.uid)
  BY <1>1, FirstReply
<1>3. CASE m.of = "sendMessage" /\ m.err = "none"
  <2>1. m.i = 2
    BY <1>2, <1>3, PlaceInCall DEF RunCallback, Final, ReplyOK
  <2>2. PICK u \in Uids : u = m.k.uid /\ Stored(u)
    BY <1>2, <1>3, <2>1 DEF Stored
  <2>3. hist' = [hist EXCEPT ![u].st = "sent"]
    BY <1>2, <1>3, <2>2 DEF RunCallback
  <2>4. hist' = [v \in Uids |-> IF v \in {u} THEN [hist[v] EXCEPT !.st = "sent"] ELSE hist[v]]
    BY <2>3 DEF NInv, IInv, TypeOK
  <2>5. IInv'
    BY <1>1, <2>2, <2>4, ClosingKeepsIInv DEF NInv
  <2>6. FlightInv'
    BY <1>1, <1>2, <1>3, ReadFlight DEF NInv
  <2> QED
    BY <1>1, <2>2, <2>3, <2>5, <2>6 DEF NInv, Stored, store
<1>4. CASE ~(m.of = "sendMessage" /\ m.err = "none")
  <2>1. hist' = hist
    BY <1>2, <1>4 DEF RunCallback
  <2>2. UNCHANGED vars
    BY <1>1, <2>1 DEF vars
  <2>3. \A u \in Uids : Stored(u) => Stored(u)'
    BY <2>2, NothingMoves DEF vars
  <2>4. FlightInv'
    BY <1>1, <2>3, ReadFlight DEF NInv
  <2> QED
    BY <1>1, <2>1, <2>2, <2>4, NextIInv DEF NInv, store
<1> QED
  BY <1>3, <1>4

(* The send in flight, if its message is stored already, fails.            *)
LEMMA Losing ==
  ASSUME NInv, ConnectionLost
  PROVE  /\ NInv' /\ UNCHANGED <<zset, now>>
         /\ \/ hist' = hist
            \/ \E u \in Uids : hist[u].st = "sending" /\ hist' = [hist EXCEPT ![u].st = "failed"]
<1> DEFINE S == {u \in Uids : \E n \in DOMAIN replies : /\ replies[n].of = "sendMessage"
                                                      /\ replies[n].k.uid = u}
<1>1. /\ replies' = <<>> /\ wire' = <<>>
      /\ UNCHANGED <<store, now, call, calls, faults, held>>
      /\ hist' = [u \in Uids |-> IF u \in S THEN [hist[u] EXCEPT !.st = "failed"] ELSE hist[u]]
  BY DEF ConnectionLost
<1>2. ASSUME NEW n \in DOMAIN replies, replies[n].of = "sendMessage", replies[n].k.uid \in Uids
      PROVE  Stored(replies[n].k.uid)
  <2>1. PICK m \in Message : m = replies[n] /\ ReplyOK(m)
    BY ElementOfSeq, LenProperties DEF NInv, FlightInv
  <2>2. m.i \in {1, 2} /\ m.k.uid # Nil
    <3>1. m.k.uid # Nil
      <4>1. Nil \notin Uids
        BY NilIsNoUid
      <4>2. m.k.uid \in Uids
        BY <1>2, <2>1
      <4> QED
        BY <4>1, <4>2
    <3>2. m.i \in DOMAIN Requests[m.of] /\ m.of = "sendMessage"
      BY <1>2, <2>1 DEF ReplyOK
    <3> QED
      BY <3>1, <3>2, PlaceInCall
  <2>3. replies[n].i = 2
    BY <1>2, <2>1, <2>2 DEF ReplyOK
  <2> QED
    BY <1>2, <2>3 DEF NInv, FlightInv
<1>3. \A u \in S : Stored(u)
  BY <1>2
<1>4. IInv'
  BY <1>1, <1>3, ClosingKeepsIInv DEF NInv
<1>5. FlightInv'
  <2>1. <<>> \in Seq(Message) /\ DOMAIN <<>> = {}
    BY EmptySeq, LenProperties
  <2> QED
    BY <1>1, <2>1 DEF FlightInv
<1>6. hist \in [Uids -> HistType]
  BY DEF NInv, IInv, TypeOK
<1>7. CASE S = {}
  <2>1. hist' = hist
    BY <1>1, <1>6, <1>7
  <2> QED
    BY <1>1, <1>4, <1>5, <2>1 DEF NInv, store
<1>8. ASSUME NEW u \in S
      PROVE  hist[u].st = "sending" /\ hist' = [hist EXCEPT ![u].st = "failed"]
  <2>1. \A v \in S : v = u
    BY <1>8 DEF NInv, FlightInv
  <2>2. \A v \in Uids : v \in S <=> v = u
    BY <2>1
  <2> QED
    BY <1>1, <1>3, <1>6, <2>2 DEF Stored
<1> QED
  BY <1>1, <1>4, <1>5, <1>7, <1>8 DEF NInv, store

-----------------------------------------------------------------------------
LEMMA InitNInv == NInit => NInv
<1> SUFFICES ASSUME NInit PROVE NInv
  OBVIOUS
<1>1. IInv
  BY InitIInv DEF NInit
<1>2. /\ DOMAIN Script = 1..4
      /\ \A n \in 1..4 : Script[n] \in Calls
      /\ \A i, n \in 1..4 : Script[i] = Script[n] => i = n
  BY DEF Script, Calls, Requests
<1>3. ASSUME NEW of \in Calls
      PROVE  First(of) \in Message /\ First(of).of = of /\ RequestOK(First(of))
  <2>1. PICK k : k = [Idle EXCEPT !.len = IF of = "sendMessage" THEN HelloWorld ELSE Nil]
    OBVIOUS
  <2>2. /\ k \in CallType /\ k.t = 0 /\ k.uid = Nil /\ k.vt = Nil
        /\ of = "sendMessage" => k.len \in Nat
    BY <2>1, PeerAssumption DEF Idle, CallType, OptInt
  <2>3. First(of) = [of |-> of, i |-> 1, err |-> "none", k |-> k]
    BY <2>1 DEF First
  <2>4. 1 \in DOMAIN Requests[of]
    BY <1>3 DEF Requests, Calls
  <2>5. now = 0
    BY DEF NInit, Init
  <2> QED
    BY <2>2, <2>3, <2>4, <2>5 DEF Message, RequestOK
<1>4. wire = [n \in 1..4 |-> First(Script[n])] /\ replies = <<>>
  BY <1>2 DEF NInit
<1>5. wire \in Seq(Message) /\ replies \in Seq(Message) /\ DOMAIN replies = {}
  <2>1. wire \in [1..4 -> Message]
    BY <1>2, <1>3, <1>4
  <2> QED
    BY <1>4, <2>1, SeqDef, EmptySeq, LenProperties
<1> QED
  BY <1>1, <1>2, <1>3, <1>4, <1>5 DEF NInv, FlightInv

LEMMA NextNInv == NInv /\ [NNext]_nvars => NInv'
<1> SUFFICES ASSUME NInv, [NNext]_nvars PROVE NInv'
  OBVIOUS
<1>1. CASE [Next]_vars /\ UNCHANGED peervars
  <2>1. now \in Nat /\ now' \in Nat /\ now <= now'
    BY <1>1, NowFrame DEF NInv, IInv, TypeOK, Tick
  <2>2. \A u \in Uids : Stored(u) => Stored(u)'
    BY <1>1, StoredStays DEF NInv
  <2>3. FlightInv'
    BY <1>1, <2>1, <2>2, FlightStays DEF NInv
  <2> QED
    BY <1>1, <2>3, NextIInv DEF NInv
<1> QED
  BY <1>1, LookingKeepsNInv, CreatingKeepsNInv, Enqueuing, Receiving, GoingOn, CallingBack, Losing
  DEF NNext, PeerNext, Redis, nvars

(* However the Node.js program's transactions and answers come between the *)
(* Go clients' commands, and whenever its connection breaks, the library's *)
(* inductive invariant holds: exclusion, storage, counters and hash; and   *)
(* each call of the program has one request or reply in flight, of a       *)
(* message that is stored whole once it was sent.                          *)
THEOREM PeerInvariance == NSpec => []NInv
  BY InitNInv, NextNInv, PTL DEF NSpec

(* The queue never loses its attributes under a call that found them, also *)
(* when the Node.js program works on it.                                   *)
THEOREM QueueStaysForPeer == NSpec => []QueueStays
<1>1. NInv => QueueStays
  BY DEF NInv, IInv
<1> QED
  BY <1>1, PeerInvariance, PTL

(* A message that left the queue stays away from it, the Node.js program's *)
(* sends and receives among the others.                                    *)
THEOREM PeerNoResurrection == NSpec => GoneStaysGone
<1>1. ASSUME NInv, [NNext]_nvars
      PROVE  [Stays]_vars
  <2>0. hist \in [Uids -> HistType]
    BY <1>1 DEF NInv, IInv, TypeOK
  <2>1. CASE [Next]_vars /\ UNCHANGED peervars
    BY <1>1, <2>1, GoneStays DEF NInv
  <2>2. CASE ServeTime \/ ServeStats \/ ServeLookup \/ ServeHSetNX \/ ServeSAdd \/ GoOn
             \/ RunCallback \/ ConnectionLost
    <3>1. zset' = zset
      BY <2>2
      DEF ServeTime, ServeStats, ServeLookup, ServeHSetNX, ServeSAdd, GoOn, RunCallback,
          ConnectionLost, vars, store
    <3> QED
      BY <3>1 DEF Stays
  <2>3. CASE ServeEnqueue
    <3>1. PICK u \in Uids : NewUID(u) /\ \A v \in Uids \ {u} : zset'[v] = zset[v]
      BY <1>1, <2>3, Enqueuing
    <3> QED
      BY <3>1 DEF NewUID, Stays
  <2>4. CASE ServeReceive
    <3>1. \/ zset' = zset
          \/ \E u \in Uids : zset[u] # Nil /\ \A v \in Uids \ {u} : zset'[v] = zset[v]
      BY <1>1, <2>4, Receiving
    <3> QED
      BY <3>1 DEF Stays
  <2> QED
    BY <1>1, <2>1, <2>2, <2>3, <2>4 DEF NNext, PeerNext, Redis, nvars
<1> QED
  BY <1>1, StaysIsGone, PeerInvariance, PTL DEF NSpec

(* Go clients and the Node.js program together keep the promise of         *)
(* LeaseQueue: only a visible message is handed out to either, and one     *)
(* that left the queue after its send ended does not come back.            *)
THEOREM PeerRefinement == NSpec => KeepsPromise
<1>1. NInit => Promise!LInit
  BY InitPromise DEF NInit
<1>2. ASSUME NInv, [NNext]_nvars
      PROVE  [Promise!LNext]_(Promise!absvars)
  <2>0. hist \in [Uids -> HistType] /\ zset \in [Uids -> Int \cup {Nil}] /\ StoredInv
    BY <1>2 DEF NInv, IInv, TypeOK, StoreTypeOK
  <2>1. CASE [Next]_vars /\ UNCHANGED peervars
    BY <1>2, <2>1, NextPromise DEF NInv
  <2>2. CASE ServeTime \/ ServeStats \/ ServeLookup \/ ServeHSetNX \/ ServeSAdd \/ GoOn
    <3>1. zset' = zset /\ now' = now /\ hist' = hist
      BY <2>2
      DEF ServeTime, ServeStats, ServeLookup, ServeHSetNX, ServeSAdd, GoOn, Replies, vars, store
    <3> QED
      BY <3>1, Unseen
  <2>3. CASE ServeEnqueue
    <3>1. PICK u \in Uids :
            /\ NewUID(u)
            /\ \A v \in Uids \ {u} : zset'[v] = zset[v] /\ hist'[v] = hist[v]
            /\ zset'[u] \in Int /\ hist'[u].st = "sending" /\ hist'[u].got = hist[u].got
            /\ now' = now
      BY <1>2, <2>3, Enqueuing
    <3>2. StatusOf(u) = "unsent"
      BY <2>0, <3>1 DEF NewUID, StatusOf, StoredInv
    <3>3. StatusOf(u)' \in {"visible", "hidden"}
      BY <3>1, StoreAssumption DEF StatusOf
    <3>4. [v \in Uids |-> StatusOf(v)]' = [[v \in Uids |-> StatusOf(v)] EXCEPT ![u] = StatusOf(u)']
      BY <3>1, OneMoves
    <3>5. {v \in Uids : hist[v].st = "sending"}' = {v \in Uids : hist[v].st = "sending"} \cup {u}
      BY <3>1
    <3>6. [v \in Uids |-> hist[v].got]' = [v \in Uids |-> hist[v].got]
      BY <3>1
    <3>7. Promise!Put(u)
      BY <3>2, <3>3, <3>4, <3>5, <3>6 DEF Promise!Put
    <3> QED
      BY <3>7 DEF Promise!LNext
  <2>4. CASE ServeReceive
    <3>1. CASE UNCHANGED <<zset, hist>>
      BY <1>2, <2>4, <3>1, Receiving, Unseen
    <3>2. ASSUME NEW u \in Uids, now' = now,
                 zset[u] # Nil, zset[u] <= Ms(now), zset'[u] # Nil,
                 hist'[u].st = hist[u].st, hist'[u].got = hist[u].got + 1,
                 \A v \in Uids \ {u} : zset'[v] = zset[v] /\ hist'[v] = hist[v]
          PROVE  Promise!LNext
      <4>1. StatusOf(u) = "visible" /\ StatusOf(u)' \in {"visible", "hidden"}
        BY <3>2 DEF StatusOf
      <4>2. [v \in Uids |-> StatusOf(v)]' = [[v \in Uids |-> StatusOf(v)] EXCEPT ![u] = StatusOf(u)']
        BY <3>2, OneMoves
      <4>3. [v \in Uids |-> hist[v].got]' = [[v \in Uids |-> hist[v].got] EXCEPT ![u] = hist[u].got + 1]
        BY <3>2
      <4>4. {v \in Uids : hist[v].st = "sending"}' = {v \in Uids : hist[v].st = "sending"}
        BY <3>2
      <4>5. Promise!Deliver(u)
        BY <4>1, <4>2, <4>3, <4>4 DEF Promise!Deliver
      <4> QED
        BY <4>5 DEF Promise!LNext
    <3> QED
      BY <1>2, <2>4, <3>1, <3>2, Receiving
  <2>5. ASSUME UNCHANGED <<zset, now>>,
               NEW u \in Uids, NEW s \in {"sent", "failed"},
               hist[u].st = "sending", hist' = [hist EXCEPT ![u].st = s]
        PROVE  Promise!LNext
    <3>1. /\ hist'[u].st = s
          /\ \A v \in Uids : hist'[v].got = hist[v].got
          /\ \A v \in Uids \ {u} : hist'[v].st = hist[v].st
      BY <2>0, <2>5 DEF HistType
    <3>2. \A v \in Uids : StatusOf(v)' = StatusOf(v)
      BY <2>5, <3>1 DEF StatusOf, Ms
    <3>3. {v \in Uids : hist[v].st = "sending"}' = {v \in Uids : hist[v].st = "sending"} \ {u}
      BY <3>1
    <3>4. Promise!Close(u)
      BY <3>1, <3>2, <3>3 DEF Promise!Close
    <3> QED
      BY <3>4 DEF Promise!LNext
  <2>6. CASE RunCallback \/ ConnectionLost
    <3>1. CASE hist' = hist
      BY <1>2, <2>6, <3>1, CallingBack, Losing, Unseen
    <3>2. CASE hist' # hist
      BY <1>2, <2>5, <2>6, <3>2, CallingBack, Losing
    <3> QED
      BY <3>1, <3>2
  <2> QED
    BY <1>2, <2>1, <2>2, <2>3, <2>4, <2>6 DEF NNext, PeerNext, Redis, nvars
<1> QED
  BY <1>1, <1>2, PeerInvariance, PTL DEF NSpec, KeepsPromise, Promise!LSpec

=============================================================================
