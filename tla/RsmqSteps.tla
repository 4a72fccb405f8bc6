----------------------------- MODULE RsmqSteps ------------------------------
(***************************************************************************)
(* Lemmas about Rsmq that the proofs rest on: the arithmetic of times, the *)
(* types of the records the actions build, and what each step may change.  *)
(***************************************************************************)
EXTENDS Rsmq, TLAPS

-----------------------------------------------------------------------------
(* Ms turns ticks into milliseconds: an integer, no later for an earlier   *)
(* time.                                                                   *)
LEMMA MsIsInt == ASSUME NEW a \in Int PROVE Ms(a) \in Int
  BY RsmqAssumption DEF Ms

LEMMA MsMonotone ==
  ASSUME NEW a \in Int, NEW b \in Int, a <= b
  PROVE  Ms(a) <= Ms(b)
  BY RsmqAssumption, Z3 DEF Ms

LEMMA WrappedIsInt == ASSUME NEW d \in Int PROVE Wrapped(d) \in Int
<1>1. d + MaxDuration \in Int /\ 2 * MaxDuration \in Nat \ {0}
  BY RsmqAssumption
<1>2. (d + MaxDuration) % (2 * MaxDuration) \in Int
  BY <1>1
<1> QED
  BY <1>2, RsmqAssumption DEF Wrapped

LEMMA DurationsAreInts ==
  ASSUME NEW n \in Int
  PROVE  Seconds(n) \in Int /\ Milliseconds(n) \in Int
<1>1. n * TicksPerMs \in Int /\ n * (MsPerSecond * TicksPerMs) \in Int
  BY RsmqAssumption
<1> QED
  BY <1>1, WrappedIsInt DEF Seconds, Milliseconds

LEMMA TimesAreInts ==
  ASSUME NEW k \in CallType, k.q \in Attrs
  PROVE  /\ TimeSentUnix(k) \in Int
         /\ TimeVisibilityExpiresUnix(k, k.vt) \in Int
         /\ SendScore(k) \in Int
         /\ k.t + Seconds(IF k.vt = Nil THEN k.q.vt ELSE k.vt) \in Int
<1>1. /\ k.t \in Int /\ k.q.delay \in Int
      /\ (IF k.vt = Nil THEN k.q.vt ELSE k.vt) \in Int
  BY DEF CallType, Attrs, OptInt
<1>2. /\ k.t + Seconds(IF k.vt = Nil THEN k.q.vt ELSE k.vt) \in Int
      /\ k.t + Milliseconds(k.q.delay) \in Int
  BY <1>1, DurationsAreInts
<1> QED
  BY <1>1, <1>2, MsIsInt DEF TimeSentUnix, TimeVisibilityExpiresUnix, SendScore

LEMMA UnmarshalType ==
  ASSUME NEW k \in CallType, k.q \in Attrs, NEW u \in Uids, StoreTypeOK,
         rc[u] = Nil <=> fr[u] = Nil
  PROVE  /\ FirstReceived(u, TimeSentUnix(k)) \in Int
         /\ Unmarshal(k, u) \in HeldType
<1>1. FirstReceived(u, TimeSentUnix(k)) \in Int
  BY TimesAreInts, StoreAssumption DEF FirstReceived, NextRC, StoreTypeOK
<1>2. k.t \in Nat
  BY DEF CallType
<1> QED
  BY <1>1, <1>2, TimesAreInts DEF Unmarshal, HeldType

(* A call that starts is well typed when its record is.                    *)
LEMMA StartType ==
  ASSUME call \in [Clients -> CallType], calls \in Nat,
         NEW c \in Clients, NEW k \in CallType, Start(c, k)
  PROVE  call' \in [Clients -> CallType] /\ calls' \in Nat
  BY DEF Start

(* Between a client's commands a call goes on, ends, or is sent again; all *)
(* three keep call, calls and faults well typed.                           *)
LEMMA CallStepType ==
  ASSUME call \in [Clients -> CallType], calls \in Nat, faults \in Nat,
         NEW c \in Clients, NEW pc \in Commands,
         Goto(c, pc) \/ Return(c) \/ Resend(c, pc)
  PROVE  /\ call' \in [Clients -> CallType]
         /\ calls' \in Nat
         /\ faults' \in Nat
  BY DEF Goto, Return, Resend, Idle, CallType, OptInt, Commands

LEMMA OverwrittenType ==
  ASSUME held \in [Clients -> HeldType \cup {Nil}], NEW c, NEW u, NEW s
  PROVE  Overwritten(c, u, s) \in [Clients -> HeldType \cup {Nil}]
  BY DEF Overwritten, HeldType

-----------------------------------------------------------------------------
(* The steps of a client that change only its call.                        *)
Quiet(c) ==
  \/ StartCreateQueue(c)
  \/ StartSendMessage(c)
  \/ StartReceiveMessage(c)
  \/ StartPopMessage(c)
  \/ StartChangeMessageVisibility(c)
  \/ StartSetQueueAttributes(c)
  \/ StartDeleteMessage(c)
  \/ StartDeleteQueue(c)
  \/ GetQueueFails(c)
  \/ GetQueueSucceeds(c)
  \/ NothingVisible(c)
  \/ ResendPipeline(c)

LEMMA QuietFrame ==
  ASSUME NEW c \in Clients, Quiet(c)
  PROVE  UNCHANGED <<listed, attrs, zset, body, rc, fr, totalrecv, totalsent, now, held, hist>>
<1>1. CASE StartCreateQueue(c) \/ StartDeleteQueue(c) \/ GetQueueFails(c) \/ NothingVisible(c)
  BY <1>1 DEF StartCreateQueue, StartDeleteQueue, GetQueueFails, NothingVisible, store
<1>2. CASE GetQueueSucceeds(c) \/ StartPopMessage(c)
  BY <1>2 DEF GetQueueSucceeds, StartPopMessage, store
<1>3. CASE StartSendMessage(c)
  BY <1>3 DEF StartSendMessage, store
<1>4. CASE StartReceiveMessage(c) \/ StartSetQueueAttributes(c)
  BY <1>4 DEF StartReceiveMessage, StartSetQueueAttributes, store
<1>5. CASE StartChangeMessageVisibility(c) \/ StartDeleteMessage(c)
  BY <1>5 DEF StartChangeMessageVisibility, StartDeleteMessage, store
<1>6. CASE ResendPipeline(c)
  BY <1>6 DEF ResendPipeline, store
<1> QED
  BY <1>1, <1>2, <1>3, <1>4, <1>5, <1>6 DEF Quiet

(* The steps that change what Redis holds, who holds a message or what     *)
(* happened to one.                                                        *)
LEMMA StepCases ==
  ASSUME [Next]_vars
  PROVE  \/ UNCHANGED vars
         \/ Tick
         \/ \E c \in Clients :
              \/ Quiet(c)
              \/ CreateQueueHMSet(c)
              \/ CreateQueueSAdd(c)
              \/ SendMessageZAdd(c)
              \/ SendMessageHSet(c)
              \/ SendMessageHIncrBy(c)
              \/ ReceiveMessageEval(c)
              \/ PopMessageEval(c)
              \/ ChangeMessageVisibilityEval(c)
              \/ DeleteMessageZRem(c)
              \/ DeleteMessageHDel(c)
              \/ DeleteQueueDel(c)
              \/ DeleteQueueSRem(c)
              \/ SetQueueAttributesHSet(c)
              \/ Fail(c)
  BY DEF Next, Begins, Evaluates, Proceeds, Quiet

(* What each step may touch, read off the actions.                         *)
LEMMA HeldFrame ==
  ASSUME [Next]_vars
  PROVE  \/ held' = held
         \/ \E c \in Clients : \/ SendMessageZAdd(c) \/ ReceiveMessageEval(c)
                               \/ PopMessageEval(c) \/ ChangeMessageVisibilityEval(c)
<1>1. CASE UNCHANGED vars \/ Tick
  BY <1>1 DEF vars, Tick
<1>2. CASE \E c \in Clients : Quiet(c)
  BY <1>2, QuietFrame
<1> QED
  BY <1>1, <1>2, StepCases
  DEF CreateQueueHMSet, CreateQueueSAdd, SendMessageHSet, SendMessageHIncrBy, DeleteMessageZRem,
      DeleteMessageHDel, DeleteQueueDel, DeleteQueueSRem, SetQueueAttributesHSet, Fail

LEMMA HistFrame ==
  ASSUME [Next]_vars
  PROVE  \/ hist' = hist
         \/ \E c \in Clients : \/ SendMessageZAdd(c) \/ SendMessageHIncrBy(c)
                               \/ ReceiveMessageEval(c) \/ PopMessageEval(c)
                               \/ DeleteMessageZRem(c) \/ DeleteQueueDel(c) \/ Fail(c)
<1>1. CASE UNCHANGED vars \/ Tick
  BY <1>1 DEF vars, Tick
<1>2. CASE \E c \in Clients : Quiet(c)
  BY <1>2, QuietFrame
<1> QED
  BY <1>1, <1>2, StepCases
  DEF CreateQueueHMSet, CreateQueueSAdd, SendMessageHSet, ChangeMessageVisibilityEval,
      DeleteMessageHDel, DeleteQueueSRem, SetQueueAttributesHSet

LEMMA ZsetFrame ==
  ASSUME [Next]_vars
  PROVE  \/ zset' = zset
         \/ \E c \in Clients : \/ SendMessageZAdd(c) \/ ReceiveMessageEval(c)
                               \/ PopMessageEval(c) \/ ChangeMessageVisibilityEval(c)
                               \/ DeleteMessageZRem(c) \/ DeleteQueueDel(c)
<1>1. CASE UNCHANGED vars \/ Tick
  BY <1>1 DEF vars, store, Tick
<1>2. CASE \E c \in Clients : Quiet(c)
  BY <1>2, QuietFrame
<1> QED
  BY <1>1, <1>2, StepCases
  DEF CreateQueueHMSet, CreateQueueSAdd, SendMessageHSet, SendMessageHIncrBy, DeleteMessageHDel,
      DeleteQueueSRem, SetQueueAttributesHSet, Fail, store

LEMMA NowFrame ==
  ASSUME [Next]_vars
  PROVE  now' = now \/ Tick
<1>1. CASE UNCHANGED vars
  BY <1>1 DEF vars
<1>2. CASE \E c \in Clients : Quiet(c)
  BY <1>2, QuietFrame
<1> QED
  BY <1>1, <1>2, StepCases
  DEF CreateQueueHMSet, CreateQueueSAdd, SendMessageZAdd, SendMessageHSet, SendMessageHIncrBy,
      ReceiveMessageEval, PopMessageEval, ChangeMessageVisibilityEval, DeleteMessageZRem,
      DeleteMessageHDel, DeleteQueueDel, DeleteQueueSRem, SetQueueAttributesHSet, Fail
-----------------------------------------------------------------------------
(* Type correctness.                                                       *)
LEMMA CallOfOp ==
  ASSUME IInv, NEW c \in Clients
  PROVE  /\ call[c] \in CallType
         /\ call[c].op = "SendMessage" => call[c].uid \in Uids /\ call[c].len \in Nat
         /\ call[c].op \in {"ChangeMessageVisibility", "DeleteMessage"} => call[c].uid \in Uids
         /\ call[c].pc \in {"zadd", "hset", "hincrby", "evalsha"} => call[c].q \in Attrs
         /\ call[c].op = "SetQueueAttributes" => call[c].q \in Options
  BY DEF IInv, TypeOK, CallInv, CallOK

LEMMA StoreTypeStep ==
  ASSUME IInv, [Next]_vars
  PROVE  StoreTypeOK'
<1>0. StoreTypeOK /\ \A u \in Uids : rc[u] = Nil <=> fr[u] = Nil
  BY DEF IInv, TypeOK, ReceiptsCounted
<1>1. CASE UNCHANGED vars \/ Tick
  BY <1>0, <1>1 DEF vars, store, Tick, StoreTypeOK
<1>2. CASE \E c \in Clients : Quiet(c)
  BY <1>0, <1>2, QuietFrame DEF StoreTypeOK
<1>3. ASSUME NEW c \in Clients,
             CreateQueueHMSet(c) \/ CreateQueueSAdd(c) \/ DeleteQueueSRem(c) \/ Fail(c)
      PROVE  StoreTypeOK'
  <2>1. listed' \in BOOLEAN
    BY <1>0, <1>3, Zenon
    DEF CreateQueueHMSet, CreateQueueSAdd, DeleteQueueSRem, Fail, store, StoreTypeOK
  <2>2. attrs' \in Attrs \cup {Nil}
    BY <1>0, <1>3, StoreAssumption
    DEF CreateQueueHMSet, CreateQueueSAdd, DeleteQueueSRem, Fail, store, StoreTypeOK, DefaultAttrs, Attrs
  <2> QED
    BY <1>0, <1>3, <2>1, <2>2
    DEF CreateQueueHMSet, CreateQueueSAdd, DeleteQueueSRem, Fail, store, StoreTypeOK
<1>4. ASSUME NEW c \in Clients, SendMessageZAdd(c)
      PROVE  StoreTypeOK'
  BY <1>0, <1>4, CallOfOp, TimesAreInts DEF SendMessageZAdd, At, StoreTypeOK
<1>5. ASSUME NEW c \in Clients, SendMessageHSet(c) \/ SendMessageHIncrBy(c)
      PROVE  StoreTypeOK'
  BY <1>0, <1>5, CallOfOp DEF SendMessageHSet, SendMessageHIncrBy, At, StoreTypeOK
<1>6. ASSUME NEW c \in Clients, ReceiveMessageEval(c)
      PROVE  StoreTypeOK'
  <2> DEFINE k == call[c]
  <2>1. k \in CallType /\ k.q \in Attrs
    BY <1>6, CallOfOp DEF ReceiveMessageEval, At
  <2>2. PICK u \in Uids : ReceiveScript(u, TimeSentUnix(k), TimeVisibilityExpiresUnix(k, k.vt))
    BY <1>6 DEF ReceiveMessageEval
  <2>3. TimeVisibilityExpiresUnix(k, k.vt) \in Int /\ FirstReceived(u, TimeSentUnix(k)) \in Int
    BY <1>0, <2>1, TimesAreInts, UnmarshalType
  <2>4. NextRC(u) \in Nat
    BY <1>0, StoreAssumption DEF NextRC, StoreTypeOK
  <2> QED
    BY <1>0, <2>2, <2>3, <2>4 DEF ReceiveScript, StoreTypeOK
<1>7. ASSUME NEW c \in Clients, PopMessageEval(c)
      PROVE  StoreTypeOK'
  BY <1>0, <1>7 DEF PopMessageEval, PopScript, StoreTypeOK
<1>8. ASSUME NEW c \in Clients, ChangeMessageVisibilityEval(c)
      PROVE  StoreTypeOK'
  BY <1>0, <1>8, CallOfOp, TimesAreInts DEF ChangeMessageVisibilityEval, HideScript, At, StoreTypeOK
<1>9. ASSUME NEW c \in Clients, DeleteMessageZRem(c) \/ DeleteMessageHDel(c) \/ DeleteQueueDel(c)
      PROVE  StoreTypeOK'
  BY <1>0, <1>9 DEF DeleteMessageZRem, DeleteMessageHDel, DeleteQueueDel, NoField, StoreTypeOK
<1>10. ASSUME NEW c \in Clients, SetQueueAttributesHSet(c)
       PROVE  StoreTypeOK'
  <2>1. call[c].q \in Options /\ attrs \in Attrs
    BY <1>0, <1>10, CallOfOp DEF SetQueueAttributesHSet, IInv, QueueStays, StoreTypeOK
  <2>2. attrs' \in Attrs
    BY <2>1, <1>10 DEF SetQueueAttributesHSet, SetField, Attrs, Options, OptInt
  <2> QED
    BY <1>0, <1>10, <2>2 DEF SetQueueAttributesHSet, StoreTypeOK
<1> QED
  BY <1>1, <1>2, <1>3, <1>4, <1>5, <1>6, <1>7, <1>8, <1>9, <1>10, StepCases

LEMMA CallTypeStep ==
  ASSUME IInv, [Next]_vars
  PROVE  /\ now' \in Nat
         /\ call' \in [Clients -> CallType]
         /\ calls' \in Nat
         /\ faults' \in Nat
<1> DEFINE CallsOK == call \in [Clients -> CallType] /\ calls \in Nat /\ faults \in Nat
<1>0. CallsOK /\ now \in Nat
  BY DEF IInv, TypeOK
<1>1. now' \in Nat
  BY <1>0, NowFrame DEF Tick
<1>2. CASE UNCHANGED vars \/ Tick
  BY <1>0, <1>2 DEF vars, Tick
<1>3. ASSUME NEW c \in Clients, StartCreateQueue(c) \/ StartPopMessage(c) \/ StartDeleteQueue(c)
      PROVE  CallsOK'
  <2>1. [Idle EXCEPT !.op = "CreateQueue", !.pc = "hmset"] \in CallType
    BY DEF Idle, CallType, OptInt, Methods, Commands
  <2>2. [Idle EXCEPT !.op = "PopMessage", !.pc = "hmget", !.t = now] \in CallType
    BY <1>0 DEF Idle, CallType, OptInt, Methods, Commands
  <2>3. [Idle EXCEPT !.op = "DeleteQueue", !.pc = "del"] \in CallType
    BY DEF Idle, CallType, OptInt, Methods, Commands
  <2> QED
    BY <1>0, <1>3, <2>1, <2>2, <2>3, StartType DEF StartCreateQueue, StartPopMessage, StartDeleteQueue
<1>4. ASSUME NEW c \in Clients, StartSendMessage(c)
      PROVE  CallsOK'
  <2>1. \A u \in Uids, n \in Lengths :
          [Idle EXCEPT !.op = "SendMessage", !.pc = "hmget",
                       !.uid = u, !.len = n, !.t = now] \in CallType
    BY <1>0, RsmqAssumption DEF Idle, CallType, OptInt, Methods, Commands
  <2> QED
    BY <1>0, <1>4, <2>1, StartType DEF StartSendMessage
<1>5. ASSUME NEW c \in Clients, StartReceiveMessage(c)
      PROVE  CallsOK'
  <2>1. \A v \in ReceiveVTs :
          [Idle EXCEPT !.op = "ReceiveMessage", !.pc = "hmget", !.vt = v, !.t = now] \in CallType
    BY <1>0, RsmqAssumption DEF Idle, CallType, OptInt, Methods, Commands
  <2> QED
    BY <1>0, <1>5, <2>1, StartType DEF StartReceiveMessage
<1>6. ASSUME NEW c \in Clients, StartChangeMessageVisibility(c) \/ StartDeleteMessage(c)
      PROVE  CallsOK'
  <2>1. \A u \in Uids, v \in HideVTs :
          [Idle EXCEPT !.op = "ChangeMessageVisibility", !.pc = "hmget",
                       !.uid = u, !.vt = v, !.t = now] \in CallType
    BY <1>0, RsmqAssumption DEF Idle, CallType, OptInt, Methods, Commands
  <2>2. \A u \in Uids :
          [Idle EXCEPT !.op = "DeleteMessage", !.pc = "zrem", !.uid = u] \in CallType
    BY DEF Idle, CallType, OptInt, Methods, Commands
  <2> QED
    BY <1>0, <1>6, <2>1, <2>2, StartType DEF StartChangeMessageVisibility, StartDeleteMessage
<1>7. ASSUME NEW c \in Clients, StartSetQueueAttributes(c)
      PROVE  CallsOK'
  <2>1. \A o \in NewAttrs :
          [Idle EXCEPT !.op = "SetQueueAttributes", !.pc = "hmget", !.q = o, !.t = now] \in CallType
    BY <1>0, RsmqAssumption DEF Idle, CallType, OptInt, Methods, Commands
  <2> QED
    BY <1>0, <1>7, <2>1, StartType DEF StartSetQueueAttributes
<1>8. ASSUME NEW c \in Clients, GetQueueFails(c) \/ NothingVisible(c) \/ Fail(c)
      PROVE  CallsOK'
  BY <1>0, <1>8 DEF GetQueueFails, NothingVisible, Fail, Return, Idle, CallType, OptInt
<1>9. ASSUME NEW c \in Clients, GetQueueSucceeds(c)
      PROVE  CallsOK'
  <2>1. attrs \in Options
    BY <1>9 DEF GetQueueSucceeds, IInv, TypeOK, StoreTypeOK, Attrs, Options, OptInt
  <2>2. call[c] \in CallType
    BY <1>0
  <2>3. \A pc \in Commands : [call[c] EXCEPT !.pc = pc, !.q = attrs] \in CallType
    BY <2>1, <2>2 DEF CallType
  <2>4. \A pc \in Commands : [call[c] EXCEPT !.pc = pc] \in CallType
    BY <2>2 DEF CallType
  <2> QED
    BY <1>0, <1>9, <2>3, <2>4 DEF GetQueueSucceeds, Commands, Settings
<1>10. ASSUME NEW c \in Clients, ResendPipeline(c) \/ CreateQueueHMSet(c) \/ CreateQueueSAdd(c)
       PROVE  CallsOK'
  BY <1>0, <1>10, CallStepType DEF ResendPipeline, CreateQueueHMSet, CreateQueueSAdd, Commands, Settings
<1>11. ASSUME NEW c \in Clients, SendMessageZAdd(c) \/ SendMessageHSet(c) \/ SendMessageHIncrBy(c)
       PROVE  CallsOK'
  BY <1>0, <1>11, CallStepType DEF SendMessageZAdd, SendMessageHSet, SendMessageHIncrBy, Commands
<1>12. ASSUME NEW c \in Clients,
              ReceiveMessageEval(c) \/ PopMessageEval(c) \/ ChangeMessageVisibilityEval(c)
       PROVE  CallsOK'
  BY <1>0, <1>12, CallStepType DEF ReceiveMessageEval, PopMessageEval, ChangeMessageVisibilityEval, Commands
<1>13. ASSUME NEW c \in Clients, \/ DeleteMessageZRem(c) \/ DeleteMessageHDel(c)
                                 \/ DeleteQueueDel(c) \/ DeleteQueueSRem(c)
       PROVE  CallsOK'
  BY <1>0, <1>13, CallStepType
  DEF DeleteMessageZRem, DeleteMessageHDel, DeleteQueueDel, DeleteQueueSRem, Commands
<1>14. ASSUME NEW c \in Clients, SetQueueAttributesHSet(c)
       PROVE  CallsOK'
  <2>1. call[c].pc # "hset_vt" => NextSetting(c) \in Commands
    BY <1>14 DEF SetQueueAttributesHSet, NextSetting, Settings, Commands
  <2> QED
    BY <1>0, <1>14, <2>1, CallStepType DEF SetQueueAttributesHSet, Commands, Settings
<1> QED
  BY <1>1, <1>2, <1>3, <1>4, <1>5, <1>6, <1>7, <1>8, <1>9, <1>10, <1>11, <1>12, <1>13, <1>14,
     StepCases
  DEF Quiet

LEMMA HeldTypeStep ==
  ASSUME IInv, [Next]_vars
  PROVE  held' \in [Clients -> HeldType \cup {Nil}]
<1>0. held \in [Clients -> HeldType \cup {Nil}]
  BY DEF IInv, TypeOK
<1>1. CASE held' = held
  BY <1>0, <1>1
<1>2. ASSUME NEW c \in Clients, SendMessageZAdd(c) \/ ChangeMessageVisibilityEval(c)
      PROVE  held' \in [Clients -> HeldType \cup {Nil}]
  BY <1>0, <1>2, OverwrittenType DEF SendMessageZAdd, ChangeMessageVisibilityEval
<1>3. ASSUME NEW c \in Clients, ReceiveMessageEval(c) \/ PopMessageEval(c)
      PROVE  held' \in [Clients -> HeldType \cup {Nil}]
  <2>1. call[c] \in CallType /\ call[c].q \in Attrs
    BY <1>3, CallOfOp DEF ReceiveMessageEval, PopMessageEval, At
  <2>2. \A u \in Uids : Unmarshal(call[c], u) \in HeldType
    BY <2>1, UnmarshalType DEF IInv, TypeOK, ReceiptsCounted
  <2> QED
    BY <1>0, <1>3, <2>2 DEF ReceiveMessageEval, PopMessageEval
<1> QED
  BY <1>1, <1>2, <1>3, HeldFrame

LEMMA HistTypeStep ==
  ASSUME IInv, [Next]_vars
  PROVE  hist' \in [Uids -> HistType]
<1>0. hist \in [Uids -> HistType]
  BY DEF IInv, TypeOK
<1>1. CASE hist' = hist
  BY <1>0, <1>1
<1>2. ASSUME NEW c \in Clients, SendMessageZAdd(c)
      PROVE  hist' \in [Uids -> HistType]
  <2>1. call[c] \in CallType /\ call[c].uid \in Uids /\ call[c].len \in Nat /\ call[c].t \in Nat
    BY <1>2, CallOfOp DEF SendMessageZAdd, At, CallType
  <2>2. \A h \in HistType, b \in BOOLEAN :
          [h EXCEPT !.st = "sending", !.len = call[c].len, !.at = call[c].t,
                    !.fate = "none", !.resent = b] \in HistType
    BY <2>1 DEF HistType, Stages, Fates
  <2> QED
    BY <1>0, <1>2, <2>1, <2>2 DEF SendMessageZAdd
<1>3. ASSUME NEW c \in Clients, SendMessageHIncrBy(c) \/ Fail(c)
      PROVE  hist' \in [Uids -> HistType]
  BY <1>0, <1>3 DEF SendMessageHIncrBy, Fail, HistType, Stages
<1>4. ASSUME NEW c \in Clients, ReceiveMessageEval(c) \/ PopMessageEval(c)
      PROVE  hist' \in [Uids -> HistType]
  <2>1. TimeSentUnix(call[c]) \in Int
    BY <1>4, CallOfOp, TimesAreInts DEF ReceiveMessageEval, PopMessageEval, At
  <2>2. PICK u \in Uids, f \in Fates : hist' = Handed(u, TimeSentUnix(call[c]), f)
    BY <1>0, <1>4 DEF ReceiveMessageEval, PopMessageEval, HistType, Fates
  <2>3. ASSUME NEW h \in HistType, NEW t \in OptInt, NEW n \in Nat
        PROVE  [h EXCEPT !.got = n, !.first = t, !.fate = f] \in HistType
    BY <2>2 DEF HistType
  <2>4. hist[u] \in HistType /\ hist[u].got + 1 \in Nat /\ hist[u].first \in OptInt
    BY <1>0 DEF HistType
  <2> QED
    BY <1>0, <2>1, <2>2, <2>3, <2>4 DEF Handed, OptInt
<1>5. ASSUME NEW c \in Clients, DeleteMessageZRem(c) \/ DeleteQueueDel(c)
      PROVE  hist' \in [Uids -> HistType]
  BY <1>0, <1>5 DEF DeleteMessageZRem, DeleteQueueDel, HistType, Fates
<1> QED
  BY <1>1, <1>2, <1>3, <1>4, <1>5, HistFrame

LEMMA TypeStep == IInv /\ [Next]_vars => TypeOK'
  BY StoreTypeStep, CallTypeStep, HeldTypeStep, HistTypeStep DEF TypeOK

-----------------------------------------------------------------------------
(* Calls: only one client's record changes in a step, so CallInv needs     *)
(* CallOK of the new record alone.                                         *)
LEMMA OthersKeepCallInv ==
  ASSUME IInv, [Next]_vars, NEW c \in Clients,
         \E k : call' = [call EXCEPT ![c] = k] /\ CallOK(k, now')
  PROVE  CallInv'
<1>1. call \in [Clients -> CallType] /\ now \in Nat /\ now' \in Nat /\ now <= now'
  BY NowFrame DEF IInv, TypeOK, Tick
<1>2. ASSUME NEW d \in Clients PROVE CallOK(call'[d], now')
  <2>1. CASE d = c
    BY <1>1, <2>1
  <2>2. CASE d # c
    <3>1. call'[d] = call[d] /\ call[d].t \in Nat /\ CallOK(call[d], now)
      BY <1>1, <2>2 DEF IInv, CallInv, CallType
    <3> QED
      BY <1>1, <3>1 DEF CallOK
  <2> QED
    BY <2>1, <2>2
<1> QED
  BY <1>2 DEF CallInv

LEMMA CallInvStep == IInv /\ [Next]_vars => CallInv'
<1> SUFFICES ASSUME IInv, [Next]_vars PROVE CallInv'
  OBVIOUS
<1>0. call \in [Clients -> CallType] /\ now \in Nat /\ now' \in Nat /\ now <= now'
  BY NowFrame DEF IInv, TypeOK, Tick
<1>1. \A c \in Clients : CallOK(call[c], now')
  <2> SUFFICES ASSUME NEW c \in Clients PROVE CallOK(call[c], now')
    OBVIOUS
  <2>1. CallOK(call[c], now) /\ call[c].t \in Nat
    BY <1>0 DEF IInv, CallInv, CallType
  <2> QED
    BY <1>0, <2>1 DEF CallOK
<1> USE <1>0, <1>1
<1>2. ASSUME NEW c \in Clients, call' = [call EXCEPT ![c] = Idle]
      PROVE  CallInv'
  <2>1. CallOK(Idle, now')
    BY DEF CallOK, Idle
  <2> QED
    BY <1>2, <2>1, OthersKeepCallInv
<1>3. ASSUME NEW c \in Clients, NEW pc \in Commands, call[c] # Idle,
             call' = [call EXCEPT ![c].pc = pc],
             CallOK([call[c] EXCEPT !.pc = pc], now')
      PROVE  CallInv'
  BY <1>3, OthersKeepCallInv
<1>4. CASE UNCHANGED vars \/ Tick
  BY <1>4 DEF vars, Tick, CallInv
<1>5. ASSUME NEW c \in Clients, StartCreateQueue(c) \/ StartPopMessage(c) \/ StartDeleteQueue(c)
      PROVE  CallInv'
  <2>1. CallOK([Idle EXCEPT !.op = "CreateQueue", !.pc = "hmset"], now')
    BY DEF CallOK, Idle
  <2>2. CallOK([Idle EXCEPT !.op = "PopMessage", !.pc = "hmget", !.t = now], now')
    BY DEF CallOK, Idle
  <2>3. CallOK([Idle EXCEPT !.op = "DeleteQueue", !.pc = "del"], now')
    BY DEF CallOK, Idle
  <2> QED
    BY OthersKeepCallInv, <1>5, <2>1, <2>2, <2>3 DEF StartCreateQueue, StartPopMessage, StartDeleteQueue, Start
<1>6. ASSUME NEW c \in Clients, StartSendMessage(c)
      PROVE  CallInv'
  <2>1. \A u \in Uids, n \in Lengths :
          CallOK([Idle EXCEPT !.op = "SendMessage", !.pc = "hmget",
                              !.uid = u, !.len = n, !.t = now], now')
    BY RsmqAssumption DEF CallOK, Idle
  <2> QED
    BY OthersKeepCallInv, <1>6, <2>1 DEF StartSendMessage, Start
<1>7. ASSUME NEW c \in Clients, StartReceiveMessage(c)
      PROVE  CallInv'
  <2>1. \A v \in ReceiveVTs :
          CallOK([Idle EXCEPT !.op = "ReceiveMessage", !.pc = "hmget", !.vt = v, !.t = now], now')
    BY DEF CallOK, Idle
  <2> QED
    BY OthersKeepCallInv, <1>7, <2>1 DEF StartReceiveMessage, Start
<1>8. ASSUME NEW c \in Clients, StartChangeMessageVisibility(c) \/ StartDeleteMessage(c)
      PROVE  CallInv'
  <2>1. \A u \in Uids, v \in HideVTs :
          CallOK([Idle EXCEPT !.op = "ChangeMessageVisibility", !.pc = "hmget",
                              !.uid = u, !.vt = v, !.t = now], now')
    BY RsmqAssumption DEF CallOK, Idle
  <2>2. \A u \in Uids : CallOK([Idle EXCEPT !.op = "DeleteMessage", !.pc = "zrem", !.uid = u], now')
    BY DEF CallOK, Idle
  <2> QED
    BY OthersKeepCallInv, <1>8, <2>1, <2>2 DEF StartChangeMessageVisibility, StartDeleteMessage, Start
<1>9. ASSUME NEW c \in Clients, StartSetQueueAttributes(c)
      PROVE  CallInv'
  <2>1. \A o \in NewAttrs :
          CallOK([Idle EXCEPT !.op = "SetQueueAttributes", !.pc = "hmget", !.q = o, !.t = now], now')
    BY RsmqAssumption DEF CallOK, Idle
  <2> QED
    BY OthersKeepCallInv, <1>9, <2>1 DEF StartSetQueueAttributes, Start
<1>10. ASSUME NEW c \in Clients,
              GetQueueFails(c) \/ NothingVisible(c) \/ Fail(c)
       PROVE  CallInv'
  BY <1>2, <1>10 DEF GetQueueFails, NothingVisible, Fail, Return
<1>11. ASSUME NEW c \in Clients, GetQueueSucceeds(c)
       PROVE  CallInv'
  <2> DEFINE k == call[c]
  <2>1. k \in CallType /\ attrs \in Attrs
    BY <1>11 DEF GetQueueSucceeds, IInv, TypeOK, StoreTypeOK
  <2>2. ASSUME NEW pc \in {"zadd", "evalsha"},
               pc = "zadd" => k.op = "SendMessage",
               pc = "evalsha" => k.op \in {"ReceiveMessage", "PopMessage", "ChangeMessageVisibility"},
               call' = [call EXCEPT ![c] = [@ EXCEPT !.pc = pc, !.q = attrs]]
        PROVE  CallInv'
    <3> DEFINE n == [k EXCEPT !.pc = pc, !.q = attrs]
    <3>1. /\ n.pc = pc /\ n.q = attrs
          /\ n.op = k.op /\ n.uid = k.uid /\ n.len = k.len /\ n.vt = k.vt /\ n.t = k.t
      BY <2>1 DEF CallType
    <3>2. k.op \in Methods /\ k.t \in Nat
      BY <2>1, <2>2 DEF CallType, Methods
    <3> HIDE DEF n
    <3>3. CallOK(n, now')
      BY <2>1, <2>2, <3>1, <3>2 DEF CallOK, Methods, Settings
    <3>4. call' = [call EXCEPT ![c] = n]
      BY <2>2 DEF n
    <3> QED
      BY <3>3, <3>4, OthersKeepCallInv
  <2>3. CASE k.op = "SetQueueAttributes" /\ call' = [call EXCEPT ![c].pc = "hset_delay"]
    <3>1. CallOK([k EXCEPT !.pc = "hset_delay"], now')
      BY <2>1, <2>3 DEF CallOK, CallType, Settings
    <3>2. k # Idle
      BY <2>3 DEF Idle
    <3> QED
      BY <2>3, <3>1, <3>2, <1>3 DEF Commands, Settings
  <2> QED
    BY <1>11, <2>2, <2>3 DEF GetQueueSucceeds
<1>12. ASSUME NEW c \in Clients, NEW pc \in Commands,
              call[c].pc # "idle",
              CallOK([call[c] EXCEPT !.pc = pc], now'),
              Goto(c, pc) \/ Return(c) \/ Resend(c, pc)
       PROVE  CallInv'
  <2>1. call[c] # Idle
    BY <1>12 DEF Idle
  <2> QED
    BY <1>2, <1>3, <1>12, <2>1 DEF Goto, Return, Resend
<1>13. ASSUME NEW c \in Clients, ResendPipeline(c)
       PROVE  CallInv'
  <2>1. PICK pc \in {"zadd", "zrem", "del", "hset_delay"} :
          /\ pc = "zadd" => call[c].pc \in {"hset", "hincrby"}
          /\ pc = "zrem" => call[c].pc = "hdel"
          /\ pc = "del" => call[c].pc = "srem"
          /\ pc = "hset_delay" => call[c].pc \in {"hset_maxsize", "hset_vt"}
          /\ Resend(c, pc)
    BY <1>13 DEF ResendPipeline
  <2>2. CallOK([call[c] EXCEPT !.pc = pc], now') /\ call[c].pc # "idle"
    BY <2>1 DEF CallOK, CallType, Settings
  <2> QED
    BY <1>12, <2>1, <2>2 DEF Commands, Settings
<1>14. ASSUME NEW c \in Clients, CreateQueueHMSet(c) \/ CreateQueueSAdd(c)
       PROVE  CallInv'
  <2>1. \A pc \in {"hmset", "sadd"} : CallOK([call[c] EXCEPT !.pc = pc], now')
    BY <1>14 DEF CreateQueueHMSet, CreateQueueSAdd, At, CallOK, CallType
  <2> QED
    BY <1>12, <1>14, <2>1 DEF CreateQueueHMSet, CreateQueueSAdd, At, Commands
<1>15. ASSUME NEW c \in Clients,
              SendMessageZAdd(c) \/ SendMessageHSet(c) \/ SendMessageHIncrBy(c)
       PROVE  CallInv'
  <2>1. \A pc \in {"zadd", "hset", "hincrby"} : CallOK([call[c] EXCEPT !.pc = pc], now')
    BY <1>15 DEF SendMessageZAdd, SendMessageHSet, SendMessageHIncrBy, At, CallOK, CallType
  <2> QED
    BY <1>12, <1>15, <2>1 DEF SendMessageZAdd, SendMessageHSet, SendMessageHIncrBy, At, Commands
<1>16. ASSUME NEW c \in Clients,
              ReceiveMessageEval(c) \/ PopMessageEval(c) \/ ChangeMessageVisibilityEval(c)
       PROVE  CallInv'
  <2>1. CallOK([call[c] EXCEPT !.pc = "evalsha"], now')
    BY <1>16 DEF ReceiveMessageEval, PopMessageEval, ChangeMessageVisibilityEval, At, CallOK, CallType
  <2> QED
    BY <1>12, <1>16, <2>1
    DEF ReceiveMessageEval, PopMessageEval, ChangeMessageVisibilityEval, At, Commands
<1>17. ASSUME NEW c \in Clients, DeleteMessageZRem(c) \/ DeleteMessageHDel(c)
       PROVE  CallInv'
  <2>1. \A pc \in {"zrem", "hdel"} : CallOK([call[c] EXCEPT !.pc = pc], now')
    BY <1>17 DEF DeleteMessageZRem, DeleteMessageHDel, At, CallOK, CallType
  <2> QED
    BY <1>12, <1>17, <2>1 DEF DeleteMessageZRem, DeleteMessageHDel, At, Commands
<1>18. ASSUME NEW c \in Clients, DeleteQueueDel(c) \/ DeleteQueueSRem(c)
       PROVE  CallInv'
  <2>1. \A pc \in {"del", "srem"} : CallOK([call[c] EXCEPT !.pc = pc], now')
    BY <1>18 DEF DeleteQueueDel, DeleteQueueSRem, At, CallOK, CallType
  <2> QED
    BY <1>12, <1>18, <2>1 DEF DeleteQueueDel, DeleteQueueSRem, At, Commands
<1>19. ASSUME NEW c \in Clients, SetQueueAttributesHSet(c)
       PROVE  CallInv'
  <2>1. \A pc \in Settings : CallOK([call[c] EXCEPT !.pc = pc], now')
    BY <1>19 DEF SetQueueAttributesHSet, CallOK, CallType, Settings
  <2>2. call[c].pc # "hset_vt" => NextSetting(c) \in Settings
    BY <1>19 DEF SetQueueAttributesHSet, NextSetting, Settings
  <2> QED
    BY <1>12, <1>19, <2>1, <2>2 DEF SetQueueAttributesHSet, Commands, Settings
<1> QED
  BY <1>4, <1>5, <1>6, <1>7, <1>8, <1>9, <1>10, <1>11, <1>13, <1>14, <1>15, <1>16, <1>17, <1>18,
     <1>19, StepCases
  DEF Quiet

=============================================================================
