---------------------------- MODULE ServiceProofs ----------------------------
(***************************************************************************)
(* The whole client library, for any clients, readers, scripts lost and    *)
(* starts that fail: what is proved of Rsmq still holds, a ready client    *)
(* finds its scripts, and reports neither go back nor miss a hidden        *)
(* message.                                                                *)
(***************************************************************************)
EXTENDS Service, RsmqFifo, FiniteSetTheorems

-----------------------------------------------------------------------------
(* The steps of the service, as Rsmq sees them.                            *)

(* A call ends, or nothing but a fault happens. *)
CallEnds ==
  /\ UNCHANGED <<store, now, calls, held, hist>>
  /\ faults' \in {faults, faults + 1}
  /\ call' = call \/ \E c \in Clients : call' = [call EXCEPT ![c] = Idle]

LEMMA ServiceSteps ==
  ASSUME [SNext]_svars
  PROVE  [Next]_vars \/ CallEnds
<1>1. CASE UNCHANGED svars \/ (Tick /\ UNCHANGED <<sessvars, repvars>>)
  BY <1>1 DEF svars, Next
<1>2. CASE ScriptsLost
  BY <1>2 DEF ScriptsLost, CallEnds
<1>3. ASSUME NEW c \in Clients, SessionNext(c)
      PROVE  [Next]_vars \/ CallEnds
  <2>1. CASE New(c) \/ ScriptLoad(c)
    BY <2>1 DEF New, ScriptLoad
  <2>2. CASE NewFails(c)
    BY <2>2 DEF NewFails, CallEnds
  <2>3. CASE NoScript(c)
    BY <2>3 DEF NoScript, Return, CallEnds
  <2>4. CASE Works(c)
    BY <2>4 DEF Works, Next
  <2>5. CASE Close(c)
    BY <2>5 DEF Close, Proceeds, Next
  <2> QED
    BY <1>3, <2>1, <2>2, <2>3, <2>4, <2>5 DEF SessionNext
<1>4. ASSUME NEW o \in Readers, ReportNext(o)
      PROVE  [Next]_vars \/ CallEnds
  BY <1>4
  DEF ReportNext, GetQueueAttributesTime, GetQueueAttributesHMGet, GetQueueAttributesZCard,
      GetQueueAttributesZCount, GetQueueAttributesResend, CallEnds
<1> QED
  BY <1>1, <1>2, <1>3, <1>4 DEF SNext

LEMMA CallEndsIInv ==
  ASSUME IInv, CallEnds
  PROVE  IInv'
<1>0. /\ TypeOK /\ CallInv /\ SenderInv /\ StoredInv /\ LeaseInv
      /\ OneRunsOn /\ ReceiptsCounted /\ QueueStays
  BY DEF IInv
<1>1. /\ UNCHANGED <<listed, attrs, zset, body, rc, fr, totalrecv, totalsent>>
      /\ UNCHANGED <<now, calls, held, hist>>
      /\ \A c \in Clients : call'[c] = call[c] \/ call'[c] = Idle
      /\ call \in [Clients -> CallType]
      /\ faults' \in Nat
  BY <1>0 DEF CallEnds, store, TypeOK
<1>2. Idle \in CallType
  BY DEF Idle, CallType, OptInt
<1>3. call' \in [Clients -> CallType]
  BY <1>1, <1>2 DEF CallEnds
<1>4. TypeOK'
  BY <1>0, <1>1, <1>3 DEF TypeOK, StoreTypeOK
<1>5. CallInv'
  <2>1. now \in Nat
    BY <1>0 DEF TypeOK
  <2>2. CallOK(Idle, now)
    BY <2>1 DEF CallOK, Idle
  <2> QED
    BY <1>0, <1>1, <2>2 DEF CallInv
<1>6. SenderInv'
  <2>1. PlaceOK(Idle, hist) /\ Idle.op # "SendMessage"
    BY DEF PlaceOK, Idle
  <2> QED
    BY <1>0, <1>1, <2>1 DEF SenderInv
<1>7. StoredInv'
  <2>1. Idle.pc \notin {"hincrby", "hdel"}
    BY DEF Idle
  <2> QED
    BY <1>0, <1>1, <2>1 DEF StoredInv
<1>8. LeaseInv' /\ OneRunsOn' /\ ReceiptsCounted'
  BY <1>0, <1>1 DEF LeaseInv, OneRunsOn, ReceiptsCounted, RunsOn, Ms
<1>9. QueueStays'
  <2>1. Idle.pc \notin {"zadd", "hset", "hincrby"} \cup Settings
    BY DEF Idle, Settings
  <2> QED
    BY <1>0, <1>1, <2>1 DEF QueueStays
<1> QED
  BY <1>4, <1>5, <1>6, <1>7, <1>8, <1>9 DEF IInv

LEMMA ServiceIInv == IInv /\ [SNext]_svars => IInv'
  BY ServiceSteps, CallEndsIInv, NextIInv

(* Clients that start, fail to start, close, or run into a script that is  *)
(* not there, and readers of reports, leave the library's inductive        *)
(* invariant as it is: exclusion, storage, counters and hash hold.         *)
THEOREM ServiceInvariance == SSpec => []IInv
<1>1. SInit => IInv
  BY InitIInv DEF SInit
<1> QED
  BY <1>1, ServiceIInv, PTL DEF SSpec

(* The whole library, too, implements LeaseQueue.                          *)
THEOREM ServiceRefinement == SSpec => KeepsPromise
<1>1. SInit => Promise!LInit
  BY InitPromise DEF SInit
<1>2. ASSUME IInv, [SNext]_svars
      PROVE  [Promise!LNext]_(Promise!absvars)
  <2>1. CASE CallEnds
    BY <2>1, Unseen DEF CallEnds, store
  <2> QED
    BY <1>2, <2>1, ServiceSteps, NextPromise
<1> QED
  BY <1>1, <1>2, ServiceInvariance, PTL DEF SSpec, KeepsPromise, Promise!LSpec

(* A message that left the queue after its send ended stays away from it,  *)
(* whatever clients start, close or find their scripts lost.               *)
THEOREM ServiceNoResurrection == SSpec => GoneStaysGone
<1>1. IInv /\ [SNext]_svars => [Stays]_vars
  <2>1. CallEnds => Stays
    BY DEF CallEnds, store, Stays
  <2> QED
    BY <2>1, ServiceSteps, GoneStays
<1> QED
  BY <1>1, StaysIsGone, ServiceInvariance, PTL DEF SSpec

(* The whole library hands messages out first in the order they were sent. *)
THEOREM ServiceFifo == SendersDontHide /\ DelayStays => (SSpec => FirstInFirstOut)
<1> SUFFICES ASSUME SendersDontHide, DelayStays PROVE SSpec => FirstInFirstOut
  OBVIOUS
<1>1. IInv /\ HideInv /\ DueInv /\ [SNext]_svars => HideInv' /\ DueInv'
  <2> SUFFICES ASSUME IInv, HideInv, DueInv, CallEnds PROVE HideInv' /\ DueInv'
    BY ServiceSteps, HideInvStep, DueInvStep
  <2>1. /\ UNCHANGED <<attrs, zset, hist, held>>
        /\ \A c \in Clients : call'[c] = call[c] \/ call'[c] = Idle
    BY DEF CallEnds, store, IInv, TypeOK
  <2>2. Idle.op = "none" /\ Idle.pc \notin Sending
    BY DEF Idle, Sending
  <2> QED
    BY <2>1, <2>2 DEF HideInv, HidesReceived, DueInv, Undelayed, Ms
<1>2. IInv /\ DueInv /\ [SNext]_svars => [InOrder]_vars
  <2>1. IInv /\ CallEnds => InOrder
    BY DEF CallEnds, InOrder, IInv, TypeOK
  <2> QED
    BY <2>1, ServiceSteps, FirstIsOldest
<1>3. SInit => HideInv /\ DueInv
  BY InitHideDue DEF SInit
<1> QED
  BY <1>1, <1>2, <1>3, FifoIsInOrder, ServiceInvariance, PTL DEF SSpec

-----------------------------------------------------------------------------
(* Scripts.                                                                *)

(* New loads its scripts in order, and what it loaded is there unless      *)
(* Redis lost its scripts since New began.                                 *)
LoadedInv ==
  /\ session \in [Clients -> Scripts \cup {"none", "ready"}]
  /\ \A c \in Clients \ lost :
       /\ session[c] \in {"receive", "hide", "ready"} => "pop" \in scripts
       /\ session[c] \in {"hide", "ready"} => "receive" \in scripts
       /\ session[c] = "ready" => "hide" \in scripts

LEMMA LoadedInvStep ==
  ASSUME LoadedInv, [SNext]_svars
  PROVE  LoadedInv'
<1>1. CASE UNCHANGED sessvars
  BY <1>1 DEF LoadedInv, sessvars
<1>2. CASE ScriptsLost
  BY <1>2 DEF ScriptsLost, LoadedInv
<1>3. ASSUME NEW c \in Clients, New(c) \/ NewFails(c) \/ Close(c)
      PROVE  LoadedInv'
  BY <1>3 DEF New, NewFails, Close, LoadedInv, Scripts
<1>4. ASSUME NEW c \in Clients, ScriptLoad(c)
      PROVE  LoadedInv'
  BY <1>4 DEF ScriptLoad, After, LoadedInv, Scripts
<1>5. ASSUME NEW c \in Clients, NoScript(c) \/ Works(c)
      PROVE  UNCHANGED sessvars
  BY <1>5 DEF NoScript, Works
<1> QED
  BY <1>1, <1>2, <1>3, <1>4, <1>5 DEF SNext, SessionNext, svars

(* A client that New returned finds its three scripts, whatever the others *)
(* do, unless Redis lost them after that New began.                        *)
THEOREM ScriptsKept == SSpec => []ScriptsStay
<1>1. SInit => LoadedInv
  BY DEF SInit, SessionInit, LoadedInv
<1>2. LoadedInv /\ [SNext]_svars => LoadedInv'
  BY LoadedInvStep
<1>3. LoadedInv => ScriptsStay
  BY DEF LoadedInv, ScriptsStay, Scripts
<1> QED
  BY <1>1, <1>2, <1>3, PTL DEF SSpec

-----------------------------------------------------------------------------
(* What the totals count.                                                  *)

LEMMA FaultsGrow ==
  ASSUME [SNext]_svars
  PROVE  faults' \in {faults, faults + 1}
<1>1. CASE CallEnds \/ UNCHANGED vars \/ Tick
  BY <1>1 DEF CallEnds, vars, Tick
<1>2. ASSUME NEW c \in Clients, Begins(c)
      PROVE  faults' = faults
  BY <1>2
  DEF Begins, StartCreateQueue, StartSendMessage, StartReceiveMessage, StartPopMessage,
      StartChangeMessageVisibility, StartSetQueueAttributes, StartDeleteMessage, StartDeleteQueue
<1>3. ASSUME NEW c \in Clients, Evaluates(c)
      PROVE  faults' \in {faults, faults + 1}
  BY <1>3
  DEF Evaluates, NothingVisible, ReceiveMessageEval, PopMessageEval,
      ChangeMessageVisibilityEval, Return, Resend
<1>4. ASSUME NEW c \in Clients, Proceeds(c)
      PROVE  faults' \in {faults, faults + 1}
  <2>1. CASE CreateQueueHMSet(c) \/ CreateQueueSAdd(c) \/ GetQueueFails(c) \/ GetQueueSucceeds(c)
    BY <2>1
    DEF CreateQueueHMSet, CreateQueueSAdd, GetQueueFails, GetQueueSucceeds, Goto, Return, Resend
  <2>2. CASE SendMessageZAdd(c) \/ SendMessageHSet(c) \/ SendMessageHIncrBy(c)
    BY <2>2 DEF SendMessageZAdd, SendMessageHSet, SendMessageHIncrBy, Goto, Return, Resend
  <2>3. CASE DeleteMessageZRem(c) \/ DeleteMessageHDel(c) \/ DeleteQueueDel(c) \/ DeleteQueueSRem(c)
    BY <2>3
    DEF DeleteMessageZRem, DeleteMessageHDel, DeleteQueueDel, DeleteQueueSRem, Goto, Return, Resend
  <2>4. CASE SetQueueAttributesHSet(c) \/ ResendPipeline(c) \/ Fail(c)
    BY <2>4 DEF SetQueueAttributesHSet, ResendPipeline, Fail, Goto, Return, Resend
  <2> QED
    BY <1>4, <2>1, <2>2, <2>3, <2>4 DEF Proceeds
<1> QED
  BY <1>1, <1>2, <1>3, <1>4, ServiceSteps DEF Next

(* Receipts and Sent follow hist: nothing else makes or unmakes them.      *)
LEMMA NothingCounted ==
  ASSUME \A u \in Uids : hist'[u].got = hist[u].got
  PROVE  Receipts' = Receipts
<1>1. \A u \in Uids : {u} \X (1..hist'[u].got) = {u} \X (1..hist[u].got)
  OBVIOUS
<1> QED
  BY <1>1 DEF Receipts

LEMMA OneMoreReceipt ==
  ASSUME NEW u \in Uids, hist[u].got \in Nat, hist'[u].got = hist[u].got + 1,
         \A v \in Uids \ {u} : hist'[v].got = hist[v].got
  PROVE  /\ Receipts' = Receipts \cup {<<u, hist[u].got + 1>>}
         /\ <<u, hist[u].got + 1>> \notin Receipts
<1> DEFINE new == <<u, hist[u].got + 1>>
<1>1. {u} \X (1..hist'[u].got) = ({u} \X (1..hist[u].got)) \cup {new}
  <2>1. 1..(hist[u].got + 1) = (1..hist[u].got) \cup {hist[u].got + 1}
    OBVIOUS
  <2> QED
    BY <2>1
<1>2. \A v \in Uids \ {u} : {v} \X (1..hist'[v].got) = {v} \X (1..hist[v].got)
  OBVIOUS
<1>3. \A v \in Uids : new \notin {v} \X (1..hist[v].got)
  OBVIOUS
<1> QED
  BY <1>1, <1>2, <1>3 DEF Receipts

CountsInv == IsFiniteSet(Receipts) /\ TotalsCounted

LEMMA CountsInvStep ==
  ASSUME IInv, CountsInv, [SNext]_svars
  PROVE  CountsInv'
<1>0. /\ hist \in [Uids -> HistType] /\ call \in [Clients -> CallType]
      /\ totalrecv \in Nat /\ totalsent \in Nat /\ faults \in Nat
      /\ faults' \in Nat /\ faults <= faults'
      /\ \A c \in Clients : CallOK(call[c], now) /\ PlaceOK(call[c], hist)
  BY FaultsGrow DEF IInv, TypeOK, StoreTypeOK, CallInv, SenderInv
<1>1. IsFiniteSet(Sent) /\ Cardinality(Sent) \in Nat
  BY ReportsAssumption, FS_Subset, FS_CardinalityType DEF Sent
<1>2. ASSUME \A u \in Uids : hist'[u].got = hist[u].got, Sent' = Sent,
             totalrecv' = totalrecv, totalsent' = totalsent
      PROVE  CountsInv'
  <2>1. Receipts' = Receipts
    BY <1>2, NothingCounted
  <2> QED
    BY <1>0, <1>1, <1>2, <2>1 DEF CountsInv, TotalsCounted
<1>3. CASE CallEnds \/ UNCHANGED vars \/ Tick
  BY <1>2, <1>3 DEF CallEnds, vars, Tick, store, Sent
<1>4. CASE \E c \in Clients : Quiet(c)
  BY <1>2, <1>4, QuietFrame DEF Sent
<1>5. ASSUME NEW c \in Clients, ReceiveMessageEval(c) \/ PopMessageEval(c)
      PROVE  CountsInv'
  <2>1. /\ totalrecv' = totalrecv + 1 /\ totalsent' = totalsent
        /\ \E u \in Uids : \E f : hist' = Handed(u, TimeSentUnix(call[c]), f)
    BY <1>5 DEF ReceiveMessageEval, PopMessageEval, ReceiveScript, PopScript
  <2>2. PICK u \in Uids : \E f : hist' = Handed(u, TimeSentUnix(call[c]), f)
    BY <2>1
  <2>3. /\ hist[u].got \in Nat /\ hist'[u].got = hist[u].got + 1
        /\ \A v \in Uids \ {u} : hist'[v].got = hist[v].got
        /\ \A v \in Uids : hist'[v].st = hist[v].st
    BY <1>0, <2>2 DEF Handed, HistType
  <2>4. /\ Receipts' = Receipts \cup {<<u, hist[u].got + 1>>}
        /\ <<u, hist[u].got + 1>> \notin Receipts
    BY <2>3, OneMoreReceipt
  <2>5. IsFiniteSet(Receipts') /\ Cardinality(Receipts') = Cardinality(Receipts) + 1
    BY <2>4, FS_AddElement DEF CountsInv
  <2>6. Sent' = Sent
    BY <2>3 DEF Sent
  <2> QED
    BY <1>0, <1>1, <2>1, <2>5, <2>6 DEF CountsInv, TotalsCounted
<1>6. ASSUME NEW c \in Clients, SendMessageHIncrBy(c)
      PROVE  CountsInv'
  <2>1. /\ call[c].uid \in Uids /\ hist[call[c].uid].st = "sending"
        /\ totalrecv' = totalrecv /\ totalsent' = totalsent + 1
    BY <1>0, <1>6 DEF SendMessageHIncrBy, At, CallOK, PlaceOK
  <2>2. CASE hist' = [hist EXCEPT ![call[c].uid].st = "sent"]
    <3>1. /\ \A v \in Uids : hist'[v].got = hist[v].got
          /\ Sent' = Sent \cup {call[c].uid} /\ call[c].uid \notin Sent
      BY <1>0, <2>1, <2>2 DEF Sent, HistType
    <3>2. Receipts' = Receipts /\ Cardinality(Sent') = Cardinality(Sent) + 1
      BY <1>1, <3>1, NothingCounted, FS_AddElement
    <3> QED
      BY <1>0, <1>1, <2>1, <3>2 DEF CountsInv, TotalsCounted
  <2>3. CASE hist' = hist /\ faults' = faults + 1
    <3>1. Receipts' = Receipts /\ Sent' = Sent
      BY <2>3, NothingCounted DEF Sent
    <3> QED
      BY <1>0, <1>1, <2>1, <2>3, <3>1 DEF CountsInv, TotalsCounted
  <2> QED
    BY <1>6, <2>2, <2>3 DEF SendMessageHIncrBy, Resend
<1>7. ASSUME NEW c \in Clients, SendMessageZAdd(c) \/ Fail(c)
      PROVE  CountsInv'
  <2>1. call[c].op = "SendMessage" => call[c].uid \in Uids
    BY <1>0 DEF CallOK
  <2>2. \A v \in Uids : hist'[v].got = hist[v].got /\ (hist'[v].st = "sent" <=> hist[v].st = "sent")
    <3>1. CASE SendMessageZAdd(c)
      <4>1. call[c].uid \in Uids /\ hist[call[c].uid].st # "sent"
        BY <1>0, <2>1, <3>1 DEF SendMessageZAdd, At, PlaceOK
      <4> QED
        BY <1>0, <3>1, <4>1 DEF SendMessageZAdd, HistType
    <3>2. CASE Fail(c)
      BY <1>0, <2>1, <3>2 DEF Fail, HistType
    <3> QED
      BY <1>7, <3>1, <3>2
  <2>3. totalrecv' = totalrecv /\ totalsent' = totalsent
    BY <1>7 DEF SendMessageZAdd, Fail, store
  <2> QED
    BY <1>2, <2>2, <2>3 DEF Sent
<1>8. ASSUME NEW c \in Clients,
             \/ CreateQueueHMSet(c) \/ CreateQueueSAdd(c) \/ SendMessageHSet(c)
             \/ ChangeMessageVisibilityEval(c) \/ DeleteMessageZRem(c) \/ DeleteMessageHDel(c)
             \/ DeleteQueueDel(c) \/ DeleteQueueSRem(c) \/ SetQueueAttributesHSet(c)
      PROVE  CountsInv'
  <2>1. totalrecv' = totalrecv /\ totalsent' = totalsent
    BY <1>8
    DEF CreateQueueHMSet, CreateQueueSAdd, SendMessageHSet, ChangeMessageVisibilityEval, HideScript,
        DeleteMessageZRem, DeleteMessageHDel, DeleteQueueDel, DeleteQueueSRem, SetQueueAttributesHSet
  <2>2. \A u \in Uids : hist'[u].got = hist[u].got /\ hist'[u].st = hist[u].st
    <3>1. CASE DeleteMessageZRem(c)
      BY <1>0, <3>1 DEF DeleteMessageZRem, At, CallOK, HistType
    <3>2. CASE DeleteQueueDel(c)
      BY <1>0, <3>2 DEF DeleteQueueDel, HistType
    <3> QED
      BY <1>8, <3>1, <3>2
      DEF CreateQueueHMSet, CreateQueueSAdd, SendMessageHSet, ChangeMessageVisibilityEval,
          DeleteMessageHDel, DeleteQueueSRem, SetQueueAttributesHSet
  <2> QED
    BY <1>2, <2>1, <2>2 DEF Sent
<1> QED
  BY <1>3, <1>4, <1>5, <1>6, <1>7, <1>8, ServiceSteps, StepCases

(* For any clients, faults and resent pipelines, what the totals count is  *)
(* what the scripts and the sends did.                                     *)
THEOREM TotalsAreCounts == SSpec => []TotalsCounted
<1>1. SInit => CountsInv
  <2> SUFFICES ASSUME Init PROVE CountsInv
    BY DEF SInit
  <2>1. \A u \in Uids : hist[u].got = 0 /\ hist[u].st = "unsent"
    BY DEF Init
  <2>2. \A u \in Uids : {u} \X (1..hist[u].got) = {}
    <3>1. 1..0 = {}
      OBVIOUS
    <3> QED
      BY <2>1, <3>1
  <2>3. Receipts = {} /\ Sent = {}
    BY <2>1, <2>2 DEF Receipts, Sent
  <2> QED
    BY <2>3, FS_EmptySet DEF CountsInv, TotalsCounted, Init, StoreInit
<1>2. IInv /\ CountsInv /\ [SNext]_svars => CountsInv'
  BY CountsInvStep
<1>3. CountsInv => TotalsCounted
  BY DEF CountsInv
<1> QED
  BY <1>1, <1>2, <1>3, ServiceInvariance, PTL DEF SSpec

-----------------------------------------------------------------------------
(* Reports.                                                                *)

LEMMA TotalsGrow ==
  ASSUME IInv, [SNext]_svars
  PROVE  /\ totalrecv \in Nat /\ totalrecv' \in Nat /\ totalrecv <= totalrecv'
         /\ totalsent \in Nat /\ totalsent' \in Nat /\ totalsent <= totalsent'
<1>0. totalrecv \in Nat /\ totalsent \in Nat
  BY DEF IInv, TypeOK, StoreTypeOK
<1>1. CASE CallEnds \/ UNCHANGED vars \/ Tick
  BY <1>0, <1>1 DEF CallEnds, vars, Tick, store
<1>2. CASE \E c \in Clients : Quiet(c)
  BY <1>0, <1>2, QuietFrame
<1>3. ASSUME NEW c \in Clients, ReceiveMessageEval(c) \/ PopMessageEval(c)
      PROVE  totalrecv' = totalrecv + 1 /\ totalsent' = totalsent
  BY <1>3 DEF ReceiveMessageEval, PopMessageEval, ReceiveScript, PopScript
<1>4. ASSUME NEW c \in Clients, SendMessageHIncrBy(c)
      PROVE  totalrecv' = totalrecv /\ totalsent' = totalsent + 1
  BY <1>4 DEF SendMessageHIncrBy
<1>5. ASSUME NEW c \in Clients,
             \/ CreateQueueHMSet(c) \/ CreateQueueSAdd(c) \/ SendMessageZAdd(c)
             \/ SendMessageHSet(c) \/ ChangeMessageVisibilityEval(c)
             \/ DeleteMessageZRem(c) \/ DeleteMessageHDel(c) \/ DeleteQueueDel(c)
             \/ DeleteQueueSRem(c) \/ SetQueueAttributesHSet(c) \/ Fail(c)
      PROVE  totalrecv' = totalrecv /\ totalsent' = totalsent
  BY <1>5
  DEF CreateQueueHMSet, CreateQueueSAdd, SendMessageZAdd, SendMessageHSet,
      ChangeMessageVisibilityEval, HideScript, DeleteMessageZRem, DeleteMessageHDel,
      DeleteQueueDel, DeleteQueueSRem, SetQueueAttributesHSet, Fail, store
<1> QED
  BY <1>0, <1>1, <1>2, <1>3, <1>4, <1>5, ServiceSteps, StepCases

ReportType ==
  [pc : {"idle", "hmget", "zcard", "zcount"}, t : Nat, recv : Nat \cup {Nil},
   sent : Nat \cup {Nil}, n : Nat, hidden : Nat]

(* Report b shows no smaller totals than report a, if both show any. *)
NoLess(a, b) ==
  a.recv # Nil /\ b.recv # Nil => a.recv <= b.recv /\ a.sent <= b.sent

Totals == [recv |-> totalrecv, sent |-> totalsent]

(* Report r, in progress, comes between the reader's last one, p, and what *)
(* the queue counts.                                                       *)
ReaderOK(r, p) ==
  /\ r.t <= now
  /\ r.recv = Nil <=> r.sent = Nil
  /\ p.recv = Nil <=> p.sent = Nil
  /\ NoLess(p, Totals)
  /\ r.pc \in {"zcard", "zcount"} => NoLess(p, r) /\ NoLess(r, Totals)

ReportInv ==
  /\ reading \in [Readers -> ReportType]
  /\ report \in [Readers -> ReportType]
  /\ \A o \in Readers : ReaderOK(reading[o], report[o])

LEMMA CountsAreNats ==
  ASSUME IInv, NEW t \in Nat
  PROVE  /\ Cardinality(Queued) \in Nat
         /\ Counted(t) \in Nat
         /\ t <= now => Cardinality({u \in Queued : zset[u] > Ms(now)}) <= Counted(t)
<1>1. IsFiniteSet(Uids) /\ Queued \subseteq Uids
  BY ReportsAssumption DEF Queued
<1> DEFINE S == {u \in Queued : zset[u] >= Ms(t)}
           H == {u \in Queued : zset[u] > Ms(now)}
<1>2. IsFiniteSet(Queued) /\ IsFiniteSet(S)
  BY <1>1, FS_Subset
<1>3. ASSUME t <= now
      PROVE  H \subseteq S
  <2>1. now \in Nat /\ zset \in [Uids -> Int \cup {Nil}]
    BY DEF IInv, TypeOK, StoreTypeOK
  <2>2. Ms(t) \in Int /\ Ms(now) \in Int /\ Ms(t) <= Ms(now)
    BY <1>3, <2>1, MsIsInt, MsMonotone
  <2>3. \A u \in Queued : zset[u] \in Int
    BY <2>1 DEF Queued
  <2> QED
    BY <2>2, <2>3
<1> QED
  BY <1>2, <1>3, FS_Subset, FS_CardinalityType DEF Counted

(* What happens to a reader's last report p when it becomes n. *)
Follows(p, n) ==
  /\ p.recv # Nil => n.recv # Nil /\ NoLess(p, n)
  /\ n # p => Cardinality({u \in Queued : zset[u] > Ms(now)}) <= n.hidden

LEMMA ReadersStep ==
  ASSUME IInv, ReportInv, NEW o \in Readers, UNCHANGED <<store, now>>, ReportNext(o)
  PROVE  \E r, p \in ReportType :
           /\ reading' = [reading EXCEPT ![o] = r]
           /\ report' = [report EXCEPT ![o] = p]
           /\ ReaderOK(r, p)
           /\ Follows(report[o], p)
<1> DEFINE r == reading[o]
           p == report[o]
<1>0. /\ reading \in [Readers -> ReportType] /\ report \in [Readers -> ReportType]
      /\ r \in ReportType /\ p \in ReportType /\ ReaderOK(r, p)
      /\ now \in Nat /\ Nil \notin Nat
      /\ Totals.recv = totalrecv /\ Totals.sent = totalsent
      /\ totalrecv \in Nat /\ totalsent \in Nat
  BY StoreAssumption DEF ReportInv, IInv, TypeOK, StoreTypeOK, Totals
<1>1. report = [report EXCEPT ![o] = p] /\ Follows(p, p)
  BY <1>0 DEF Follows, NoLess, ReportType, ReaderOK
<1>2. CASE GetQueueAttributesTime(o)
  <2> DEFINE n == [NoReport EXCEPT !.pc = "hmget", !.t = now]
  <2>1. n \in ReportType /\ n.t = now /\ n.recv = Nil /\ n.sent = Nil /\ n.pc = "hmget"
    BY <1>0 DEF NoReport, ReportType
  <2>2. reading' = [reading EXCEPT ![o] = n] /\ report' = report
    BY <1>2 DEF GetQueueAttributesTime
  <2>3. ReaderOK(n, p)
    BY <1>0, <2>1 DEF ReaderOK
  <2> QED
    BY <1>0, <1>1, <2>1, <2>2, <2>3
<1>3. CASE GetQueueAttributesHMGet(o)
  <2> DEFINE found == attrs # Nil
             n == [r EXCEPT !.pc = "zcard", !.recv = IF found THEN totalrecv ELSE Nil,
                            !.sent = IF found THEN totalsent ELSE Nil]
  <2>1. /\ n \in ReportType /\ n.t = r.t /\ n.pc = "zcard"
        /\ n.recv = (IF found THEN totalrecv ELSE Nil)
        /\ n.sent = (IF found THEN totalsent ELSE Nil)
    BY <1>0 DEF ReportType
  <2>2. reading' = [reading EXCEPT ![o] = n] /\ report' = report
    BY <1>3 DEF GetQueueAttributesHMGet
  <2>3. ReaderOK(n, p)
    BY <1>0, <2>1 DEF ReaderOK, NoLess
  <2> QED
    BY <1>0, <1>1, <2>1, <2>2, <2>3
<1>4. CASE GetQueueAttributesZCard(o)
  <2> DEFINE n == [r EXCEPT !.pc = "zcount", !.n = Cardinality(Queued)]
  <2>1. /\ n \in ReportType /\ n.t = r.t /\ n.pc = "zcount" /\ r.pc = "zcard"
        /\ n.recv = r.recv /\ n.sent = r.sent
    BY <1>0, <1>4, CountsAreNats DEF ReportType, GetQueueAttributesZCard, Reads
  <2>2. reading' = [reading EXCEPT ![o] = n] /\ report' = report
    BY <1>4 DEF GetQueueAttributesZCard
  <2>3. ReaderOK(n, p)
    BY <1>0, <2>1 DEF ReaderOK, NoLess
  <2> QED
    BY <1>0, <1>1, <2>1, <2>2, <2>3
<1>5. CASE GetQueueAttributesZCount(o)
  <2>1. NoReport \in ReportType /\ NoReport.t = 0 /\ NoReport.pc = "idle"
        /\ NoReport.recv = Nil /\ NoReport.sent = Nil
    BY DEF NoReport, ReportType
  <2>2. reading' = [reading EXCEPT ![o] = NoReport] /\ r.pc = "zcount"
    BY <1>5 DEF GetQueueAttributesZCount, Reads
  <2>3. CASE r.recv = Nil
    <3>1. report' = report
      BY <1>5, <2>3 DEF GetQueueAttributesZCount
    <3>2. ReaderOK(NoReport, p)
      BY <1>0, <2>1 DEF ReaderOK
    <3> QED
      BY <1>0, <1>1, <2>1, <2>2, <3>1, <3>2
  <2>4. CASE r.recv # Nil
    <3> DEFINE n == [r EXCEPT !.pc = "idle", !.hidden = Counted(r.t)]
    <3>1. report' = [report EXCEPT ![o] = n]
      BY <1>5, <2>4 DEF GetQueueAttributesZCount
    <3>2. r.t \in Nat /\ r.t <= now
      BY <1>0 DEF ReportType, ReaderOK
    <3>3. /\ n \in ReportType /\ n.hidden = Counted(r.t)
          /\ n.recv = r.recv /\ n.sent = r.sent
      BY <1>0, <3>2, CountsAreNats DEF ReportType
    <3>4. ReaderOK(NoReport, n)
      BY <1>0, <2>1, <2>2, <3>3 DEF ReaderOK, NoLess
    <3>5. Follows(p, n)
      BY <1>0, <2>2, <2>4, <3>2, <3>3, CountsAreNats DEF ReaderOK, Follows, NoLess
    <3> QED
      BY <2>1, <2>2, <3>1, <3>3, <3>4, <3>5
  <2> QED
    BY <2>3, <2>4
<1>6. CASE GetQueueAttributesResend(o)
  <2> DEFINE n == [r EXCEPT !.pc = "hmget"]
  <2>1. n \in ReportType /\ n.t = r.t /\ n.pc = "hmget" /\ n.recv = r.recv /\ n.sent = r.sent
    BY <1>0 DEF ReportType
  <2>2. reading' = [reading EXCEPT ![o] = n] /\ report' = report
    BY <1>6 DEF GetQueueAttributesResend
  <2>3. ReaderOK(n, p)
    BY <1>0, <2>1 DEF ReaderOK
  <2> QED
    BY <1>0, <1>1, <2>1, <2>2, <2>3
<1> QED
  BY <1>2, <1>3, <1>4, <1>5, <1>6 DEF ReportNext

LEMMA ReportInvStep ==
  ASSUME IInv, ReportInv, [SNext]_svars
  PROVE  ReportInv' /\ \A o \in Readers : Follows(report[o], report'[o])
<1>0. /\ reading \in [Readers -> ReportType] /\ report \in [Readers -> ReportType]
      /\ now \in Nat /\ now' \in Nat /\ now <= now'
      /\ Nil \notin Nat
  <2>1. now \in Nat /\ (now' = now \/ now' = now + 1)
    BY ServiceSteps, NowFrame DEF IInv, TypeOK, CallEnds, Tick
  <2> QED
    BY <2>1, StoreAssumption DEF ReportInv
<1>1. \A r, p \in ReportType : ReaderOK(r, p) => ReaderOK(r, p)'
  <2>1. /\ Totals.recv \in Nat /\ Totals'.recv \in Nat /\ Totals.recv <= Totals'.recv
        /\ Totals.sent \in Nat /\ Totals'.sent \in Nat /\ Totals.sent <= Totals'.sent
    BY TotalsGrow DEF Totals
  <2> SUFFICES ASSUME NEW r \in ReportType, NEW p \in ReportType, ReaderOK(r, p)
               PROVE  ReaderOK(r, p)'
    OBVIOUS
  <2>2. r.t \in Nat
    BY DEF ReportType
  <2>3. \A x \in {r, p} : (x.recv = Nil <=> x.sent = Nil) /\ NoLess(x, Totals) => NoLess(x, Totals')
    BY <1>0, <2>1 DEF NoLess, ReportType
  <2> QED
    BY <1>0, <2>2, <2>3 DEF ReaderOK
<1>2. \A o \in Readers : Follows(report[o], report[o])
  BY <1>0 DEF Follows, NoLess, ReportType, ReportInv, ReaderOK
<1>3. CASE UNCHANGED <<reading, report>>
  BY <1>0, <1>1, <1>2, <1>3 DEF ReportInv
<1>4. ASSUME NEW o \in Readers, ReportNext(o)
      PROVE  ReportInv' /\ \A x \in Readers : Follows(report[x], report'[x])
  <2>1. UNCHANGED <<store, now>>
    BY <1>4
    DEF ReportNext, GetQueueAttributesTime, GetQueueAttributesHMGet, GetQueueAttributesZCard,
        GetQueueAttributesZCount, GetQueueAttributesResend, vars
  <2>2. PICK r, p \in ReportType :
          /\ reading' = [reading EXCEPT ![o] = r]
          /\ report' = [report EXCEPT ![o] = p]
          /\ ReaderOK(r, p)
          /\ Follows(report[o], p)
    BY <1>4, <2>1, ReadersStep
  <2> QED
    BY <1>0, <1>1, <1>2, <2>2 DEF ReportInv
<1> QED
  BY <1>3, <1>4 DEF SNext, svars, repvars, SessionNext, ScriptsLost

LEMMA ReportsHold == SSpec => [](IInv /\ ReportInv)
<1>1. SInit => ReportInv
  BY InitIInv, StoreAssumption
  DEF SInit, ReportsInit, ReportInv, ReaderOK, NoLess, NoReport, ReportType, Init
<1>2. IInv /\ ReportInv /\ [SNext]_svars => ReportInv'
  BY ReportInvStep
<1> QED
  BY <1>1, <1>2, ServiceInvariance, PTL DEF SSpec

(* The totals one reader is shown never go back, though they are read in a *)
(* pipeline that may be sent again, and though the queue may be deleted,   *)
(* created again and reset between two reports.                            *)
THEOREM TotalsGoOn == SSpec => TotalsNeverGoBack
<1> DEFINE A == \A o \in Readers :
             report[o].recv # Nil =>
               report[o].recv <= report'[o].recv /\ report[o].sent <= report'[o].sent
<1>1. IInv /\ ReportInv /\ [SNext]_svars => [A]_repvars
  BY ReportInvStep DEF Follows, NoLess
<1>2. TotalsNeverGoBack <=> [][A]_repvars
  BY DEF TotalsNeverGoBack
<1> QED
  BY <1>1, <1>2, ReportsHold, PTL DEF SSpec

(* ZCOUNT from the time read first counts every message that is hidden     *)
(* when the report is made.                                                *)
THEOREM HiddenAreCounted == SSpec => NoHiddenMissed
<1> DEFINE A == \A o \in Readers :
             report'[o] # report[o] =>
               Cardinality({u \in Queued : zset[u] > Ms(now)}) <= report'[o].hidden
<1>1. IInv /\ ReportInv /\ [SNext]_svars => [A]_repvars
  BY ReportInvStep DEF Follows
<1>2. NoHiddenMissed <=> [][A]_repvars
  BY DEF NoHiddenMissed
<1> QED
  BY <1>1, <1>2, ReportsHold, PTL DEF SSpec

=============================================================================
