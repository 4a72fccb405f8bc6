---------------------------- MODULE RsmqPromise -----------------------------
(***************************************************************************)
(* Rsmq implements LeaseQueue: the initial states map to initial states    *)
(* and every step to a step of LeaseQueue or to one it does not see.       *)
(***************************************************************************)
EXTENDS RsmqProofs

(* A step in which no message moves or is handed out is not seen.          *)
LEMMA Unseen ==
  ASSUME zset' = zset, now' = now,
         \A u \in Uids : hist'[u].st = hist[u].st /\ hist'[u].got = hist[u].got
  PROVE  UNCHANGED Promise!absvars
<1>1. \A u \in Uids : StatusOf(u)' = StatusOf(u)
  BY DEF StatusOf, Ms
<1> QED
  BY <1>1 DEF Promise!absvars

(* A step that moves one message changes the status of that message only.  *)
LEMMA OneMoves ==
  ASSUME NEW u \in Uids, now' = now,
         \A v \in Uids \ {u} : zset'[v] = zset[v] /\ hist'[v].st = hist[v].st
  PROVE  [v \in Uids |-> StatusOf(v)]' =
           [[v \in Uids |-> StatusOf(v)] EXCEPT ![u] = StatusOf(u)']
<1>1. \A v \in Uids \ {u} : StatusOf(v)' = StatusOf(v)
  BY DEF StatusOf, Ms
<1> QED
  BY <1>1

LEMMA InitPromise == Init => Promise!LInit
  BY DEF Init, StoreInit, NoField, StatusOf, Promise!LInit

LEMMA NextPromise ==
  ASSUME IInv, [Next]_vars
  PROVE  [Promise!LNext]_(Promise!absvars)
<1>0. /\ hist \in [Uids -> HistType]
      /\ zset \in [Uids -> Int \cup {Nil}]
      /\ call \in [Clients -> CallType]
      /\ \A c \in Clients : CallOK(call[c], now) /\ PlaceOK(call[c], hist)
      /\ now \in Nat
      /\ StoredInv
  BY DEF IInv, TypeOK, StoreTypeOK, CallInv, SenderInv
<1>1. CASE UNCHANGED vars
  BY <1>1, Unseen DEF vars, store
<1>2. CASE Tick
  <2> DEFINE S == {u \in Uids : zset[u] # Nil /\ Ms(now) < zset[u] /\ zset[u] <= Ms(now')}
  <2>1. zset' = zset /\ hist' = hist /\ now' \in Nat
    BY <1>0, <1>2 DEF Tick, store
  <2>2. Ms(now) \in Int /\ Ms(now') \in Int /\ Ms(now) <= Ms(now')
    BY <1>0, <1>2, MsIsInt, MsMonotone DEF Tick
  <2>3. ASSUME NEW u \in Uids
        PROVE  /\ u \in S => StatusOf(u) = "hidden"
               /\ StatusOf(u)' = IF u \in S THEN "visible" ELSE StatusOf(u)
    <3>1. StatusOf(u)' = IF zset[u] # Nil THEN (IF zset[u] <= Ms(now') THEN "visible" ELSE "hidden")
                         ELSE IF hist[u].st = "unsent" THEN "unsent" ELSE "gone"
      BY <2>1 DEF StatusOf, Ms
    <3> QED
      BY <1>0, <2>2, <3>1 DEF StatusOf
  <2>4. Promise!Expire
    BY <2>1, <2>3 DEF Promise!Expire
  <2> QED
    BY <2>4 DEF Promise!LNext
<1>3. ASSUME NEW c \in Clients, Quiet(c)
      PROVE  UNCHANGED Promise!absvars
  BY <1>3, QuietFrame, Unseen
<1>4. ASSUME NEW c \in Clients,
             \/ CreateQueueHMSet(c) \/ CreateQueueSAdd(c) \/ SendMessageHSet(c)
             \/ DeleteMessageHDel(c) \/ DeleteQueueSRem(c) \/ SetQueueAttributesHSet(c)
      PROVE  UNCHANGED Promise!absvars
  BY <1>4, Unseen
  DEF CreateQueueHMSet, CreateQueueSAdd, SendMessageHSet, DeleteMessageHDel, DeleteQueueSRem,
      SetQueueAttributesHSet
<1>5. ASSUME NEW c \in Clients, SendMessageZAdd(c)
      PROVE  Promise!LNext
  <2>0. PICK u \in Uids : u = call[c].uid
    BY <1>5, CallOfOp DEF SendMessageZAdd, At
  <2>1. /\ u \in Uids /\ hist[u].st \in {"unsent", "sending"} /\ SendScore(call[c]) \in Int
    BY <1>0, <1>5, <2>0, CallOfOp, TimesAreInts DEF SendMessageZAdd, At, CallOK, PlaceOK
  <2>2. /\ now' = now /\ zset'[u] \in Int
        /\ hist'[u].st = "sending"
        /\ \A v \in Uids : hist'[v].got = hist[v].got
        /\ \A v \in Uids \ {u} : zset'[v] = zset[v] /\ hist'[v].st = hist[v].st
    BY <1>0, <1>5, <2>0, <2>1 DEF SendMessageZAdd, HistType
  <2>3. StatusOf(u)' \in {"visible", "hidden"}
    BY <2>2, StoreAssumption DEF StatusOf
  <2>4. StatusOf(u) = "unsent" \/ hist[u].st = "sending"
    BY <1>0, <2>1 DEF StatusOf, StoredInv
  <2>5. [v \in Uids |-> StatusOf(v)]' = [[v \in Uids |-> StatusOf(v)] EXCEPT ![u] = StatusOf(u)']
    BY <2>1, <2>2, OneMoves
  <2>6. {v \in Uids : hist[v].st = "sending"}' = {v \in Uids : hist[v].st = "sending"} \cup {u}
    BY <2>1, <2>2
  <2>7. Promise!Put(u)
    BY <2>1, <2>2, <2>3, <2>4, <2>5, <2>6 DEF Promise!Put
  <2> QED
    BY <2>1, <2>7 DEF Promise!LNext
<1>6. ASSUME NEW c \in Clients, SendMessageHIncrBy(c) \/ Fail(c)
      PROVE  [Promise!LNext]_(Promise!absvars)
  <2>1. zset' = zset /\ now' = now
    BY <1>6 DEF SendMessageHIncrBy, Fail, store
  <2>2. CASE hist' = hist
    BY <2>1, <2>2, Unseen
  <2>3. ASSUME NEW u \in Uids, NEW s \in {"sent", "failed"},
               hist[u].st = "sending", hist' = [hist EXCEPT ![u].st = s]
        PROVE  Promise!LNext
    <3>1. /\ hist'[u].st = s
          /\ \A v \in Uids : hist'[v].got = hist[v].got
          /\ \A v \in Uids \ {u} : hist'[v].st = hist[v].st
      BY <1>0, <2>3 DEF HistType
    <3>2. \A v \in Uids : StatusOf(v)' = StatusOf(v)
      BY <2>1, <2>3, <3>1 DEF StatusOf, Ms
    <3>3. {v \in Uids : hist[v].st = "sending"}' = {v \in Uids : hist[v].st = "sending"} \ {u}
      BY <3>1
    <3>4. Promise!Close(u)
      BY <3>1, <3>2, <3>3 DEF Promise!Close
    <3> QED
      BY <3>4 DEF Promise!LNext
  <2>4. call[c].op = "SendMessage" => call[c].uid \in Uids
    BY <1>0 DEF CallOK
  <2>5. SendMessageHIncrBy(c) => call[c].op = "SendMessage" /\ hist[call[c].uid].st = "sending"
    BY <1>0 DEF SendMessageHIncrBy, At, PlaceOK
  <2> QED
    BY <1>6, <2>2, <2>3, <2>4, <2>5 DEF SendMessageHIncrBy, Fail
<1>7. ASSUME NEW c \in Clients, ReceiveMessageEval(c) \/ PopMessageEval(c)
      PROVE  Promise!LNext
  <2>1. PICK u \in Uids :
          /\ IsNext(u, TimeSentUnix(call[c]))
          /\ \A v \in Uids \ {u} : zset'[v] = zset[v]
          /\ now' = now
          /\ \E f \in Fates : hist' = Handed(u, TimeSentUnix(call[c]), f)
          /\ PopMessageEval(c) => zset'[u] = Nil
          /\ ReceiveMessageEval(c) => zset'[u] # Nil
    <3>1. TimeVisibilityExpiresUnix(call[c], call[c].vt) # Nil
      BY <1>7, CallOfOp, TimesAreInts, StoreAssumption DEF ReceiveMessageEval, PopMessageEval, At
    <3>2. CASE ReceiveMessageEval(c)
      BY <1>0, <3>1, <3>2 DEF ReceiveMessageEval, ReceiveScript, HistType, PopMessageEval, At
    <3>3. CASE PopMessageEval(c)
      BY <1>0, <3>3 DEF PopMessageEval, PopScript, Fates, ReceiveMessageEval, At
    <3> QED
      BY <1>7, <3>2, <3>3
  <2>2. /\ hist'[u].st = hist[u].st /\ hist'[u].got = hist[u].got + 1
        /\ \A v \in Uids \ {u} : hist'[v] = hist[v]
    BY <1>0, <2>1 DEF Handed, HistType
  <2>3. zset[u] # Nil /\ zset[u] \in Int /\ zset[u] <= Ms(call[c].t)
    BY <1>0, <2>1 DEF IsNext, Visible, TimeSentUnix
  <2>4. Ms(call[c].t) <= Ms(now) /\ Ms(call[c].t) \in Int /\ Ms(now) \in Int
    <3>1. call[c].t \in Nat /\ call[c].t <= now
      BY <1>0 DEF CallOK, CallType
    <3> QED
      BY <1>0, <3>1, MsIsInt, MsMonotone
  <2>5. StatusOf(u) = "visible"
    BY <2>3, <2>4 DEF StatusOf
  <2>6. [v \in Uids |-> StatusOf(v)]' = [[v \in Uids |-> StatusOf(v)] EXCEPT ![u] = StatusOf(u)']
    BY <2>1, <2>2, OneMoves
  <2>7. [v \in Uids |-> hist[v].got]' = [[v \in Uids |-> hist[v].got] EXCEPT ![u] = hist[u].got + 1]
    BY <2>2
  <2>8. {v \in Uids : hist[v].st = "sending"}' = {v \in Uids : hist[v].st = "sending"}
    BY <2>2
  <2>9. hist[u].st # "unsent"
    BY <1>0, <2>3 DEF StoredInv
  <2>10. CASE ReceiveMessageEval(c)
    <3>1. StatusOf(u)' \in {"visible", "hidden"}
      BY <2>1, <2>10 DEF StatusOf
    <3>2. Promise!Deliver(u)
      BY <2>5, <2>6, <2>7, <2>8, <3>1 DEF Promise!Deliver
    <3> QED
      BY <3>2 DEF Promise!LNext
  <2>11. CASE PopMessageEval(c)
    <3>1. StatusOf(u)' = "gone"
      BY <2>1, <2>2, <2>9, <2>11 DEF StatusOf
    <3>2. Promise!Take(u)
      BY <2>5, <2>6, <2>7, <2>8, <3>1 DEF Promise!Take
    <3> QED
      BY <3>2 DEF Promise!LNext
  <2> QED
    BY <1>7, <2>10, <2>11
<1>8. ASSUME NEW c \in Clients, ChangeMessageVisibilityEval(c)
      PROVE  [Promise!LNext]_(Promise!absvars)
  <2>0. PICK u \in Uids : u = call[c].uid
    BY <1>8, CallOfOp DEF ChangeMessageVisibilityEval, At
  <2>1. /\ u \in Uids
        /\ TimeVisibilityExpiresUnix(call[c], call[c].vt) \in Int
        /\ hist' = hist /\ now' = now
    BY <1>8, CallOfOp, TimesAreInts DEF ChangeMessageVisibilityEval, At
  <2>2. CASE zset[u] = Nil
    BY <1>8, <2>0, <2>1, <2>2, Unseen DEF ChangeMessageVisibilityEval, HideScript
  <2>3. CASE zset[u] # Nil
    <3>1. zset'[u] # Nil /\ \A v \in Uids \ {u} : zset'[v] = zset[v]
      BY <1>0, <1>8, <2>0, <2>1, <2>3, StoreAssumption DEF ChangeMessageVisibilityEval, HideScript
    <3>2. StatusOf(u) \in {"visible", "hidden"} /\ StatusOf(u)' \in {"visible", "hidden"}
      BY <2>3, <3>1 DEF StatusOf
    <3>3. [v \in Uids |-> StatusOf(v)]' = [[v \in Uids |-> StatusOf(v)] EXCEPT ![u] = StatusOf(u)']
      BY <2>1, <3>1, OneMoves
    <3>4. Promise!Hide(u)
      BY <2>1, <3>2, <3>3 DEF Promise!Hide, Promise!Queued
    <3> QED
      BY <2>1, <3>4 DEF Promise!LNext
  <2> QED
    BY <2>2, <2>3
<1>9. ASSUME NEW c \in Clients, DeleteMessageZRem(c)
      PROVE  [Promise!LNext]_(Promise!absvars)
  <2>0. PICK u \in Uids : u = call[c].uid
    BY <1>9, CallOfOp DEF DeleteMessageZRem, At
  <2>1. /\ u \in Uids /\ now' = now
        /\ \A v \in Uids : hist'[v].st = hist[v].st /\ hist'[v].got = hist[v].got
        /\ zset' = [zset EXCEPT ![u] = Nil]
    BY <1>0, <1>9, <2>0 DEF DeleteMessageZRem, At, HistType
  <2>2. CASE zset[u] = Nil
    <3>1. zset' = zset
      BY <1>0, <2>1, <2>2
    <3> QED
      BY <2>1, <3>1, Unseen
  <2>3. CASE zset[u] # Nil
    <3>1. StatusOf(u) \in {"visible", "hidden"}
      BY <2>3 DEF StatusOf
    <3>2. StatusOf(u)' = "gone"
      BY <1>0, <2>1, <2>3 DEF StatusOf, StoredInv
    <3>3. [v \in Uids |-> StatusOf(v)]' = [[v \in Uids |-> StatusOf(v)] EXCEPT ![u] = StatusOf(u)']
      BY <1>0, <2>1, OneMoves
    <3>4. Promise!Remove(u)
      BY <2>1, <3>1, <3>2, <3>3 DEF Promise!Remove, Promise!Queued
    <3> QED
      BY <2>1, <3>4 DEF Promise!LNext
  <2> QED
    BY <2>2, <2>3
<1>10. ASSUME NEW c \in Clients, DeleteQueueDel(c)
       PROVE  Promise!LNext
  <2>1. /\ \A v \in Uids : hist'[v].st = hist[v].st /\ hist'[v].got = hist[v].got
        /\ \A v \in Uids : zset'[v] = Nil
    BY <1>0, <1>10 DEF DeleteQueueDel, HistType, NoField
  <2>2. ASSUME NEW u \in Uids
        PROVE  StatusOf(u)' = IF StatusOf(u) \in {"visible", "hidden"} THEN "gone" ELSE StatusOf(u)
    BY <1>0, <2>1 DEF StatusOf, StoredInv
  <2>3. Promise!Clear
    BY <2>1, <2>2 DEF Promise!Clear, Promise!Queued
  <2> QED
    BY <2>3 DEF Promise!LNext
<1> QED
  BY <1>1, <1>2, <1>3, <1>4, <1>5, <1>6, <1>7, <1>8, <1>9, <1>10, StepCases

(* The library, with pipelines that are not transactions, times read       *)
(* before they are used and commands sent twice, keeps the promise of      *)
(* LeaseQueue: only a visible message is handed out, and one that left the *)
(* queue after its send ended does not come back.                          *)
THEOREM Refinement == Spec => KeepsPromise
<1>1. IInv /\ [Next]_vars => [Promise!LNext]_(Promise!absvars)
  BY NextPromise
<1> QED
  BY InitPromise, <1>1, Invariance, PTL DEF Spec, KeepsPromise, Promise!LSpec

=============================================================================
