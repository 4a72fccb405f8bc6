---------------------------- MODULE WorkerProofs ----------------------------
(* That Worker deletes only what was handled, for any number of goroutines, *)
(* messages, failures and late contexts.                                    *)
EXTENDS Worker, TLAPS

USE DEF WorkerType

-----------------------------------------------------------------------------
(* What the steps of LeaseQueue that the worker takes do to the types.      *)
LEMMA QueueTypes ==
  ASSUME LTypeOK, NEW u \in Uids, Put(u) \/ Close(u) \/ Deliver(u) \/ Hide(u) \/ Remove(u)
  PROVE  LTypeOK'
BY DEF LTypeOK, Put, Close, Deliver, Hide, Remove, Status

(* Only Remove makes a message gone.                                        *)
LEMMA OnlyRemoveGone ==
  ASSUME LTypeOK, NEW u \in Uids, Put(u) \/ Close(u) \/ Deliver(u) \/ Hide(u)
  PROVE  \A v \in Uids : status'[v] = "gone" => status[v] = "gone"
BY DEF LTypeOK, Put, Close, Deliver, Hide, Status

LEMMA RemoveGone ==
  ASSUME LTypeOK, NEW u \in Uids, Remove(u)
  PROVE  \A v \in Uids : status'[v] = "gone" => v = u \/ status[v] = "gone"
BY DEF LTypeOK, Remove, Status

(* What Goes does, given where the goroutine goes.                          *)
LEMMA GoesSafe ==
  ASSUME WTypeOK, NEW w \in Goroutines, NEW ok \in BOOLEAN,
         NEW pc \in {"select", "deadlinePassed", "hide", "error", "delete"},
         worker[w].msg # NoMsg,
         Goes(w, pc, ok)
  PROVE  /\ worker' \in [Goroutines -> WorkerType]
         /\ \A v \in Goroutines :
              worker'[v].pc \in {"none", "select", "returned"} <=> worker'[v].msg = NoMsg
         /\ late' \subseteq {v \in Goroutines : worker'[v].msg # NoMsg}
         /\ \A v \in Goroutines \ {w} : worker'[v] = worker[v]
         /\ \/ worker'[w] = Free
            \/ /\ worker'[w].msg = worker[w].msg
               /\ worker'[w].ok = ok
               /\ worker'[w].pc = pc
<1>1. CASE pc = "select"
  <2>1. /\ worker' = [worker EXCEPT ![w] = Free]
        /\ late' = late \ {w}
    BY <1>1 DEF Goes
  <2>2. /\ Free.pc = "select" /\ Free.msg = NoMsg /\ Free.ok = FALSE
        /\ Free \in WorkerType
    BY DEF Free
  <2>3. /\ worker \in [Goroutines -> WorkerType]
        /\ late \subseteq {v \in Goroutines : worker[v].msg # NoMsg}
        /\ \A v \in Goroutines :
             worker[v].pc \in {"none", "select", "returned"} <=> worker[v].msg = NoMsg
    BY DEF WTypeOK
  <2>4. worker'[w] = Free /\ \A v \in Goroutines \ {w} : worker'[v] = worker[v]
    BY <2>1, <2>3
  <2> HIDE DEF Free
  <2> QED
    BY <2>1, <2>2, <2>3, <2>4
<1>2. CASE pc # "select"
  <2>1. /\ worker' = [worker EXCEPT ![w] = [@ EXCEPT !.pc = pc, !.ok = ok]]
        /\ late' = late
    BY <1>2 DEF Goes
  <2>2. worker[w] \in WorkerType
    BY DEF WTypeOK
  <2>3. /\ worker'[w].msg = worker[w].msg
        /\ worker'[w].ok = ok
        /\ worker'[w].pc = pc
        /\ worker'[w] \in WorkerType
    BY <2>1, <2>2 DEF WTypeOK
  <2> QED
    BY <1>2, <2>1, <2>3 DEF WTypeOK
<1> QED
  BY <1>1, <1>2

-----------------------------------------------------------------------------
(* The invariant: initially, and after every step.                          *)
LEMMA InitWInv == WInit => WInv
<1> SUFFICES ASSUME WInit PROVE WInv
  OBVIOUS
<1>1. LTypeOK
  BY DEF WInit, LInit, LTypeOK, Status
<1>2. WTypeOK
  <2>1. \A w \in Goroutines : worker[w] = [pc |-> "none", msg |-> NoMsg, ok |-> FALSE]
    BY DEF WInit, Free
  <2>2. worker \in [Goroutines -> WorkerType]
    BY DEF WInit, Free
  <2>3. faults \in 0..MaxFaults
    BY WorkerAssumption DEF WInit
  <2> QED
    BY <1>1, <2>1, <2>2, <2>3 DEF WInit, WTypeOK
<1>3. CarriesOk
  BY DEF WInit, CarriesOk, Free
<1>4. OnlyHandledIsGone
  BY DEF WInit, LInit, OnlyHandledIsGone
<1> QED
  BY <1>2, <1>3, <1>4 DEF WInv

(* A step that moves no goroutine and removes nothing keeps what the        *)
(* invariant says beyond types.                                             *)
LEMMA Unmoved ==
  ASSUME WInv, worker' = worker, done' = done,
         \A v \in Uids : status'[v] = "gone" => status[v] = "gone"
  PROVE  CarriesOk' /\ OnlyHandledIsGone'
BY DEF WInv, CarriesOk, OnlyHandledIsGone

LEMMA StartStep == WInv /\ Start => WInv'
<1> SUFFICES ASSUME WInv, Start PROVE WInv'
  OBVIOUS
<1>1. WTypeOK /\ OnlyHandledIsGone
  BY DEF WInv
<1>2. \A w \in Goroutines : worker'[w] = [pc |-> "select", msg |-> NoMsg, ok |-> FALSE]
  BY DEF Start, Free
<1>3. late' = {}
  BY <1>1 DEF Start, WTypeOK
<1>4. receiver' = [pc |-> "receive", msg |-> NoMsg]
  BY <1>1 DEF Start, WTypeOK
<1>5. WTypeOK'
  <2>1. worker' \in [Goroutines -> WorkerType]
    BY DEF Start, Free
  <2>2. LTypeOK'
    BY <1>1 DEF Start, absvars, WTypeOK, LTypeOK
  <2> QED
    BY <1>1, <1>2, <1>3, <1>4, <2>1, <2>2 DEF Start, WTypeOK
<1>6. CarriesOk'
  BY <1>2 DEF CarriesOk
<1>7. OnlyHandledIsGone'
  BY <1>1 DEF Start, absvars, OnlyHandledIsGone
<1> QED
  BY <1>5, <1>6, <1>7 DEF WInv

(* The environment.                                                         *)
LEMMA EnvironmentStep ==
  ASSUME WInv, NEW u \in Uids, Send(u) \/ SendEnds(u) \/ BecomesVisible(u)
  PROVE  WInv'
<1>0. WTypeOK /\ LTypeOK
  BY DEF WInv, WTypeOK
<1>1. LTypeOK' /\ \A v \in Uids : status'[v] = "gone" => status[v] = "gone"
  <2>1. CASE Send(u) \/ SendEnds(u)
    BY <1>0, <2>1, QueueTypes, OnlyRemoveGone DEF Send, SendEnds
  <2>2. CASE BecomesVisible(u)
    BY <1>0, <2>2 DEF BecomesVisible, Expire, LTypeOK, Status
  <2> QED
    BY <2>1, <2>2
<1>2. /\ worker' = worker /\ receiver' = receiver /\ main' = main /\ late' = late
      /\ closed' = closed /\ quitter' = quitter /\ done' = done
  BY DEF Send, SendEnds, BecomesVisible
<1>3. faults' \in 0..MaxFaults
  BY <1>0, WorkerAssumption DEF Send, SendEnds, BecomesVisible, Fault, WTypeOK
<1>4. WTypeOK'
  BY <1>0, <1>1, <1>2, <1>3 DEF WTypeOK
<1> QED
  BY <1>1, <1>2, <1>4, Unmoved DEF WInv

LEMMA DeadlineStep ==
  ASSUME WInv, NEW w \in Goroutines, DeadlinePasses(w)
  PROVE  WInv'
<1>0. WTypeOK
  BY DEF WInv
<1>1. /\ worker' = worker /\ receiver' = receiver /\ main' = main
      /\ closed' = closed /\ quitter' = quitter /\ done' = done
      /\ status' = status /\ open' = open /\ handed' = handed
  BY DEF DeadlinePasses, absvars
<1>2. late' \subseteq {v \in Goroutines : worker[v].msg # NoMsg}
  BY <1>0 DEF DeadlinePasses, WTypeOK
<1>3. faults' \in 0..MaxFaults
  BY <1>0, WorkerAssumption DEF DeadlinePasses, Fault, WTypeOK
<1>4. WTypeOK'
  BY <1>0, <1>1, <1>2, <1>3 DEF WTypeOK, LTypeOK
<1> QED
  BY <1>1, <1>4, Unmoved DEF WInv

(* The receiver.                                                            *)
LEMMA ReceivingStep ==
  ASSUME WInv, Receiving
  PROVE  WInv'
<1>0. WTypeOK /\ LTypeOK
  BY DEF WInv, WTypeOK
<1>1. /\ worker' = worker /\ main' = main /\ late' = late
      /\ closed' = closed /\ quitter' = quitter /\ done' = done
  BY DEF Receiving, ReceiveMessage, ReceiveRepeats, ReceiveNothing, ReceiveFails, Sleep
<1>2. LTypeOK' /\ \A v \in Uids : status'[v] = "gone" => status[v] = "gone"
  <2>1. CASE status' = status /\ open' = open /\ handed' = handed
    BY <1>0, <2>1 DEF LTypeOK
  <2>2. CASE \E u \in Uids : Deliver(u)
    BY <1>0, <2>2, QueueTypes, OnlyRemoveGone
  <2> QED
    BY <2>1, <2>2 DEF Receiving, ReceiveMessage, ReceiveRepeats, ReceiveNothing, ReceiveFails, Sleep, absvars
<1>3. faults' \in 0..MaxFaults
  BY <1>0, WorkerAssumption
  DEF Receiving, ReceiveMessage, ReceiveRepeats, ReceiveNothing, ReceiveFails, Sleep, Fault, WTypeOK
<1>4. /\ receiver' \in [pc : {"none", "receive", "offer", "sleep", "returned"},
                        msg : Uids \cup {NoMsg}]
      /\ receiver'.pc = "offer" <=> receiver'.msg # NoMsg
      /\ receiver.pc # "none" /\ receiver'.pc # "none"
  BY <1>0, WorkerAssumption
  DEF Receiving, ReceiveMessage, ReceiveRepeats, ReceiveNothing, ReceiveFails, Sleep, WTypeOK
<1>5. WTypeOK'
  BY <1>0, <1>1, <1>2, <1>3, <1>4 DEF WTypeOK
<1> QED
  BY <1>1, <1>2, <1>5, Unmoved DEF WInv

(* A goroutine takes the message the receiver offers.                       *)
LEMMA OfferStep ==
  ASSUME WInv, NEW w \in Goroutines, Offer(w)
  PROVE  WInv'
<1>0. WTypeOK /\ CarriesOk /\ OnlyHandledIsGone
  BY DEF WInv
<1>1. /\ receiver' = [pc |-> "sleep", msg |-> NoMsg]
      /\ worker'[w] = [pc |-> "message", msg |-> receiver.msg, ok |-> FALSE]
      /\ \A v \in Goroutines \ {w} : worker'[v] = worker[v]
  BY <1>0 DEF Offer, Free, WTypeOK
<1>2. receiver.msg \in Uids /\ receiver.msg # NoMsg
  BY <1>0 DEF Offer, WTypeOK
<1>3. worker' \in [Goroutines -> WorkerType]
  <2>1. DOMAIN worker' = Goroutines /\ worker' = [v \in Goroutines |-> worker'[v]]
    BY <1>0 DEF Offer, WTypeOK
  <2>2. \A v \in Goroutines :
          worker'[v] \in WorkerType
    <3>1. worker'[w] \in WorkerType
      BY <1>1, <1>2
    <3>2. \A v \in Goroutines \ {w} : worker'[v] = worker[v]
      BY <1>1
    <3> QED
      BY <1>0, <3>1, <3>2 DEF WTypeOK
  <2> QED
    BY <2>1, <2>2
<1>4. late' \subseteq {v \in Goroutines : worker'[v].msg # NoMsg}
  BY <1>0, <1>1, <1>2 DEF Offer, WTypeOK
<1>5. /\ main' = main /\ main # "new" /\ closed' = closed /\ quitter' = quitter
      /\ faults' = faults /\ done' = done
      /\ status' = status /\ open' = open /\ handed' = handed
  BY <1>0 DEF Offer, absvars, WTypeOK
<1>6. WTypeOK'
  BY <1>0, <1>1, <1>2, <1>3, <1>4, <1>5 DEF WTypeOK, LTypeOK
<1>7. CarriesOk' /\ OnlyHandledIsGone'
  BY <1>0, <1>1, <1>5 DEF CarriesOk, OnlyHandledIsGone
<1> QED
  BY <1>6, <1>7 DEF WInv

(* A goroutine goes on with the message it has in hand,                     *)
Moves(w) ==
  \/ HandlerMessage(w)
  \/ HandlerDeadlinePassed(w)
  \/ ChangeMessageVisibility(w)
  \/ HandlerError(w)
  \/ DeleteMessage(w)

LEMMA MovesStep ==
  ASSUME WInv, NEW w \in Goroutines, Moves(w)
  PROVE  WInv'
<1>0. WTypeOK /\ LTypeOK /\ CarriesOk /\ OnlyHandledIsGone
  BY DEF WInv, WTypeOK
<1>1. /\ worker[w].pc \in {"message", "deadlinePassed", "hide", "error", "delete"}
      /\ main' = main /\ receiver' = receiver /\ closed' = closed
      /\ quitter' = quitter
  BY DEF Moves, HandlerMessage, HandlerDeadlinePassed, ChangeMessageVisibility,
         HandlerError, DeleteMessage
<1>2. worker[w].msg \in Uids /\ worker[w].msg # NoMsg /\ worker[w].ok \in BOOLEAN
  BY <1>0, <1>1 DEF WTypeOK
(* The goroutine goes on with ok, and deletes or keeps ok only if the       *)
(* message is handled by then.                                              *)
<1>3. PICK pc \in {"select", "deadlinePassed", "hide", "error", "delete"}, ok \in BOOLEAN :
        /\ Goes(w, pc, ok)
        /\ ok \/ pc = "delete" => worker[w].msg \in done'
        /\ done \subseteq done' /\ done' \subseteq Uids
  <2>1. CASE HandlerMessage(w)
    <3>1. PICK ok \in BOOLEAN, err \in {"none", "deadline", "other"} :
            /\ Goes(w, CASE err = "deadline" -> "deadlinePassed"
                        [] err = "other"    -> "hide"
                        [] err = "none"     -> AfterHooks(ok), ok)
            /\ done' = IF ok THEN done \cup {worker[w].msg} ELSE done
      BY <2>1 DEF HandlerMessage
    <3>2. CASE err = "deadline"
      BY <1>0, <1>2, <3>1, <3>2 DEF WTypeOK
    <3>3. CASE err = "other"
      BY <1>0, <1>2, <3>1, <3>3 DEF WTypeOK
    <3>4. CASE err = "none"
      BY <1>0, <1>2, <3>1, <3>4 DEF AfterHooks, WTypeOK
    <3> QED
      BY <3>2, <3>3, <3>4
  <2>2. CASE HandlerDeadlinePassed(w) \/ HandlerError(w)
    BY <1>0, <1>2, <2>2
    DEF HandlerDeadlinePassed, HandlerError, AfterHooks, CarriesOk, WTypeOK
  <2>3. CASE ChangeMessageVisibility(w)
    BY <1>0, <1>2, <2>3 DEF ChangeMessageVisibility, CarriesOk, WTypeOK
  <2>4. CASE DeleteMessage(w)
    BY <1>0, <1>2, <2>4 DEF DeleteMessage, CarriesOk, WTypeOK
  <2> QED
    BY <2>1, <2>2, <2>3, <2>4 DEF Moves
<1>4. /\ worker' \in [Goroutines -> WorkerType]
      /\ \A v \in Goroutines :
           worker'[v].pc \in {"none", "select", "returned"} <=> worker'[v].msg = NoMsg
      /\ late' \subseteq {v \in Goroutines : worker'[v].msg # NoMsg}
      /\ \A v \in Goroutines \ {w} : worker'[v] = worker[v]
      /\ \/ worker'[w] = Free
         \/ worker'[w].msg = worker[w].msg /\ worker'[w].ok = ok /\ worker'[w].pc = pc
  BY <1>0, <1>2, <1>3, GoesSafe
<1>5. \/ worker'[w].pc = "select" /\ ~worker'[w].ok
      \/ worker'[w].msg = worker[w].msg /\ worker'[w].ok = ok /\ worker'[w].pc = pc
  BY <1>4 DEF Free
(* The queue: a message that leaves it is the one in hand, at the delete.   *)
<1>6. /\ LTypeOK'
      /\ \A v \in Uids : status'[v] = "gone" =>
           status[v] = "gone" \/ (v = worker[w].msg /\ worker[w].pc = "delete")
  <2>1. CASE status' = status /\ open' = open /\ handed' = handed
    BY <1>0, <2>1 DEF LTypeOK
  <2>2. CASE Hide(worker[w].msg)
    BY <1>0, <1>2, <2>2, QueueTypes, OnlyRemoveGone
  <2>3. CASE Remove(worker[w].msg) /\ worker[w].pc = "delete"
    BY <1>0, <1>2, <2>3, QueueTypes, RemoveGone
  <2> QED
    BY <2>1, <2>2, <2>3
    DEF Moves, HandlerMessage, HandlerDeadlinePassed, ChangeMessageVisibility,
        HandlerError, DeleteMessage, absvars
<1>7. faults' \in 0..MaxFaults
  <2>1. faults' = faults \/ Fault
    BY DEF Moves, HandlerMessage, HandlerDeadlinePassed, ChangeMessageVisibility,
           HandlerError, DeleteMessage
  <2> QED
    BY <1>0, <2>1, WorkerAssumption DEF Fault, WTypeOK
<1>8. WTypeOK'
  <2>1. \A v \in Goroutines : main' = "new" <=> worker'[v].pc = "none"
    BY <1>0, <1>1, <1>3, <1>4, <1>5 DEF WTypeOK
  <2> QED
    BY <1>0, <1>1, <1>3, <1>4, <1>6, <1>7, <2>1 DEF WTypeOK
<1>9. CarriesOk'
  BY <1>0, <1>3, <1>4, <1>5 DEF CarriesOk
<1>10. OnlyHandledIsGone'
  BY <1>0, <1>3, <1>6 DEF OnlyHandledIsGone, CarriesOk
<1> QED
  BY <1>8, <1>9, <1>10 DEF WInv

(* or stays where it is while go-redis repeats its command.                 *)
LEMMA RepeatStep ==
  ASSUME WInv, NEW w \in Goroutines,
         ChangeMessageVisibilityRepeats(w) \/ DeleteMessageRepeats(w)
  PROVE  WInv'
<1>0. WTypeOK /\ LTypeOK /\ CarriesOk /\ OnlyHandledIsGone
  BY DEF WInv, WTypeOK
<1>1. /\ worker' = worker /\ receiver' = receiver /\ main' = main /\ late' = late
      /\ closed' = closed /\ quitter' = quitter /\ done' = done
      /\ worker[w].pc \in {"hide", "delete"}
  BY DEF ChangeMessageVisibilityRepeats, DeleteMessageRepeats
<1>2. worker[w].msg \in Uids
  BY <1>0, <1>1 DEF WTypeOK
<1>3. faults' \in 0..MaxFaults
  BY <1>0, WorkerAssumption
  DEF ChangeMessageVisibilityRepeats, DeleteMessageRepeats, Fault, WTypeOK
<1>4. /\ LTypeOK'
      /\ \A v \in Uids : status'[v] = "gone" =>
           status[v] = "gone" \/ (v = worker[w].msg /\ worker[w].pc = "delete")
  <2>1. CASE Hide(worker[w].msg)
    BY <1>0, <1>2, <2>1, QueueTypes, OnlyRemoveGone
  <2>2. CASE Remove(worker[w].msg) /\ worker[w].pc = "delete"
    BY <1>0, <1>2, <2>2, QueueTypes, RemoveGone
  <2> QED
    BY <2>1, <2>2 DEF ChangeMessageVisibilityRepeats, DeleteMessageRepeats
<1>5. WTypeOK'
  BY <1>0, <1>1, <1>3, <1>4 DEF WTypeOK
<1>6. CarriesOk' /\ OnlyHandledIsGone'
  BY <1>0, <1>1, <1>4 DEF CarriesOk, OnlyHandledIsGone
<1> QED
  BY <1>5, <1>6 DEF WInv

-----------------------------------------------------------------------------
(* Quit.                                                                    *)
LEMMA QuitStep ==
  ASSUME WInv, NEW c \in Quitters, Quit(c) \/ QuitTakenByStart(c)
  PROVE  WInv'
<1>0. WTypeOK
  BY DEF WInv
<1>1. /\ worker' = worker /\ receiver' = receiver /\ late' = late /\ faults' = faults
      /\ done' = done
      /\ status' = status /\ open' = open /\ handed' = handed
  BY DEF Quit, QuitTakenByStart, absvars
<1>2. /\ main' \in {"new", "blocked", "returned"} /\ (main' = "new" <=> main = "new")
      /\ closed' \in BOOLEAN
  BY <1>0 DEF Quit, QuitTakenByStart, WTypeOK
<1>3. quitter' \in [Quitters -> {"idle", "sending", "returned", "failed"}]
  BY <1>0 DEF Quit, QuitTakenByStart, WTypeOK
<1>4. WTypeOK'
  BY <1>0, <1>1, <1>2, <1>3 DEF WTypeOK, LTypeOK
<1> QED
  BY <1>1, <1>4, Unmoved DEF WInv

LEMMA QuitWorkerStep ==
  ASSUME WInv, NEW c \in Quitters, NEW w \in Goroutines, QuitTakenByWorker(c, w)
  PROVE  WInv'
<1>0. WTypeOK /\ CarriesOk /\ OnlyHandledIsGone
  BY DEF WInv
<1>1. /\ receiver' = receiver /\ main' = main /\ late' = late /\ faults' = faults
      /\ done' = done /\ closed' = closed
      /\ status' = status /\ open' = open /\ handed' = handed
      /\ worker[w].pc = "select"
      /\ worker' = [worker EXCEPT ![w].pc = "returned"]
  BY DEF QuitTakenByWorker, absvars
<1>2. /\ worker' \in [Goroutines -> WorkerType]
      /\ worker'[w].pc = "returned"
      /\ \A v \in Goroutines : worker'[v].msg = worker[v].msg /\ worker'[v].ok = worker[v].ok
      /\ \A v \in Goroutines \ {w} : worker'[v] = worker[v]
  BY <1>0, <1>1 DEF WTypeOK
<1>3. quitter' \in [Quitters -> {"idle", "sending", "returned", "failed"}]
  BY <1>0 DEF QuitTakenByWorker, WTypeOK
<1>4. WTypeOK'
  BY <1>0, <1>1, <1>2, <1>3 DEF WTypeOK, LTypeOK
<1>5. CarriesOk' /\ OnlyHandledIsGone'
  BY <1>0, <1>1, <1>2 DEF CarriesOk, OnlyHandledIsGone
<1> QED
  BY <1>4, <1>5 DEF WInv

LEMMA NextWInv == WInv /\ [WNext]_wvars => WInv'
<1> SUFFICES ASSUME WInv, [WNext]_wvars PROVE WInv'
  OBVIOUS
<1>1. CASE Start
  BY <1>1, StartStep
<1>2. CASE Receiving
  BY <1>2, ReceivingStep
<1>3. CASE \E u \in Uids : Send(u) \/ SendEnds(u) \/ BecomesVisible(u)
  BY <1>3, EnvironmentStep
<1>4. CASE \E w \in Goroutines : Offer(w) \/ DeadlinePasses(w) \/ Handling(w)
  BY <1>4, OfferStep, DeadlineStep, MovesStep, RepeatStep DEF Handling, Moves
<1>5. CASE \E c \in Quitters : Quit(c) \/ QuitTaken(c)
  BY <1>5, QuitStep, QuitWorkerStep DEF QuitTaken
<1>6. CASE UNCHANGED wvars
  BY <1>6 DEF wvars, absvars, WInv, WTypeOK, LTypeOK, CarriesOk, OnlyHandledIsGone
<1> QED
  BY <1>1, <1>2, <1>3, <1>4, <1>5, <1>6 DEF WNext

(* Types, and that the receiver offers a message and a goroutine holds one  *)
(* exactly where the code says so, in every reachable state.                *)
THEOREM WorkerTyping == WSpec => []WTypeOK
<1>1. WInv => WTypeOK
  BY DEF WInv
<1> QED
  BY <1>1, InitWInv, NextWInv, PTL DEF WSpec

(* The worker deletes only messages that a handler reported ok, whatever    *)
(* fails, runs late or is closed in between.                                *)
THEOREM HandledBeforeGone == WSpec => []OnlyHandledIsGone
<1>1. WInv => OnlyHandledIsGone
  BY DEF WInv
<1> QED
  BY <1>1, InitWInv, NextWInv, PTL DEF WSpec

=============================================================================
