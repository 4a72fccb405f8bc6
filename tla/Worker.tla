------------------------------- MODULE Worker -------------------------------
(***************************************************************************)
(* worker.Worker on one queue: Start runs a receiver goroutine and ten     *)
(* goroutines that handle messages; they meet on the unbuffered channels   *)
(* work and quit.  The queue is LeaseQueue, which Rsmq implements: the     *)
(* worker's calls to the library are steps of it.                          *)
(*                                                                         *)
(* The handler is external: it returns any answer, in time or not.         *)
(***************************************************************************)
EXTENDS LeaseQueue, FiniteSets

CONSTANTS
  Goroutines,   \* the goroutines that handle messages
  Quitters,     \* callers of Quit, each calls it once
  NoMsg,        \* no message
  MaxFaults     \* bound: commands and handlers that fail, and leases and
                \* contexts that run out with a message in hand

ASSUME WorkerAssumption ==
  /\ IsFiniteSet(Goroutines)
  /\ NoMsg \notin Uids
  /\ MaxFaults \in Nat

VARIABLES
  main,       \* the goroutine that called Start
  receiver,   \* the receiver goroutine, and the message it offers
  worker,     \* each handling goroutine: where it is, its msg, and ok
  late,       \* the goroutines whose context's deadline has passed
  closed,     \* the Redis client is closed
  quitter,    \* the callers of Quit
  faults,     \* failures so far, and leases and contexts that ran out in hand
  done        \* messages whose handler returned ok; only properties read it

wvars == <<absvars, main, receiver, worker, late, closed, quitter, faults, done>>

WorkerType ==
  [pc : {"none", "select", "message", "deadlinePassed", "hide", "error", "delete",
         "returned"},
   msg : Uids \cup {NoMsg}, ok : BOOLEAN]

Free == [pc |-> "select", msg |-> NoMsg, ok |-> FALSE]

(* Types, and: nothing runs before Start, the channel never carries nil,   *)
(* and a goroutine has a message exactly while it handles one.             *)
WTypeOK ==
  /\ LTypeOK
  /\ main \in {"new", "blocked", "returned"}
  /\ receiver \in [pc : {"none", "receive", "offer", "sleep", "returned"},
                   msg : Uids \cup {NoMsg}]
  /\ worker \in [Goroutines -> WorkerType]
  /\ main = "new" <=> receiver.pc = "none"
  /\ \A w \in Goroutines : main = "new" <=> worker[w].pc = "none"
  /\ receiver.pc = "offer" <=> receiver.msg # NoMsg
  /\ \A w \in Goroutines :
       worker[w].pc \in {"none", "select", "returned"} <=> worker[w].msg = NoMsg
  /\ late \subseteq {w \in Goroutines : worker[w].msg # NoMsg}
  /\ closed \in BOOLEAN
  /\ quitter \in [Quitters -> {"idle", "sending", "returned", "failed"}]
  /\ faults \in 0..MaxFaults
  /\ done \subseteq Uids

WInit ==
  /\ LInit
  /\ main = "new"
  /\ receiver = [pc |-> "none", msg |-> NoMsg]
  /\ worker = [w \in Goroutines |-> [Free EXCEPT !.pc = "none"]]
  /\ late = {}
  /\ closed = FALSE
  /\ quitter = [c \in Quitters |-> "idle"]
  /\ faults = 0
  /\ done = {}

Start ==
  /\ main = "new"
  /\ main' = "blocked"
  /\ receiver' = [receiver EXCEPT !.pc = "receive"]
  /\ worker' = [w \in Goroutines |-> Free]
  /\ UNCHANGED <<absvars, late, closed, quitter, faults, done>>

-----------------------------------------------------------------------------
(* The environment: senders, time, and failures.                           *)

InHand(u) == receiver.msg = u \/ \E w \in Goroutines : worker[w].msg = u

Fault ==
  /\ faults < MaxFaults
  /\ faults' = faults + 1

(* A pipeline whose reply is lost is sent again. *)
Send(u) ==
  /\ Put(u)
  /\ (status[u] = "unsent" /\ UNCHANGED faults) \/ Fault
  /\ UNCHANGED <<main, receiver, worker, late, closed, quitter, done>>

SendEnds(u) ==
  /\ u \in open
  /\ Close(u)
  /\ UNCHANGED <<main, receiver, worker, late, closed, quitter, faults, done>>

(* A delay or a lease is over by Redis's clock. *)
BecomesVisible(u) ==
  /\ status[u] = "hidden"
  /\ Expire
  /\ status' = [status EXCEPT ![u] = "visible"]
  /\ IF InHand(u) THEN Fault ELSE UNCHANGED faults
  /\ UNCHANGED <<main, receiver, worker, late, closed, quitter, done>>

(* The deadline of the handler's context passes by this process's clock,   *)
(* before or after the lease is over by Redis's.                           *)
DeadlinePasses(w) ==
  /\ worker[w].msg # NoMsg
  /\ w \notin late
  /\ Fault
  /\ late' = late \cup {w}
  /\ UNCHANGED <<absvars, main, receiver, worker, closed, quitter, done>>

-----------------------------------------------------------------------------
(* The receiver.  It hides a message for the queue's visibility timeout.   *)
(* New sets that to the default but does not look at the error: a timeout  *)
(* that is over at once, for the queue has none or the call read the clock *)
(* long ago, counts as a fault.  A call that read the clock too early      *)
(* finds nothing.                                                          *)

ReceiveMessage(u) ==
  /\ receiver.pc = "receive"
  /\ ~closed
  /\ Deliver(u)
  /\ IF status'[u] = "hidden" THEN UNCHANGED faults ELSE Fault
  /\ receiver' = [pc |-> "offer", msg |-> u]
  /\ UNCHANGED <<main, worker, late, closed, quitter, done>>

(* The script ran, its reply is lost, and go-redis runs it again: the next *)
(* run returns another message, or none.                                   *)
ReceiveRepeats(u) ==
  /\ receiver.pc = "receive"
  /\ ~closed
  /\ Deliver(u)
  /\ Fault
  /\ UNCHANGED <<main, receiver, worker, late, closed, quitter, done>>

(* Mutant: without `if message != nil`. *)
ReceiveNothing_offers ==
  /\ receiver.pc = "receive"
  /\ ~closed
  /\ (UNCHANGED faults /\ \A u \in Uids : status[u] # "visible") \/ Fault
  /\ receiver' = [receiver EXCEPT !.pc = "offer"]
  /\ UNCHANGED <<absvars, main, worker, late, closed, quitter, done>>

ReceiveNothing ==
  /\ receiver.pc = "receive"
  /\ ~closed
  /\ (UNCHANGED faults /\ \A u \in Uids : status[u] # "visible") \/ Fault
  /\ receiver' = [receiver EXCEPT !.pc = "sleep"]
  /\ UNCHANGED <<absvars, main, worker, late, closed, quitter, done>>

(* Any error ends the goroutine: the client is closed, the call failed     *)
(* before or after the script ran, or the message had no text yet.         *)
ReceiveFails ==
  /\ receiver.pc = "receive"
  /\ receiver' = [receiver EXCEPT !.pc = "returned"]
  /\ \/ closed /\ UNCHANGED <<absvars, faults>>
     \/ ~closed /\ Fault /\ UNCHANGED absvars
     \/ /\ ~closed
        /\ \E u \in Uids :
             /\ Deliver(u)
             /\ (u \in open /\ status'[u] = "hidden" /\ UNCHANGED faults) \/ Fault
  /\ UNCHANGED <<main, worker, late, closed, quitter, done>>

Offer(w) ==
  /\ receiver.pc = "offer"
  /\ worker[w].pc = "select"
  /\ receiver' = [pc |-> "sleep", msg |-> NoMsg]
  /\ worker' = [worker EXCEPT ![w] = [Free EXCEPT !.pc = "message", !.msg = receiver.msg]]
  /\ UNCHANGED <<absvars, main, late, closed, quitter, faults, done>>

Sleep ==
  /\ receiver.pc = "sleep"
  /\ receiver' = [receiver EXCEPT !.pc = "receive"]
  /\ UNCHANGED <<absvars, main, worker, late, closed, quitter, faults, done>>

-----------------------------------------------------------------------------
(* A goroutine that handles a message.                                     *)

(* Mutant: the message is deleted whatever the handler returned. *)
AfterHooks_always(ok) == "delete"

(* The `if ok` at the end of the loop's body. *)
AfterHooks(ok) == IF ok THEN "delete" ELSE "select"

(* Mutant: the goroutine returns after its first message. *)
Goes_leaves(w, pc, ok) ==
  IF pc = "select"
  THEN worker' = [worker EXCEPT ![w] = [Free EXCEPT !.pc = "returned"]] /\ late' = late \ {w}
  ELSE worker' = [worker EXCEPT ![w] = [@ EXCEPT !.pc = pc, !.ok = ok]] /\ UNCHANGED late

(* The goroutine goes on to pc, or back to its select without a message. *)
Goes(w, pc, ok) ==
  IF pc = "select"
  THEN worker' = [worker EXCEPT ![w] = Free] /\ late' = late \ {w}
  ELSE worker' = [worker EXCEPT ![w] = [@ EXCEPT !.pc = pc, !.ok = ok]] /\ UNCHANGED late

(* handler.Message returns.  Success, and DeadlineExceeded when the        *)
(* context's deadline has passed, are no faults; any other answer is one,  *)
(* DeadlineExceeded for a reason of the handler's own among them.          *)
HandlerMessage(w) ==
  /\ worker[w].pc = "message"
  /\ \E ok \in BOOLEAN, err \in {"none", "deadline", "other"} :
       /\ IF <<err, ok>> = <<"none", TRUE>> \/ (<<err, ok>> = <<"deadline", FALSE>> /\ w \in late)
          THEN UNCHANGED faults ELSE Fault
       /\ Goes(w, CASE err = "deadline" -> "deadlinePassed"
                    [] err = "other"    -> "hide"
                    [] err = "none"     -> AfterHooks(ok), ok)
       /\ done' = IF ok THEN done \cup {worker[w].msg} ELSE done
  /\ UNCHANGED <<absvars, main, receiver, closed, quitter>>

HandlerDeadlinePassed(w) ==
  /\ worker[w].pc = "deadlinePassed"
  /\ Goes(w, AfterHooks(worker[w].ok), worker[w].ok)
  /\ UNCHANGED <<absvars, main, receiver, closed, quitter, faults, done>>

(* ChangeMessageVisibility(0): the message is visible at once, whoever     *)
(* received it since.  It does nothing on a message that is not queued, or *)
(* when it fails, and its error is not looked at.                          *)
ChangeMessageVisibility(w) ==
  LET u == worker[w].msg
  IN /\ worker[w].pc = "hide"
     /\ \/ ~closed /\ Hide(u) /\ status'[u] = "visible" /\ UNCHANGED faults
        \/ (closed \/ ~Queued(u)) /\ UNCHANGED <<absvars, faults>>
        \/ ~closed /\ Fault /\ UNCHANGED absvars
     /\ Goes(w, "error", worker[w].ok)
     /\ UNCHANGED <<main, receiver, closed, quitter, done>>

(* It worked, its reply is lost, and go-redis repeats it. *)
ChangeMessageVisibilityRepeats(w) ==
  LET u == worker[w].msg
  IN /\ worker[w].pc = "hide"
     /\ ~closed
     /\ Hide(u) /\ status'[u] = "visible"
     /\ Fault
     /\ UNCHANGED <<main, receiver, worker, late, closed, quitter, done>>

HandlerError(w) ==
  /\ worker[w].pc = "error"
  /\ Goes(w, AfterHooks(worker[w].ok), worker[w].ok)
  /\ UNCHANGED <<absvars, main, receiver, closed, quitter, faults, done>>

DeleteMessage(w) ==
  LET u == worker[w].msg
  IN /\ worker[w].pc = "delete"
     /\ \/ ~closed /\ Remove(u) /\ UNCHANGED faults
        \/ (closed \/ ~Queued(u)) /\ UNCHANGED <<absvars, faults>>
        \/ ~closed /\ Fault /\ UNCHANGED absvars
     /\ Goes(w, "select", worker[w].ok)
     /\ UNCHANGED <<main, receiver, closed, quitter, done>>

(* It worked, its reply is lost, and go-redis repeats it. *)
DeleteMessageRepeats(w) ==
  /\ worker[w].pc = "delete"
  /\ ~closed
  /\ Remove(worker[w].msg)
  /\ Fault
  /\ UNCHANGED <<main, receiver, worker, late, closed, quitter, done>>

-----------------------------------------------------------------------------
(* Quit closes the client, then sends one value on the channel that Start  *)
(* and every goroutine in its select read.  Closing twice is an error.     *)

(* Mutant: the error of Close is not looked at. *)
Quit_unchecked(c) ==
  /\ quitter[c] = "idle"
  /\ quitter' = [quitter EXCEPT ![c] = "sending"]
  /\ closed' = TRUE
  /\ UNCHANGED <<absvars, main, receiver, worker, late, faults, done>>

Quit(c) ==
  /\ quitter[c] = "idle"
  /\ quitter' = [quitter EXCEPT ![c] = IF closed THEN "failed" ELSE "sending"]
  /\ closed' = TRUE
  /\ UNCHANGED <<absvars, main, receiver, worker, late, faults, done>>

QuitTakenByStart(c) ==
  /\ quitter[c] = "sending"
  /\ main = "blocked"
  /\ main' = "returned"
  /\ quitter' = [quitter EXCEPT ![c] = "returned"]
  /\ UNCHANGED <<absvars, receiver, worker, late, closed, faults, done>>

QuitTakenByWorker(c, w) ==
  /\ quitter[c] = "sending"
  /\ worker[w].pc = "select"
  /\ worker' = [worker EXCEPT ![w].pc = "returned"]
  /\ quitter' = [quitter EXCEPT ![c] = "returned"]
  /\ UNCHANGED <<absvars, main, receiver, late, closed, faults, done>>

QuitTaken(c) == QuitTakenByStart(c) \/ \E w \in Goroutines : QuitTakenByWorker(c, w)

-----------------------------------------------------------------------------
Receiving ==
  \/ ReceiveNothing
  \/ ReceiveFails
  \/ Sleep
  \/ \E u \in Uids : ReceiveMessage(u) \/ ReceiveRepeats(u)

Handling(w) ==
  \/ HandlerMessage(w)
  \/ HandlerDeadlinePassed(w)
  \/ ChangeMessageVisibility(w)
  \/ ChangeMessageVisibilityRepeats(w)
  \/ HandlerError(w)
  \/ DeleteMessage(w)
  \/ DeleteMessageRepeats(w)

WNext ==
  \/ Start
  \/ Receiving
  \/ \E u \in Uids : Send(u) \/ SendEnds(u) \/ BecomesVisible(u)
  \/ \E w \in Goroutines : Offer(w) \/ DeadlinePasses(w) \/ Handling(w)
  \/ \E c \in Quitters : Quit(c) \/ QuitTaken(c)

(* Start is called, sends end, timeouts run out, goroutines run, handlers  *)
(* return, and a rendezvous that stays possible happens.  Nobody has to    *)
(* send or to call Quit, and nothing has to fail.                          *)
Fairness ==
  /\ WF_wvars(Start)
  /\ WF_wvars(Receiving)
  /\ WF_wvars(\E w \in Goroutines : Offer(w))
  /\ \A w \in Goroutines : WF_wvars(Handling(w))
  /\ \A u \in Uids : WF_wvars(SendEnds(u)) /\ WF_wvars(BecomesVisible(u))
  /\ \A c \in Quitters : WF_wvars(QuitTaken(c))

WSpec == WInit /\ [][WNext]_wvars /\ Fairness

-----------------------------------------------------------------------------
(* Properties.                                                             *)

(* The worker deletes nothing that was not handled: a message that left    *)
(* the queue was reported ok by a handler, whatever failed or ran late in  *)
(* between.                                                                *)
OnlyHandledIsGone == \A u \in Uids : status[u] = "gone" => u \in done

(* Its inductive form: a goroutine that carries ok, or is about to delete, *)
(* has a message that was handled.                                         *)
CarriesOk ==
  \A w \in Goroutines :
    worker[w].ok \/ worker[w].pc = "delete" => worker[w].msg \in done

WInv == WTypeOK /\ CarriesOk /\ OnlyHandledIsGone

(* Every message that is sent is handled, after any number of failures, as *)
(* long as the receiver's calls do not fail and nobody quits.              *)
Handled ==
  \A u \in Uids :
    status[u] # "unsent" ~> u \in done \/ receiver.pc = "returned" \/ closed

(* A message the receiver took off the queue does not wait for a goroutine *)
(* for ever: Quit, called any number of times, ends one of them at most.   *)
OfferIsTaken == receiver.pc = "offer" ~> receiver.pc # "offer"

(* worker.go:96: Start blocks until a quit signal is received, so it       *)
(* returns once one is sent.                                               *)
QuitStopsStart == \A c \in Quitters : quitter[c] = "sending" ~> main = "returned"

=============================================================================
