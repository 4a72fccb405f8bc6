------------------------------ MODULE Reports -------------------------------
(***************************************************************************)
(* GetQueueAttributes: the report of a queue that the console and          *)
(* SetQueueAttributes show.  It reads TIME, and then the totals (HMGET),   *)
(* the number of messages (ZCARD) and the number of hidden ones (ZCOUNT)   *)
(* in a pipeline; other clients' commands run between any two of these.    *)
(***************************************************************************)
EXTENDS Rsmq, FiniteSets

CONSTANTS
  Readers,      \* the processes that ask for reports
  MaxReports    \* bound: reports asked for

ASSUME ReportsAssumption ==
  /\ MaxReports \in Nat
  /\ IsFiniteSet(Uids)

VARIABLES
  reading,   \* each reader's report in progress
  report,    \* the last report each reader got
  asked      \* reports asked for so far

repvars == <<reading, report, asked>>

NoReport == [pc |-> "idle", t |-> 0, recv |-> Nil, sent |-> Nil, n |-> 0, hidden |-> 0]

ReportsInit ==
  /\ reading = [o \in Readers |-> NoReport]
  /\ report = [o \in Readers |-> NoReport]
  /\ asked = 0

Reads(o, pc) == reading[o].pc = pc

Queued == {u \in Uids : zset[u] # Nil}

GetQueueAttributesTime(o) ==
  /\ Reads(o, "idle")
  /\ asked < MaxReports
  /\ asked' = asked + 1
  /\ reading' = [reading EXCEPT ![o] = [NoReport EXCEPT !.pc = "hmget", !.t = now]]
  /\ UNCHANGED <<vars, report>>

(* Fields that are absent are Nil; a total that was never counted is 0. *)
GetQueueAttributesHMGet(o) ==
  /\ Reads(o, "hmget")
  /\ LET found == attrs # Nil
     IN reading' = [reading EXCEPT ![o] =
                      [@ EXCEPT !.pc = "zcard", !.recv = IF found THEN totalrecv ELSE Nil,
                                !.sent = IF found THEN totalsent ELSE Nil]]
  /\ UNCHANGED <<vars, report, asked>>

GetQueueAttributesZCard(o) ==
  /\ Reads(o, "zcard")
  /\ reading' = [reading EXCEPT ![o] = [@ EXCEPT !.pc = "zcount", !.n = Cardinality(Queued)]]
  /\ UNCHANGED <<vars, report, asked>>

(* Mutant: ZCOUNT -inf t. *)
Counted_visible(t) == Cardinality({u \in Queued : zset[u] <= Ms(t)})

(* ZCOUNT t +inf. *)
Counted(t) == Cardinality({u \in Queued : zset[u] >= Ms(t)})

(* The pipeline's last command: QueueNotFoundError, or the report. *)
GetQueueAttributesZCount(o) ==
  /\ Reads(o, "zcount")
  /\ report' = IF reading[o].recv = Nil THEN report
               ELSE [report EXCEPT ![o] =
                       [reading[o] EXCEPT !.pc = "idle", !.hidden = Counted(reading[o].t)]]
  /\ reading' = [reading EXCEPT ![o] = NoReport]
  /\ UNCHANGED <<vars, asked>>

(* go-redis loses the reply and sends the pipeline again. *)
GetQueueAttributesResend(o) ==
  /\ reading[o].pc \in {"zcard", "zcount"}
  /\ faults < MaxFaults
  /\ faults' = faults + 1
  /\ reading' = [reading EXCEPT ![o].pc = "hmget"]
  /\ UNCHANGED <<store, now, call, calls, held, hist, report, asked>>

ReportNext(o) ==
  \/ GetQueueAttributesTime(o)
  \/ GetQueueAttributesHMGet(o)
  \/ GetQueueAttributesZCard(o)
  \/ GetQueueAttributesZCount(o)
  \/ GetQueueAttributesResend(o)

-----------------------------------------------------------------------------
(* Properties.                                                             *)

(* The receipts the scripts made: the first, the second, ... of each       *)
(* message; and the messages whose send returned.                          *)
Receipts == UNION {{u} \X (1..hist[u].got) : u \in Uids}
Sent == {u \in Uids : hist[u].st = "sent"}

(* The totals the queue's hash stores are what happened: totalrecv counts  *)
(* every receipt the scripts made, and totalsent every send that returned, *)
(* once, but for one more at most for each reply that was lost.            *)
TotalsCounted ==
  /\ totalrecv = Cardinality(Receipts)
  /\ Cardinality(Sent) <= totalsent
  /\ totalsent <= Cardinality(Sent) + faults

(* A later report never shows smaller totals than an earlier one, whatever *)
(* happens to the queue in between: neither deleting nor creating it again *)
(* starts them anew.                                                       *)
TotalsNeverGoBack ==
  [][\A o \in Readers :
       report[o].recv # Nil =>
         report[o].recv <= report'[o].recv /\ report[o].sent <= report'[o].sent]_repvars

(* A report counts every message that is hidden when the report is made,   *)
(* though the time it counts from was read before.                         *)
NoHiddenMissed ==
  [][\A o \in Readers :
       report'[o] # report[o] =>
         Cardinality({u \in Queued : zset[u] > Ms(now)}) <= report'[o].hidden]_repvars

=============================================================================
