-------------------------------- MODULE Rsmq --------------------------------
(***************************************************************************)
(* The client library q.RedisSMQ: any number of processes work on one      *)
(* queue through it.  A call is a series of Redis commands and other       *)
(* callers' commands run in between: getQueue is a pipeline of TIME and    *)
(* HMGET, the script or pipeline that follows uses the time and the        *)
(* attributes read there, and a pipeline is not a transaction.  go-redis   *)
(* sends a command or a pipeline again when it loses the reply.            *)
(*                                                                         *)
(* Redis's clock counts ticks, TicksPerMs to the millisecond; the code     *)
(* keeps times with the clock's precision and stores milliseconds.         *)
(***************************************************************************)
EXTENDS RedisQueue

CONSTANTS
  Clients,       \* the processes that call the library
  Menu,          \* the methods each client calls
  Lengths,       \* lengths of the messages that are sent
  ReceiveVTs,    \* ReceiveMessageOptions.VisibilityTimeout: seconds, or Nil
  HideVTs,       \* ChangeMessageVisibilityOptions.VisibilityTimeout: seconds
  NewAttrs,      \* what SetQueueAttributes is asked to set
  TicksPerMs,    \* ticks of Redis's clock in a millisecond
  MsPerSecond,   \* milliseconds in a second
  MaxDuration,   \* ticks from which on a time.Duration, an int64, wraps
  MaxTime,       \* bound: the clock stops here
  MaxCalls,      \* bound: calls made by all clients together
  MaxFaults      \* bound: replies lost and calls aborted

Methods ==
  {"CreateQueue", "SendMessage", "ReceiveMessage", "PopMessage",
   "ChangeMessageVisibility", "DeleteMessage", "DeleteQueue",
   "SetQueueAttributes"}

OptInt == Int \cup {Nil}

Options == [vt : OptInt, delay : OptInt, maxsize : OptInt]

ASSUME RsmqAssumption ==
  /\ Menu \in [Clients -> SUBSET Methods]
  /\ Lengths \subseteq Nat
  /\ ReceiveVTs \subseteq OptInt
  /\ HideVTs \subseteq Int
  /\ NewAttrs \subseteq Options
  /\ TicksPerMs \in Nat \ {0}
  /\ MsPerSecond \in Nat \ {0}
  /\ MaxDuration \in Nat \ {0}
  /\ MaxTime \in Nat
  /\ MaxCalls \in Nat
  /\ MaxFaults \in Nat

VARIABLES
  now,      \* Redis's clock
  call,     \* the call each client is in
  calls,    \* calls made so far
  faults,   \* replies lost and calls aborted so far
  held,     \* the last message each client received
  hist      \* what happened to each message; only the properties read it

vars == <<store, now, call, calls, faults, held, hist>>

(* A call: the method, its next command (pc), its options, and what        *)
(* getQueue gave it: t is TIME, q the attributes (for SetQueueAttributes,  *)
(* which ignores those, q holds the new values).                           *)
Settings == {"hset_delay", "hset_maxsize", "hset_vt"}

Commands == {"hmget", "zadd", "hset", "hincrby", "evalsha", "zrem", "hdel",
             "hmset", "sadd", "del", "srem"} \cup Settings

Idle == [op |-> "none", pc |-> "idle", uid |-> Nil, len |-> Nil,
         vt |-> Nil, t |-> 0, q |-> Nil]

CallType ==
  [op : Methods \cup {"none"}, pc : Commands \cup {"idle"},
   uid : Uids \cup {Nil}, len : Nat \cup {Nil}, vt : OptInt, t : Nat,
   q : Options \cup {Nil}]

(* A received Message, and whether its receiver set its score itself since *)
(* ("released"), or another did, to a time before the deadline ("cut").    *)
HeldType ==
  [uid : Uids, deadline : Int, fr : Int, lease : {"kept", "released", "cut"}]

(* The history of a message: how far its send got, its length, the time    *)
(* its sender read, how often the scripts returned it and when first,      *)
(* what took it off the queue, whether it was added more than once.        *)
Stages == {"unsent", "sending", "sent", "failed"}
Fates == {"none", "deleted", "cleared", "popped", "stolen"}
HistType ==
  [st : Stages, len : Nat, at : Nat, got : Nat, first : OptInt,
   fate : Fates, resent : BOOLEAN]

TypeOK ==
  /\ StoreTypeOK
  /\ now \in Nat
  /\ call \in [Clients -> CallType]
  /\ calls \in Nat
  /\ faults \in Nat
  /\ held \in [Clients -> HeldType \cup {Nil}]
  /\ hist \in [Uids -> HistType]

Init ==
  /\ StoreInit
  /\ now = 0
  /\ call = [c \in Clients |-> Idle]
  /\ calls = 0
  /\ faults = 0
  /\ held = [c \in Clients |-> Nil]
  /\ hist = [u \in Uids |-> [st |-> "unsent", len |-> 0, at |-> 0, got |-> 0,
                             first |-> Nil, fate |-> "none", resent |-> FALSE]]

-----------------------------------------------------------------------------
(* Times.  k is a call record.                                             *)

Ms(t) == t \div TicksPerMs

(* The product with time.Second or time.Millisecond overflows silently. *)
Wrapped(d) == ((d + MaxDuration) % (2 * MaxDuration)) - MaxDuration

Milliseconds(n) == Wrapped(n * TicksPerMs)
Seconds(n) == Wrapped(n * (MsPerSecond * TicksPerMs))

TimeSentUnix(k) == Ms(k.t)

(* Mutant: with the timeout the queue has when the script runs. *)
TimeVisibilityExpiresUnix_rereads(k, overrideVT) ==
  Ms(k.t + Seconds(IF overrideVT = Nil THEN attrs.vt ELSE overrideVT))

TimeVisibilityExpiresUnix(k, overrideVT) ==
  Ms(k.t + Seconds(IF overrideVT = Nil THEN k.q.vt ELSE overrideVT))

SendScore(k) == Ms(k.t + Milliseconds(k.q.delay))

(* unmarshalMessage on what the script returned for u: the caller gets an  *)
(* error, and no message, when the body is absent.                         *)
Unmarshal(k, u) ==
  [uid |-> u,
   deadline |-> k.t + Seconds(IF k.vt = Nil THEN k.q.vt ELSE k.vt),
   fr |-> FirstReceived(u, TimeSentUnix(k)), lease |-> "kept"]

-----------------------------------------------------------------------------
(* The life of a call.                                                     *)

Start(c, k) ==
  /\ call[c] = Idle
  /\ k.op \in Menu[c]
  /\ calls < MaxCalls
  /\ call' = [call EXCEPT ![c] = k]
  /\ calls' = calls + 1

At(c, op, pc) == call[c].op = op /\ call[c].pc = pc

Goto(c, pc) ==
  /\ call' = [call EXCEPT ![c].pc = pc]
  /\ UNCHANGED <<calls, faults>>

Return(c) ==
  /\ call' = [call EXCEPT ![c] = Idle]
  /\ UNCHANGED <<calls, faults>>

(* go-redis loses the reply and sends again from the command pc on.        *)
(* Assumed: what it sent before has run by then, or never runs.  (After a  *)
(* read timeout Redis might run the first copy after the second.)          *)
Resend(c, pc) ==
  /\ faults < MaxFaults
  /\ faults' = faults + 1
  /\ call' = [call EXCEPT ![c].pc = pc]
  /\ UNCHANGED calls

(* Client c sets u's score to s without receiving u: it gives up the lease *)
(* it has on u, and cuts the lease of any other whose deadline is beyond s. *)
Overwritten(c, u, s) ==
  [d \in Clients |->
     IF held[d] = Nil \/ held[d].uid # u THEN held[d]
     ELSE IF d = c THEN [held[d] EXCEPT !.lease = "released"]
     ELSE IF held[d].lease = "kept" /\ s < Ms(held[d].deadline)
          THEN [held[d] EXCEPT !.lease = "cut"]
     ELSE held[d]]

(* c knows the identifier of u: it received u last, or SendMessage told it. *)
Known(c, u) ==
  \/ held[c] # Nil /\ held[c].uid = u
  \/ hist[u].st = "sent" /\ "SendMessage" \in Menu[c]

-----------------------------------------------------------------------------
(* CreateQueue: HMSET of the defaults, then SADD.  Its TIME only fills the *)
(* created and modified fields, which nothing but a report reads.          *)

StartCreateQueue(c) ==
  /\ Start(c, [Idle EXCEPT !.op = "CreateQueue", !.pc = "hmset"])
  /\ UNCHANGED <<store, now, faults, held, hist>>

(* Mutant: the totals start anew, too. *)
CreateQueueHMSet_anew(c) ==
  /\ At(c, "CreateQueue", "hmset")
  /\ attrs' = DefaultAttrs
  /\ totalrecv' = 0
  /\ totalsent' = 0
  /\ Goto(c, "sadd") \/ Resend(c, "hmset")
  /\ UNCHANGED <<listed, zset, body, rc, fr, now, held, hist>>

CreateQueueHMSet(c) ==
  /\ At(c, "CreateQueue", "hmset")
  /\ attrs' = DefaultAttrs
  /\ Goto(c, "sadd") \/ Resend(c, "hmset")
  /\ UNCHANGED <<listed, zset, body, rc, fr, totalrecv, totalsent, now, held, hist>>

CreateQueueSAdd(c) ==
  /\ At(c, "CreateQueue", "sadd")
  /\ listed' = TRUE
  /\ Return(c) \/ Resend(c, "sadd")
  /\ UNCHANGED <<attrs, zset, body, rc, fr, totalrecv, totalsent, now, held, hist>>

-----------------------------------------------------------------------------
(* getQueue: TIME opens the call, HMGET reads the attributes.              *)

(* What makeUID draws: 22 random letters, taken never to repeat.           *)
NewUID(u) == hist[u].st = "unsent" /\ \A d \in Clients : call[d].uid # u

StartSendMessage(c) ==
  /\ \E u \in Uids, n \in Lengths :
       /\ NewUID(u)
       /\ Start(c, [Idle EXCEPT !.op = "SendMessage", !.pc = "hmget",
                                !.uid = u, !.len = n, !.t = now])
  /\ UNCHANGED <<store, now, faults, held, hist>>

StartReceiveMessage(c) ==
  /\ \E v \in ReceiveVTs :
       Start(c, [Idle EXCEPT !.op = "ReceiveMessage", !.pc = "hmget",
                             !.vt = v, !.t = now])
  /\ UNCHANGED <<store, now, faults, held, hist>>

StartPopMessage(c) ==
  /\ Start(c, [Idle EXCEPT !.op = "PopMessage", !.pc = "hmget", !.t = now])
  /\ UNCHANGED <<store, now, faults, held, hist>>

StartChangeMessageVisibility(c) ==
  /\ \E u \in Uids, v \in HideVTs :
       /\ Known(c, u)
       /\ Start(c, [Idle EXCEPT !.op = "ChangeMessageVisibility", !.pc = "hmget",
                                !.uid = u, !.vt = v, !.t = now])
  /\ UNCHANGED <<store, now, faults, held, hist>>

StartSetQueueAttributes(c) ==
  /\ \E o \in NewAttrs :
       /\ \E f \in DOMAIN o : o[f] # Nil
       /\ Start(c, [Idle EXCEPT !.op = "SetQueueAttributes", !.pc = "hmget",
                                !.q = o, !.t = now])
  /\ UNCHANGED <<store, now, faults, held, hist>>

(* QueueNotFoundError, or SendMessage's size check, ends the call. *)
GetQueueFails(c) ==
  /\ call[c].pc = "hmget"
  /\ \/ attrs = Nil
     \/ /\ attrs # Nil
        /\ call[c].op = "SendMessage"
        /\ call[c].len > attrs.maxsize
  /\ Return(c)
  /\ UNCHANGED <<store, now, held, hist>>

GetQueueSucceeds(c) ==
  /\ call[c].pc = "hmget"
  /\ attrs # Nil
  /\ \/ /\ call[c].op = "SendMessage"
        /\ call[c].len <= attrs.maxsize
        /\ call' = [call EXCEPT ![c] = [@ EXCEPT !.pc = "zadd", !.q = attrs]]
     \/ /\ call[c].op \in {"ReceiveMessage", "PopMessage", "ChangeMessageVisibility"}
        /\ call' = [call EXCEPT ![c] = [@ EXCEPT !.pc = "evalsha", !.q = attrs]]
     \/ /\ call[c].op = "SetQueueAttributes"
        /\ call' = [call EXCEPT ![c].pc = "hset_delay"]
  /\ UNCHANGED <<store, now, calls, faults, held, hist>>

-----------------------------------------------------------------------------
(* SendMessage's pipeline: ZADD, HSET of the body, HINCRBY totalsent.      *)

SendMessageZAdd(c) ==
  LET k == call[c]
      u == k.uid
  IN /\ At(c, "SendMessage", "zadd")
     /\ zset' = [zset EXCEPT ![u] = SendScore(k)]
     /\ hist' = [hist EXCEPT ![u] =
                   [@ EXCEPT !.st = "sending", !.len = k.len, !.at = k.t,
                             !.fate = "none", !.resent = (hist[u].st = "sending")]]
     /\ held' = Overwritten(c, u, SendScore(k))
     /\ Goto(c, "hset")
     /\ UNCHANGED <<listed, attrs, body, rc, fr, totalrecv, totalsent, now>>

SendMessageHSet(c) ==
  /\ At(c, "SendMessage", "hset")
  /\ body' = [body EXCEPT ![call[c].uid] = call[c].len]
  /\ Goto(c, "hincrby")
  /\ UNCHANGED <<listed, attrs, zset, rc, fr, totalrecv, totalsent, now, held, hist>>

SendMessageHIncrBy(c) ==
  /\ At(c, "SendMessage", "hincrby")
  /\ totalsent' = totalsent + 1
  /\ \/ /\ Return(c)
        /\ hist' = [hist EXCEPT ![call[c].uid].st = "sent"]
     \/ Resend(c, "zadd") /\ UNCHANGED hist
  /\ UNCHANGED <<listed, attrs, zset, body, rc, fr, totalrecv, now, held>>

-----------------------------------------------------------------------------
(* ReceiveMessage, PopMessage and ChangeMessageVisibility end in a script. *)

Handed(u, t, f) ==
  [hist EXCEPT ![u] =
     [@ EXCEPT !.got = hist[u].got + 1,
               !.first = IF hist[u].got = 0 THEN t ELSE hist[u].first,
               !.fate = f]]

NothingVisible(c) ==
  /\ call[c].op \in {"ReceiveMessage", "PopMessage"}
  /\ call[c].pc = "evalsha"
  /\ Visible(TimeSentUnix(call[c])) = {}
  /\ Return(c)
  /\ UNCHANGED <<store, now, held, hist>>

ReceiveMessageEval(c) ==
  LET k == call[c]
  IN /\ At(c, "ReceiveMessage", "evalsha")
     /\ \E u \in Uids :
          /\ ReceiveScript(u, TimeSentUnix(k), TimeVisibilityExpiresUnix(k, k.vt))
          /\ hist' = Handed(u, TimeSentUnix(k), hist[u].fate)
          /\ \/ /\ Return(c)
                /\ held' = IF body[u] = Nil THEN held
                           ELSE [held EXCEPT ![c] = Unmarshal(k, u)]
             \/ Resend(c, "evalsha") /\ UNCHANGED held
     /\ UNCHANGED now

(* A popped message is gone whether or not its reply arrives.  It is       *)
(* "stolen" if its body was not stored yet: the caller gets an error.      *)
PopMessageEval(c) ==
  LET k == call[c]
  IN /\ At(c, "PopMessage", "evalsha")
     /\ \E u \in Uids :
          /\ PopScript(u, TimeSentUnix(k))
          /\ hist' = Handed(u, TimeSentUnix(k),
                            IF body[u] = Nil THEN "stolen" ELSE "popped")
          /\ \/ /\ Return(c)
                /\ held' = IF body[u] = Nil THEN held
                           ELSE [held EXCEPT ![c] = Unmarshal(k, u)]
             \/ Resend(c, "evalsha") /\ UNCHANGED held
     /\ UNCHANGED now

ChangeMessageVisibilityEval(c) ==
  LET k == call[c]
  IN /\ At(c, "ChangeMessageVisibility", "evalsha")
     /\ HideScript(k.uid, TimeVisibilityExpiresUnix(k, k.vt))
     /\ held' = IF zset[k.uid] = Nil THEN held
                ELSE Overwritten(c, k.uid, TimeVisibilityExpiresUnix(k, k.vt))
     /\ Return(c) \/ Resend(c, "evalsha")
     /\ UNCHANGED <<now, hist>>

-----------------------------------------------------------------------------
(* DeleteMessage's pipeline: ZREM, then HDEL of the :rc and :fr fields.    *)

StartDeleteMessage(c) ==
  /\ \E u \in Uids :
       /\ Known(c, u)
       /\ Start(c, [Idle EXCEPT !.op = "DeleteMessage", !.pc = "zrem", !.uid = u])
  /\ UNCHANGED <<store, now, faults, held, hist>>

DeleteMessageZRem(c) ==
  LET u == call[c].uid
  IN /\ At(c, "DeleteMessage", "zrem")
     /\ zset' = [zset EXCEPT ![u] = Nil]
     /\ hist' = IF zset[u] = Nil THEN hist
                ELSE [hist EXCEPT ![u].fate = "deleted"]
     /\ Goto(c, "hdel")
     /\ UNCHANGED <<listed, attrs, body, rc, fr, totalrecv, totalsent, now, held>>

(* Mutant: HDEL forgets the :fr field. *)
DeleteMessageHDel_rcOnly(c) ==
  LET u == call[c].uid
  IN /\ At(c, "DeleteMessage", "hdel")
     /\ rc' = [rc EXCEPT ![u] = Nil]
     /\ Return(c) \/ Resend(c, "zrem")
     /\ UNCHANGED <<listed, attrs, zset, body, fr, totalrecv, totalsent, now, held, hist>>

DeleteMessageHDel(c) ==
  LET u == call[c].uid
  IN /\ At(c, "DeleteMessage", "hdel")
     /\ rc' = [rc EXCEPT ![u] = Nil]
     /\ fr' = [fr EXCEPT ![u] = Nil]
     /\ Return(c) \/ Resend(c, "zrem")
     /\ UNCHANGED <<listed, attrs, zset, body, totalrecv, totalsent, now, held, hist>>

-----------------------------------------------------------------------------
(* DeleteQueue's pipeline: DEL of the sorted set, then SREM.               *)

StartDeleteQueue(c) ==
  /\ Start(c, [Idle EXCEPT !.op = "DeleteQueue", !.pc = "del"])
  /\ UNCHANGED <<store, now, faults, held, hist>>

(* Mutant: DEL of the hash too. *)
DeleteQueueDel_hash(c) ==
  /\ At(c, "DeleteQueue", "del")
  /\ zset' = NoField /\ body' = NoField /\ rc' = NoField /\ fr' = NoField
  /\ attrs' = Nil
  /\ totalrecv' = 0 /\ totalsent' = 0
  /\ hist' = [u \in Uids |-> IF zset[u] = Nil THEN hist[u]
                             ELSE [hist[u] EXCEPT !.fate = "cleared"]]
  /\ Goto(c, "srem")
  /\ UNCHANGED <<listed, now, held>>

DeleteQueueDel(c) ==
  /\ At(c, "DeleteQueue", "del")
  /\ zset' = NoField
  /\ hist' = [u \in Uids |-> IF zset[u] = Nil THEN hist[u]
                             ELSE [hist[u] EXCEPT !.fate = "cleared"]]
  /\ Goto(c, "srem")
  /\ UNCHANGED <<listed, attrs, body, rc, fr, totalrecv, totalsent, now, held>>

(* Mutant: the texts are removed too, by a last command of the pipeline. *)
DeleteQueueSRem_texts(c) ==
  /\ At(c, "DeleteQueue", "srem")
  /\ listed' = FALSE
  /\ body' = NoField
  /\ Return(c) \/ Resend(c, "del")
  /\ UNCHANGED <<attrs, zset, rc, fr, totalrecv, totalsent, now, held, hist>>

DeleteQueueSRem(c) ==
  /\ At(c, "DeleteQueue", "srem")
  /\ listed' = FALSE
  /\ Return(c) \/ Resend(c, "del")
  /\ UNCHANGED <<attrs, zset, body, rc, fr, totalrecv, totalsent, now, held, hist>>

-----------------------------------------------------------------------------
(* SetQueueAttributes's pipeline: one HSET per option that is given, each  *)
(* a command of its own; the read-only GetQueueAttributes that follows     *)
(* changes nothing.                                                        *)

NextSetting(c) ==
  CASE call[c].pc = "hset_delay"   -> "hset_maxsize"
    [] call[c].pc = "hset_maxsize" -> "hset_vt"

SetField(pc, o, a) ==
  CASE pc = "hset_delay" /\ o.delay # Nil     -> [a EXCEPT !.delay = o.delay]
    [] pc = "hset_maxsize" /\ o.maxsize # Nil -> [a EXCEPT !.maxsize = o.maxsize]
    [] pc = "hset_vt" /\ o.vt # Nil           -> [a EXCEPT !.vt = o.vt]
    [] OTHER                                  -> a

SetQueueAttributesHSet(c) ==
  /\ call[c].op = "SetQueueAttributes"
  /\ call[c].pc \in Settings
  /\ attrs' = SetField(call[c].pc, call[c].q, attrs)
  /\ \/ call[c].pc # "hset_vt" /\ Goto(c, NextSetting(c))
     \/ call[c].pc = "hset_vt" /\ (Return(c) \/ Resend(c, "hset_delay"))
  /\ UNCHANGED <<listed, zset, body, rc, fr, totalrecv, totalsent, now, held, hist>>

-----------------------------------------------------------------------------
(* The environment.                                                        *)

Tick ==
  /\ now < MaxTime
  /\ now' = now + 1
  /\ UNCHANGED <<store, call, calls, faults, held, hist>>

(* The connection breaks in the middle of a pipeline and go-redis sends    *)
(* the pipeline again from its first command.                              *)
ResendPipeline(c) ==
  /\ \/ call[c].pc \in {"hset", "hincrby"} /\ Resend(c, "zadd")
     \/ call[c].pc = "hdel" /\ Resend(c, "zrem")
     \/ call[c].pc = "srem" /\ Resend(c, "del")
     \/ call[c].pc \in {"hset_maxsize", "hset_vt"} /\ Resend(c, "hset_delay")
  /\ UNCHANGED <<store, now, held, hist>>

(* The client crashes in the middle of a call, or the call ends in a       *)
(* network error: the commands that ran are not undone.                    *)
Fail(c) ==
  /\ call[c] # Idle
  /\ faults < MaxFaults
  /\ faults' = faults + 1
  /\ call' = [call EXCEPT ![c] = Idle]
  /\ hist' = IF call[c].op = "SendMessage" /\ hist[call[c].uid].st = "sending"
             THEN [hist EXCEPT ![call[c].uid].st = "failed"]
             ELSE hist
  /\ UNCHANGED <<store, now, calls, held>>

(* A client begins a call, *)
Begins(c) ==
  \/ StartCreateQueue(c)
  \/ StartSendMessage(c)
  \/ StartReceiveMessage(c)
  \/ StartPopMessage(c)
  \/ StartChangeMessageVisibility(c)
  \/ StartSetQueueAttributes(c)
  \/ StartDeleteMessage(c)
  \/ StartDeleteQueue(c)

(* runs a script, *)
Evaluates(c) ==
  \/ NothingVisible(c)
  \/ ReceiveMessageEval(c)
  \/ PopMessageEval(c)
  \/ ChangeMessageVisibilityEval(c)

(* or goes on with its call. *)
Proceeds(c) ==
  \/ CreateQueueHMSet(c)
  \/ CreateQueueSAdd(c)
  \/ GetQueueFails(c)
  \/ GetQueueSucceeds(c)
  \/ SendMessageZAdd(c)
  \/ SendMessageHSet(c)
  \/ SendMessageHIncrBy(c)
  \/ DeleteMessageZRem(c)
  \/ DeleteMessageHDel(c)
  \/ DeleteQueueDel(c)
  \/ DeleteQueueSRem(c)
  \/ SetQueueAttributesHSet(c)
  \/ ResendPipeline(c)
  \/ Fail(c)

Next ==
  \/ Tick
  \/ \E c \in Clients : Begins(c) \/ Evaluates(c) \/ Proceeds(c)

Spec == Init /\ [][Next]_vars

-----------------------------------------------------------------------------
(* Properties.                                                             *)

(* The lease of c on u, as the caller knows it from Message.Deadline, is   *)
(* still running by Redis's clock.                                         *)
Leased(c, u) ==
  /\ held[c] # Nil
  /\ held[c].uid = u
  /\ now < held[c].deadline

(* It runs, and nobody set u's score to an earlier time by other means     *)
(* than receiving u.                                                       *)
Kept(c, u) == Leased(c, u) /\ held[c].lease = "kept"

(* q/rsmq.go:41: for its visibility timeout a received message goes to     *)
(* nobody else: two callers never hold running leases on one message.      *)
ExclusiveLease ==
  \A c, d \in Clients, u \in Uids : c # d => ~(Kept(c, u) /\ Kept(d, u))

(* What holds of that: two callers hold running leases on one message at   *)
(* most in the millisecond in which one of these ends, however late their  *)
(* scripts ran after they read the clock and whatever happened to the      *)
(* queue's attributes in between.  The score the receive script stores,    *)
(* computed before the call, is the millisecond of the deadline            *)
(* unmarshalMessage computes after it.                                     *)
BriefOverlap ==
  \A c, d \in Clients, u \in Uids :
    c # d /\ Kept(c, u) /\ Kept(d, u) =>
      Ms(now) \in {Ms(held[c].deadline), Ms(held[d].deadline)}

(* README.md:3: a message goes to exactly one recipient within a           *)
(* visibility timeout.  A receiver that changes the visibility itself no   *)
(* longer counts as a recipient.                                           *)
ExactlyOneRecipient ==
  \A c, d \in Clients, u \in Uids :
    /\ c # d
    /\ Leased(c, u) /\ held[c].lease # "released"
    => ~(Leased(d, u) /\ held[d].lease # "released")

(* A message whose SendMessage returned is on the queue with its text,     *)
(* until it is deleted, popped, or its queue is deleted.                   *)
SentNotLost ==
  \A u \in Uids :
    hist[u].st = "sent" /\ hist[u].fate = "none" =>
      zset[u] # Nil /\ body[u] = hist[u].len

(* README.md:3 guarantees delivery: no message whose SendMessage returned  *)
(* was taken off the queue by a PopMessage that gave it to nobody.         *)
GuaranteedDelivery ==
  \A u \in Uids : hist[u].st = "sent" => hist[u].fate # "stolen"

(* A message that left the queue after its SendMessage ended never comes   *)
(* back: a late ChangeMessageVisibility, DeleteMessage or receive does not *)
(* queue it again.                                                         *)
GoneStaysGone ==
  [][\A u \in Uids :
       hist[u].st \in {"sent", "failed"} /\ zset[u] = Nil => zset'[u] = Nil]_vars

(* The :rc and :fr fields come and go together, and while a message is     *)
(* queued they are the number of its receipts and the time of the first,   *)
(* unless its send was repeated while others worked on it.  A receipt is   *)
(* one the script made, though its caller may have got an error.           *)
ReceiptsCounted ==
  \A u \in Uids :
    /\ rc[u] = Nil <=> fr[u] = Nil
    /\ zset[u] # Nil /\ ~hist[u].resent =>
         IF hist[u].got = 0 THEN rc[u] = Nil
         ELSE rc[u] = hist[u].got /\ fr[u] = hist[u].first

(* Messages sent in different milliseconds, with one delay and visibility  *)
(* that nobody changes, are first handed out in the order they were sent:  *)
(* a message is not handed out while one sent before it, by the time its   *)
(* sender read, is on the queue and was never handed out.  (Nothing is     *)
(* said of one sent before whose ZADD is yet to come.)                     *)
FirstInFirstOut ==
  [][\A u, v \in Uids :
       /\ hist[u].got = 0
       /\ hist'[u].got = 1
       /\ Ms(hist[v].at) < Ms(hist[u].at)
       => ~(hist[v].got = 0 /\ zset[v] # Nil)]_vars

(* A call that passed getQueue finds the queue's attributes still there    *)
(* when it writes: no HSET or HINCRBY ever recreates a hash that has only  *)
(* some of its fields.                                                     *)
QueueStays ==
  \A c \in Clients :
    call[c].pc \in {"zadd", "hset", "hincrby"} \cup Settings => attrs # Nil

(* q/rsmq_test.go:334: a method that needs the queue reports an error when *)
(* the queue does not exist, that is when it is not listed and no          *)
(* CreateQueue is at work on it.                                           *)
UnlistedQueueIsNotFound ==
  [][\A c \in Clients :
       /\ ~listed
       /\ \A d \in Clients : call[d].op # "CreateQueue"
       /\ call[c].pc = "hmget"
       => call'[c].pc \in {"hmget", "idle"}]_vars

-----------------------------------------------------------------------------
(* The inductive invariant behind the properties above.                    *)

(* What a call carries, by its method and the command it is at, at time t. *)
CallOK(k, t) ==
  /\ k.op = "none" <=> k.pc = "idle"
  /\ k.op = "none" => k = Idle
  /\ k.t <= t
  /\ k.op = "CreateQueue" => k.pc \in {"hmset", "sadd"}
  /\ k.op = "SendMessage" =>
       /\ k.pc \in {"hmget", "zadd", "hset", "hincrby"}
       /\ k.uid \in Uids
       /\ k.len \in Nat
  /\ k.op \in {"ReceiveMessage", "PopMessage"} => k.pc \in {"hmget", "evalsha"}
  /\ k.op = "ChangeMessageVisibility" =>
       /\ k.pc \in {"hmget", "evalsha"}
       /\ k.uid \in Uids
       /\ k.vt \in Int
  /\ k.op = "DeleteMessage" => k.pc \in {"zrem", "hdel"} /\ k.uid \in Uids
  /\ k.op = "DeleteQueue" => k.pc \in {"del", "srem"}
  /\ k.op = "SetQueueAttributes" =>
       k.pc \in {"hmget"} \cup Settings /\ k.q \in Options
  /\ k.pc \in {"zadd", "hset", "hincrby", "evalsha"} => k.q \in Attrs

CallInv == \A c \in Clients : CallOK(call[c], now)

(* A call's place in its pipeline agrees with the history h of its message. *)
PlaceOK(k, h) ==
  /\ k.op = "SendMessage" =>
       /\ k.pc = "hmget" => h[k.uid].st = "unsent"
       /\ k.pc = "zadd" => h[k.uid].st \in {"unsent", "sending"}
       /\ k.pc \in {"hset", "hincrby"} =>
            h[k.uid].st = "sending" /\ h[k.uid].len = k.len
  /\ k.op \in {"ChangeMessageVisibility", "DeleteMessage"} =>
       h[k.uid].st # "unsent"

(* A message has one sender, and only messages that were sent are held.    *)
SenderInv ==
  /\ \A c, d \in Clients :
       /\ c # d
       /\ call[c].op = "SendMessage"
       /\ call[d].op = "SendMessage"
       => call[c].uid # call[d].uid
  /\ \A c \in Clients : PlaceOK(call[c], hist)
  /\ \A c \in Clients : held[c] # Nil => hist[held[c].uid].st # "unsent"

(* What Redis holds of a message, by how far its send got. *)
StoredInv ==
  /\ \A u \in Uids :
       /\ hist[u].st = "unsent" =>
            /\ zset[u] = Nil /\ rc[u] = Nil /\ fr[u] = Nil
            /\ hist[u].got = 0 /\ ~hist[u].resent
       /\ hist[u].st # "unsent" => zset[u] # Nil \/ hist[u].fate # "none"
       /\ hist[u].st = "sent" /\ zset[u] # Nil => body[u] = hist[u].len
  /\ \A c \in Clients :
       /\ call[c].pc = "hincrby" /\ zset[call[c].uid] # Nil =>
            body[call[c].uid] = call[c].len
       /\ call[c].pc = "hdel" =>
            zset[call[c].uid] = Nil \/ hist[call[c].uid].resent

(* c's lease on u, which nobody cut, runs on after the clock's millisecond. *)
RunsOn(c, u) ==
  /\ held[c] # Nil
  /\ held[c].uid = u
  /\ held[c].lease = "kept"
  /\ Ms(now) < Ms(held[c].deadline)

(* The score of a message is not before the end of a lease that runs on.   *)
LeaseInv ==
  \A c \in Clients, u \in Uids :
    RunsOn(c, u) /\ zset[u] # Nil => Ms(held[c].deadline) <= zset[u]

(* One lease at most runs on: to receive u again, its score must be due.   *)
OneRunsOn ==
  \A c, d \in Clients, u \in Uids : c # d => ~(RunsOn(c, u) /\ RunsOn(d, u))

IInv ==
  /\ TypeOK
  /\ CallInv
  /\ SenderInv
  /\ StoredInv
  /\ LeaseInv
  /\ OneRunsOn
  /\ ReceiptsCounted
  /\ QueueStays

-----------------------------------------------------------------------------
(* The queue as its users see it: a message is visible while its score is  *)
(* not after the clock.                                                    *)
StatusOf(u) ==
  IF zset[u] # Nil THEN (IF zset[u] <= Ms(now) THEN "visible" ELSE "hidden")
  ELSE IF hist[u].st = "unsent" THEN "unsent" ELSE "gone"

Promise == INSTANCE LeaseQueue WITH
  status <- [u \in Uids |-> StatusOf(u)],
  open <- {u \in Uids : hist[u].st = "sending"},
  handed <- [u \in Uids |-> hist[u].got]

(* Every step of the library and of Redis is a step of LeaseQueue, or one  *)
(* it does not see.                                                        *)
KeepsPromise == Promise!LSpec

=============================================================================
