# Verification of rsmq

TLA+ models of the Go implementation of rsmq (`q/rsmq.go`, `q/scripts.go`,
`worker/worker.go`) and of the Node.js program that shares its queue
(`contrib/nodejs_peer/index.js`), the TLC configurations that check them on small
instances, and TLAPS proofs of the main results for every instance.

## The system

rsmq is a message queue kept in Redis. There is no server of its own: every
process links the client library and talks to Redis, and what the queue
guarantees depends on what each library call does in how many Redis commands.

| Component | State | Operations | Hard behaviour |
| --- | --- | --- | --- |
| queue store, Lua scripts (`q/scripts.go`) | per queue a sorted set uid -> time it becomes visible, a hash of attributes, texts and counters, and a set of queue names | the receive, pop and change-visibility scripts, each atomic | which message comes next, leases as scores |
| client library (`q/rsmq.go`) | what a call has read before its next command | CreateQueue, DeleteQueue, SendMessage, ReceiveMessage, PopMessage, ChangeMessageVisibility, DeleteMessage, SetQueueAttributes, GetQueueAttributes, ListQueues | the time and attributes `getQueue` read are used by a later command; pipelines are not transactions; go-redis repeats commands whose reply it lost; a client may crash in between; a client acts on a lease it no longer has |
| worker framework (`worker/worker.go`) | a receiver goroutine, ten handling goroutines, the unbuffered channels `work` and `quit` | New, Start, Quit, and the user's Message, Error and DeadlinePassed hooks | lease and context run out with a message in hand; hooks that fail; one quit value and eleven readers; two clocks |
| script loading | the scripts Redis has in memory, three script hashes per client | New, initScripts, Close | Redis restarts and forgets the scripts while clients start and work |
| queue reports | what a report has read so far | GetQueueAttributes, ListQueues | the clock is read before the counts, and others' commands run between them |
| Node.js peer (`contrib/nodejs_peer`) | the requests and replies on its connection, what its callbacks printed | createQueue, getQueueAttributes, sendMessage, receiveMessage, all called at once | callbacks in an order the script relies on without waiting; a connection that breaks under four calls |
| web console (`cmd/qd`), examples (`cmd/simple`, `cmd/worker-example`) | none of their own | library calls for each request | error paths |

Components interact through Redis only, except that a Worker owns a library
client: its receiver calls ReceiveMessage and hands the message over the
channel, a goroutine calls the handler, ChangeMessageVisibility and
DeleteMessage, and Quit closes the client under all of them. The Node.js
program does not use the Go library; it meets the Go clients in the keys of the
queue.

What makes them correct: a message is with one receiver while its lease runs
(but for its last millisecond);
a message whose send returned is not lost; a deleted message stays deleted;
counters tell the truth; messages come out in the order they were sent; the
queue's hash is whole whenever it is written; the worker deletes only what was
handled, and handles everything in the end; a client that started has its
scripts; a report counts every hidden message and its totals never go back; the
Node.js program gets one answer to each call, and its calls take effect in the
order it makes them.

## Modules

- `RedisQueue`: the keys of one queue and the scripts. Each operator that
  primes variables is one atomic Redis command or script. Texts are
  abstracted to their length, identifiers to numbers in the order Redis sorts
  members; an absent field is `Nil`.
- `Rsmq`: the library, for any number of clients on one queue. `call[c]` is
  the call client `c` is in: the method, the next Redis command (`pc`), its
  options, the time and attributes `getQueue` gave it. There is one action per
  Redis command, so that every interleaving of commands of different callers
  occurs. A timeout or delay becomes a `time.Duration` of limited width
  (`MaxDuration`), which wraps as the int64 does. `getQueue`'s TIME is read when
  a call starts and its HMGET is a step of its own, because a pipeline is not a
  transaction. `Resend` and
  `ResendPipeline` are go-redis repeating a command or pipeline after it ran,
  in part or in whole; `Fail` is a crash or a network error at any point.
  (A repeated `getQueue` is a call that starts later.)
  `held` is the last Message each client received, `hist` is a history that
  only the properties read.
- `LeaseQueue`: what a queue promises, without clock, scores or Redis. A
  message is unsent, visible, hidden or gone; it is handed out only while
  visible; what is gone comes back only while its own send is still open.
- `Worker`: the worker on top of `LeaseQueue`: each library call is one step of
  the abstract queue, or fails, before or after it took effect. The handler
  returns any combination of ok and error. The context's deadline (local
  clock) and the lease's end (Redis's clock) pass independently. A call may be
  repeated after its reply was lost (`ReceiveRepeats` and the like), and a
  received message may be visible again at once: New ignores CreateQueue's error
  (worker.go:29), so the queue may have a timeout of 0 or less. Both count as
  faults.
- `Sessions`: adds to `Rsmq` how clients start and end. New loads the three
  scripts one by one; a call needs a client that is ready, and a script that
  Redis has, or returns NOSCRIPT. Close under a running call ends the call in an
  error, which counts as a fault like any aborted call. `ScriptsLost` is a
  restart of Redis or SCRIPT FLUSH; the queue itself is persistent.
- `Reports`: GetQueueAttributes of any number of readers, beside `Rsmq`: TIME,
  HMGET, ZCARD and ZCOUNT are a step each, and the pipeline may be sent again.
- `Service`: `Rsmq`, `Sessions` and `Reports` together, on one Redis.
- `NodePeer`: the Node.js program as one more client of the queue of `Rsmq`.
  `wire` holds the requests Redis has not taken, `replies` the replies the
  program has not read, both in order, as on one connection; `console` is what
  the callbacks printed. The script's part is `Script` and the four callbacks;
  `shout`, which frames a heading with bars, is layout and left out. The npm
  package it calls is not in the repository: its requests are modelled from what
  the script uses and from the layout of the keys that the Go code shares with
  it, each MULTI transaction as one step.
- `RsmqSteps`, `RsmqProofs`, `RsmqPromise`, `RsmqFifo`: the proofs about
  `Rsmq`; `ServiceProofs`: those about `Service`; `PeerProofs` and `PeerOrder`:
  about `NodePeer`; `WorkerProofs`: about `Worker`.
- `MCRsmq`, `MCService`, `MCNodePeer`, `MCWorker`: the instances.

Definitions whose comment starts with "Mutant" are what a plausible bug would
turn the definition after them into. No specification uses them; each property
was seen to fail under one.

The options QName and ID that are empty, and calls on other queues, end before
any command; the guards leave them out. `Known` lets a client change or delete
what it received last, however long ago, and what a sender was told. `NewUID`
takes identifiers never to repeat (22 random characters). A client is a
process making one call at a time.

One assumption is about go-redis and Redis together: when a command or pipeline
is sent again, what was sent before has run by then, or never runs. It is true
when the connection broke and Redis has seen it break; after a read timeout Redis might
run the first copy after the second, even after the call returned, and a
message that was deleted could come back. `GoneStaysGone` and the other
properties are claimed under this assumption.

## Runs

Every run ends where its callers have used up `MaxCalls` or nobody wants to
call again, so deadlock is not checked: callers and senders may stop.

| Run | Instance | Shows |
| --- | --- | --- |
| `lease` | 1 message, 3 clients, one of which changes the queue's timeout and creates the queue anew, 5 calls, 3 half-millisecond ticks, timeouts absent, 0, 1 and 2, of which 2 overflows | `BriefOverlap`: two unbroken leases run together at most in the millisecond in which one ends, with durations that wrap and attributes that change |
| `order` | 2 messages, two senders that also delete and create the queue, a receiver that also pops, 6 calls | `FirstInFirstOut`, for messages of different milliseconds; `QueueStays`; `SentNotLost`, with sends amid DeleteQueue and CreateQueue |
| `faults` | 1 message, 3 clients, 4 calls, 2 faults, 2 ticks | `IInv`, `SentNotLost`, `ReceiptsCounted`, `GoneStaysGone`, and `KeepsPromise`: refinement of `LeaseQueue` |
| `service` | 1 message, a client that sends and pops, one that administers and receives, a reader; 2 calls, 2 reports, 1 fault, 1 tick | `ScriptsStay`, `TotalsCounted`, `TotalsNeverGoBack`, `NoHiddenMissed` |
| `peer` | 2 messages, the Node.js program, a Go client that sends and pops, one that creates, deletes and reconfigures the queue; 2 calls, a connection that may break, 1 tick | `NInv`, `OrderInv`, `FoundInv`, `QueueStays`, `KeepsPromise`, `CallsInOrder`, `ReadsInOrder`, `EachAnsweredOnce` |
| `worker` | 1 message, 2 goroutines, 2 callers of Quit, 3 faults or latenesses | `WTypeOK`, `OnlyHandledIsGone`, `Handled`, `OfferIsTaken` |
| `overlap`, `recipient`, `stolen`, `notfound`, `quit`, `comment` | as the runs above; in `overlap` a client sends and two only receive, on half-millisecond ticks; `comment` has the program alone | disagreements, below |

Bounds. `MaxTime` stops the clock, `MaxCalls` the Go callers, `MaxReports` the
readers, `MaxFaults` lost replies, crashes and lost scripts; in `Worker` it
stops what fails and the leases and contexts that run out in hand. A
lease is one second, of one millisecond here, so two ticks contain a lease,
its end and a second lease; four calls are a send, a receive, a late change of
visibility or a delete, and a second receive or a pop, which is the longest
pattern the properties speak of; two faults allow a pipeline to be repeated
and its repetition to be cut short. `MaxDuration` is out of reach except in
`lease`, where it is four ticks, two seconds. One message is enough where no
property relates two. In `order` two messages meet in every order of TIME and
ZADD. In `service` two calls run between any commands of two reports, and one
fault is a lost script, a lost reply, or a crash; a longer history only adds to
the totals. In `peer` every command of two Go calls meets every request of
the program, whose own calls are all of its script, and the connection may break
at any point of it. Two goroutines stand for ten: one can be busy, or quit,
while another is not; three faults suffice for a handler that fails, its lease
that runs out first, and a failing delete. The theorems have none of these
bounds.

### Disagreements between code and documents

- `overlap` (`ExclusiveLease`): rsmq.go:41 says that a message is "exclusively" returned for its
  timeout. The score is truncated to milliseconds (rsmq.go:112) and due in its own
  millisecond (scripts.go:20), Message.Deadline is not truncated
  (rsmq.go:482): in the Deadline's millisecond another receiver gets the message
  before the Deadline. `BriefOverlap` says that this is the only exception.
- `recipient` (`ExactlyOneRecipient`): README.md:3 promises one recipient within a visibility timeout.
  A ChangeMessageVisibility by a client whose own lease is over (worker.go:69
  makes such calls) exposes a message another client has just received.
- `stolen` (`GuaranteedDelivery`): README.md:3 promises delivery. A PopMessage between the ZADD and
  the HSET of a SendMessage removes the message, fails for want of the text,
  and SendMessage returns success.
- `notfound` (`UnlistedQueueIsNotFound`): rsmq_test.go:334 wants an error for a queue that does not exist.
  DeleteQueue leaves the hash that `getQueue` looks at.
- `quit` (`QuitStopsStart`): worker.go:96 says that Start blocks until a quit signal is received.
  A handling goroutine can take the only signal, and Quit cannot be repeated.
- `comment` (`SendErrorMeansQueueExists`): nodejs_peer/index.js:40 explains a refused sendMessage by a queue
  that exists already. On a fresh Redis sendMessage is refused because the
  queue does not exist: its look at the queue is one request ahead of
  createQueue's write. The same script's message only arrives from its second
  run on.

One more needs no run: rsmq.go:27 documents Message.Sent as the time of the send,
and rsmq.go:488 fills it with the TIME the receiving call read. The models
leave the field out.

## Fairness

`Rsmq` and `Service` have none: everything stated of them is safety.
`NodePeer` assumes that Redis and the event loop do not both stop while one of
them has work: weak fairness of serving a request, reading a reply or running a
callback, together. `EachAnsweredOnce` needs no more, also when the connection
breaks; nothing is assumed of the Go clients or of the clock. `Worker` assumes weak
fairness of what the Go scheduler, the clock and Redis do when left alone:
Start runs, the receiver and each goroutine take their steps and handlers
return, a rendezvous that stays possible on a channel happens, a send ends, a
hidden message becomes visible. Nobody is assumed to send or to call Quit, and
no fault is assumed to happen. `Handled` excepts a receiver whose call failed
(worker.go:42 ends it for good) and a closed client.

## Proofs

Assumptions: `StoreAssumption` (identifiers are numbers, `Nil` is none of the
values it stands in for) and `RsmqAssumption` (types of the constants). They
hold for any set of clients and messages, any options including negative
timeouts, any number of ticks per millisecond, any width of durations, and any
bounds. `ReportsAssumption` adds that the identifiers are finitely many, without
which nothing could be counted, and `PeerAssumption` that the Node.js program
makes no calls of the Go library.

`Invariance` (`RsmqProofs`): `Spec => []IInv`. None of the properties is
inductive alone. `IInv` adds

- `CallInv`: what a call carries at each command, and that the time it read is
  not after the clock. A receive that runs late uses an old time.
- `SenderInv`: one sender per message, and the agreement of a call's place
  with its message's history. Needed for anything about pipelines.
- `StoredInv`: what Redis holds of a message by how far its send got. The
  text is there once the send returned; it is only removed with the message.
- `LeaseInv`: the score of a message is not before the end of an unbroken
  lease that runs on after the clock's millisecond (`RunsOn`). With `IsNext`,
  which returns scores not after the time the call read, and `CallInv`, no
  receive can return that message, hence `OneRunsOn`: one lease at most runs on.
  A lease that runs but does not run on ends in the clock's millisecond
  (`KeptEnds`), and that is `BriefOverlap`.

From it: `Typing`, `Exclusion` (`BriefOverlap`), `NothingLost` (`SentNotLost`),
`Counting` (`ReceiptsCounted`), `QueueSurvives` (`QueueStays`),
`NoResurrection` (`GoneStaysGone`). `Typing` needs more than types: the
first-received time is a number because `:rc` and `:fr` come and go together.

`Refinement` (`RsmqPromise`): `Spec => KeepsPromise`. The mapping calls a
message visible when its score is not after the clock, so Tick is `Expire`,
the scripts are `Deliver`, `Take` and `Hide`, ZADD is `Put`, the end of a send
is `Close`, and everything else stutters. A late script delivers a message
that was visible when the call read the clock and still is, as scores do not
move without a step.

`RsmqSteps` holds the lemmas they share: millisecond arithmetic, what an action
leaves alone, types after each step.

`WorkerTyping` and `HandledBeforeGone` (`WorkerProofs`): `WTypeOK` and
`OnlyHandledIsGone` for any number of goroutines, messages, callers of Quit
and failures, from `WorkerAssumption`. The invariant is `WInv`; what it adds is
`CarriesOk`: the `ok` a goroutine carries through the hooks, and its decision
to delete, speak of a message whose handler returned ok. A late
ChangeMessageVisibility or delete of another goroutine does not disturb that.

`ServiceInvariance` and `ServiceRefinement` (`ServiceProofs`): `IInv` and the
promise hold in the composition. Its only new step on the queue's part of the
state is a call that ends with NOSCRIPT (or a faults counter that grows), which
`CallEndsIInv` treats. `ScriptsKept` rests on `LoadedInv`, which says of each
client that New got to its second script, its third, or the end, that the
scripts before are there unless Redis lost them after that New began.
`TotalsGoOn` and `HiddenAreCounted` rest on `ReportInv`: a report in progress
and the last one a reader got have no larger totals than the queue has now, and
the time a report counts from is not after the clock. Every message that is
hidden now has a score after now and so is counted from any earlier time.

`PeerInvariance`, `QueueStaysForPeer` and `PeerRefinement` (`PeerProofs`): the
same for the Node.js program. The invariant is `NInv`, which is `IInv` and
`FlightInv`: each of the four calls is in flight at most once, as a request or as
a reply; what a request carries was read before now; and a reply to a send is
about a message that is stored whole, whose send is still open and which no Go
client sends (`Stored`). This last part lets the callback end the send: without
it the program's send could end twice, or end another's, and `IInv` says of a
message whose send ended that its text is there.

`ServiceNoResurrection` and `PeerNoResurrection` (`GoneStaysGone`) extend
`NoResurrection` to the two compositions.

`TotalsAreCounts` (`ServiceProofs`): `TotalsCounted` says how many receipts and
sends there were, as cardinalities of `Receipts` and `Sent`, which are finite
because the identifiers are. Each script adds one pair to `Receipts` and one to
`totalrecv`. The HINCRBY of a send, its last command, adds one to `Sent` and
one to `totalsent`; a reply lost there, after which the command is repeated or
the call fails, counts as a fault, and so does every other way they can differ.

### Order

`Fifo` (`RsmqFifo`), `ServiceFifo` and `PeerFifo`: `FirstInFirstOut`, under two
hypotheses, for without either it is false and nobody promises it:

- `DelayStays`: SetQueueAttributes leaves the delay, or sets it to 0. A delay
  that changes lets a later message be due before an earlier one.
- `SendersDontHide`: no client both sends and changes visibilities. A sender
  knows the identifier of its message (`Known`) and could put it off before
  anybody received it.

The instances of `order` and `peer` satisfy `SendersDontHide`, and that of
`order` `DelayStays` too. The invariant is `IInv` with `HideInv` (what is
hidden by a client, or will be, was received) and `DueInv` (no
attributes in the hash or in a call have a delay, and a message that nobody
received is due the moment its send read from the clock). `DueInv` survives a
repeated ZADD, which sets the same score again, and a repeated receive, which
counts as a receipt. The script takes the least score, hence the oldest message
of those never handed out. `UnreceivedStay` is the lemma both parts of the
proof need: only its own ZADD moves a message that nobody received.

### The Node.js program

`OrderInvariance`, `AnswersInOrder`, `FoundInvariance` and
`CallsTakeEffectInOrder` (`PeerOrder`) say that a program that waits for no answer
may rely on the order of its calls. The argument:

- `TurnsInv`: `Turn(m)` numbers the requests, request 1 of each call before
  request 2 of any, in the script's order. All that is in flight is sorted by
  turn, and spans less than one round of it: a connection answers in order, and
  the program writes a call's next request when it reads the reply to the last.
- `CreatedInv`: hence the statistics are read after createQueue's HSETNX, both
  being second requests; and no Go client takes the hash away.
- `AnswersInv`: each call is in flight or answered, never both and never twice,
  also when the connection breaks. This is the safety part of
  `EachAnsweredOnce`. A receive that succeeds is answered after the send.
- `FoundInv`: the send read the clock before the receive did, so a message sent
  without a delay is due when the receive looks. If the receive finds nothing,
  that message was received (`got`) or removed (`fate`). Between the
  send's two requests and the receive's two, Go clients may do anything but hide
  a message they only sent, hence the hypothesis `SendersDontHide`. Messages
  that they received they may hide.

`OrderInv` is the first three with `ReadsInOrder`. `NInv`, `OrderInv` and
`FoundInv` are invariants of the run `peer`, and their proofs have a lemma for
each request Redis serves and for each thing the program does.

### Only model-checked

Liveness is out of the proof system's reach: `Handled`, `OfferIsTaken`, and of
`EachAnsweredOnce` that the answer comes at all. The six disagreements are
counterexamples and need no proof.

## Not modelled

- ListQueues: one SMEMBERS whose reply is returned. It changes nothing and
  relates to nothing else that is modelled.
- The fields `created`, `modified` and `createdby`, by which no code decides.
- Names of queues and namespaces: there is one queue. Names that make the keys
  of two queues collide (`x` and `x:Q`, or `QUEUES`) are listed as a hazard only.
- The text of messages beyond its length, and of reports beyond their numbers.
- The web console: handlers that each make the library calls modelled here. What
  they add is routing, forms and templates. (Its form sends
  `DelayForMessages` and `MaxSizeBytes`, ConnectionEdit.html:7,9, where
  main.go:119,129 read `Delay` and `MaxSize`, so these two cannot be changed.)
- The example programs and the tests: straight-line use of the calls.
- The npm packages rsmq and redis are not part of the repository; `NodePeer` has
  them as far as index.js uses them.

Left for the future: the key space of several queues; a Redis that loses its
last writes when it restarts; an abstract specification of the worker, and of
the Node.js program, with proofs that they implement it.
