----------------------------- MODULE RedisQueue -----------------------------
(***************************************************************************)
(* What one rsmq queue keeps in Redis, and what the Lua scripts of         *)
(* q/scripts.go do to it.                                                  *)
(*                                                                         *)
(*   <ns>:QUEUES       the set of queue names         listed               *)
(*   <ns>:<q>          a sorted set, uid -> score     zset                 *)
(*   <ns>:<q>:Q        a hash holding                                      *)
(*      vt, delay, maxsize                            attrs                *)
(*      <uid>          the message text               body                 *)
(*      <uid>:rc       how often it was received      rc                   *)
(*      <uid>:fr       when it was first received     fr                   *)
(*      totalrecv, totalsent                          same names           *)
(*                                                                         *)
(* A member or field that does not exist is Nil.  A message is abstracted  *)
(* to its length, and scores and fr are times in milliseconds, as stored.  *)
(* Redis runs one command, and one script, at a time: every operator below *)
(* that primes variables is one such atomic command.                       *)
(***************************************************************************)
EXTENDS Integers

CONSTANTS
  Uids,            \* identifiers makeUID may draw, ordered as Redis orders members
  Nil,             \* a field, member or option that is absent
  DefaultVT,       \* visibility timeout CreateQueue stores (30)
  DefaultMaxSize   \* maximum message length CreateQueue stores (65536)

Attrs == [vt : Int, delay : Int, maxsize : Int]

ASSUME StoreAssumption ==
  /\ Uids \subseteq Nat
  /\ Nil \notin Int \cup Attrs
  /\ DefaultVT \in Int
  /\ DefaultMaxSize \in Int

VARIABLES listed, attrs, zset, body, rc, fr, totalrecv, totalsent

store == <<listed, attrs, zset, body, rc, fr, totalrecv, totalsent>>

DefaultAttrs == [vt |-> DefaultVT, delay |-> 0, maxsize |-> DefaultMaxSize]

StoreTypeOK ==
  /\ listed \in BOOLEAN
  /\ attrs \in Attrs \cup {Nil}
  /\ zset \in [Uids -> Int \cup {Nil}]
  /\ body \in [Uids -> Nat \cup {Nil}]
  /\ rc \in [Uids -> Nat \cup {Nil}]
  /\ fr \in [Uids -> Int \cup {Nil}]
  /\ totalrecv \in Nat
  /\ totalsent \in Nat

NoField == [u \in Uids |-> Nil]

(* A Redis without the queue, or with one that was just created. *)
StoreInit ==
  /\ \/ listed = FALSE /\ attrs = Nil
     \/ listed = TRUE /\ attrs = DefaultAttrs
  /\ zset = NoField
  /\ body = NoField
  /\ rc = NoField
  /\ fr = NoField
  /\ totalrecv = 0
  /\ totalsent = 0

-----------------------------------------------------------------------------
(* ZRANGEBYSCORE key -inf t LIMIT 0 1: the lowest score first, members with *)
(* equal scores in the order of their identifiers.                          *)

(* Mutant: ZRANGE, which ignores the score. *)
Visible_any(t) == {u \in Uids : zset[u] # Nil}

Visible(t) == {u \in Uids : zset[u] # Nil /\ zset[u] <= t}

(* Mutant: any visible message instead of the one with the lowest score. *)
IsNext_any(u, t) == u \in Visible(t)

IsNext(u, t) ==
  /\ u \in Visible(t)
  /\ \A v \in Visible(t) :
       zset[u] < zset[v] \/ (zset[u] = zset[v] /\ u <= v)

(* HINCRBY <uid>:rc 1 creates the counter at 1. *)
NextRC(u) == IF rc[u] = Nil THEN 1 ELSE rc[u] + 1

(* The fourth element both scripts return: the call's time on the first    *)
(* receipt, else the stored one.                                           *)
FirstReceived(u, t) == IF NextRC(u) = 1 THEN t ELSE fr[u]

(* Mutant: KEYS[2] and KEYS[3] swapped in the script's ZADD. *)
ReceiveScript_swapped(u, t, until) ==
  /\ IsNext(u, t)
  /\ zset' = [zset EXCEPT ![u] = t]
  /\ totalrecv' = totalrecv + 1
  /\ rc' = [rc EXCEPT ![u] = NextRC(u)]
  /\ fr' = [fr EXCEPT ![u] = FirstReceived(u, t)]
  /\ UNCHANGED <<listed, attrs, body, totalsent>>

(* Mutant: the text is removed with the receipt, as PopScript does. *)
ReceiveScript_drops(u, t, until) ==
  /\ IsNext(u, t)
  /\ zset' = [zset EXCEPT ![u] = until]
  /\ totalrecv' = totalrecv + 1
  /\ body' = [body EXCEPT ![u] = Nil]
  /\ rc' = [rc EXCEPT ![u] = NextRC(u)]
  /\ fr' = [fr EXCEPT ![u] = FirstReceived(u, t)]
  /\ UNCHANGED <<listed, attrs, totalsent>>

(* scriptReceiveMessage once it has found the next message u: t is KEYS[2], *)
(* until is KEYS[3].                                                        *)
ReceiveScript(u, t, until) ==
  /\ IsNext(u, t)
  /\ zset' = [zset EXCEPT ![u] = until]
  /\ totalrecv' = totalrecv + 1
  /\ rc' = [rc EXCEPT ![u] = NextRC(u)]
  /\ fr' = [fr EXCEPT ![u] = FirstReceived(u, t)]
  /\ UNCHANGED <<listed, attrs, body, totalsent>>

(* Mutant: totalrecv is not counted. *)
PopScript_uncounted(u, t) ==
  /\ IsNext(u, t)
  /\ zset' = [zset EXCEPT ![u] = Nil]
  /\ body' = [body EXCEPT ![u] = Nil]
  /\ rc' = [rc EXCEPT ![u] = Nil]
  /\ fr' = [fr EXCEPT ![u] = Nil]
  /\ UNCHANGED <<listed, attrs, totalrecv, totalsent>>

(* scriptPopMessage once it has found the next message u. *)
PopScript(u, t) ==
  /\ IsNext(u, t)
  /\ zset' = [zset EXCEPT ![u] = Nil]
  /\ totalrecv' = totalrecv + 1
  /\ body' = [body EXCEPT ![u] = Nil]
  /\ rc' = [rc EXCEPT ![u] = Nil]
  /\ fr' = [fr EXCEPT ![u] = Nil]
  /\ UNCHANGED <<listed, attrs, totalsent>>

(* Mutant: ZADD without the ZSCORE that looks for the message first. *)
HideScript_unchecked(u, until) ==
  /\ zset' = [zset EXCEPT ![u] = until]
  /\ UNCHANGED <<listed, attrs, body, rc, fr, totalrecv, totalsent>>

(* scriptChangeMessageVisibility: a message that is not queued is left     *)
(* alone (the script returns 0).                                           *)
HideScript(u, until) ==
  /\ zset' = IF zset[u] = Nil THEN zset ELSE [zset EXCEPT ![u] = until]
  /\ UNCHANGED <<listed, attrs, body, rc, fr, totalrecv, totalsent>>

=============================================================================
