------------------------------- MODULE SafeRetry -------------------------------
(***************************************************************************)
(* "Idempotency-Key + ETag/If-Match on the API for safe client retries":   *)
(* the two middlewares around PATCH /v1/memories/{id}, for one memory.     *)
(*                                                                         *)
(* An operation is an edit a client wants done; its attempts carry the     *)
(* same Idempotency-Key, body and If-Match, so they share one cache key in *)
(* Redis.  Idempotency is the outer middleware: it replays, or reserves    *)
(* the key for 60 seconds (SET NX EX), lets the ETag check and the handler *)
(* run, and then stores the response or deletes the key.  Neither the      *)
(* store nor the delete looks at who holds the reservation.                *)
(***************************************************************************)
EXTENDS Naturals

CONSTANTS Ops,          \* edits, each with its own Idempotency-Key
          Attempts,     \* HTTP requests
          NoOne,        \* no attempt
          TouchBudget,  \* bound: writes by others (embedding, record_access)
          OutageBudget, \* bound: Redis calls and ETag lookups that raise
          DeathBudget,  \* bound: API processes that die
          SlowBudget    \* bound: reservations that end before their request

ASSUME SafeRetryAssumption ==
  /\ NoOne \notin Attempts
  /\ TouchBudget \in Nat /\ OutageBudget \in Nat
  /\ DeathBudget \in Nat /\ SlowBudget \in Nat

VARIABLES version,  \* updated_at of the memory, as a count
          op,       \* per operation: what the client holds, how often applied
          cache,    \* per operation: the Redis entry
          att,      \* the requests
          used      \* consumed budgets

vars == <<version, op, cache, att, used>>

Budgets == {"touch", "outage", "death", "slow"}

(* The entry: absent, the sentinel of attempt "by" (history: Redis does    *)
(* not know whose it is), or the response of attempt "by".                 *)
Entry == [kind : {"absent", "inflight", "response"}, by : Attempts \cup {NoOne}]
Absent == [kind |-> "absent", by |-> NoOne]

Phase == {"new", "missed", "blocked", "reserved", "checked", "applied", "refused",
          "answered", "conflict", "replayed", "dead"}

TypeOK ==
  /\ version \in Nat
  /\ op \in [Ops -> [started : BOOLEAN, ifMatch : BOOLEAN, seen : Nat,
                     applied : SUBSET Attempts]]
  /\ cache \in [Ops -> Entry]
  /\ att \in [Attempts -> [phase : Phase, op : Ops, got : Attempts \cup {NoOne}]]
  /\ used \in [Budgets -> Nat]

Init ==
  /\ version = 0
  /\ op = [o \in Ops |-> [started |-> FALSE, ifMatch |-> FALSE, seen |-> 0, applied |-> {}]]
  /\ cache = [o \in Ops |-> Absent]
  /\ att \in [Attempts -> {[phase |-> "new", op |-> o, got |-> NoOne] : o \in Ops}]
  /\ used = [b \in Budgets |-> 0]

Move(a, p) == att' = [att EXCEPT ![a].phase = p]
Spend(b) == used' = [used EXCEPT ![b] = @ + 1]

(* A call to Redis (or the ETag lookup) raises; every caller goes on.      *)
CallFails == used["outage"] < OutageBudget /\ Spend("outage")

(* Requests between their reservation and its release.                     *)
Running == {"reserved", "checked", "applied", "refused"}

-----------------------------------------------------------------------------
(* The client reads the memory and decides on an edit, with or without     *)
(* If-Match.                                                               *)
Start(o, ifMatch) ==
  /\ ~op[o].started
  /\ op' = [op EXCEPT ![o] = [started |-> TRUE, ifMatch |-> ifMatch,
                              seen |-> version, applied |-> {}]]
  /\ UNCHANGED <<version, cache, att, used>>

(* Any other write to the row moves updated_at (onupdate=func.now()).      *)
Touch ==
  /\ used["touch"] < TouchBudget
  /\ version' = version + 1
  /\ Spend("touch")
  /\ UNCHANGED <<op, cache, att>>

(* _try_replay: what a GET of the key leads to.                            *)
TryReplay(a, otherwise) ==
  LET e == cache[att[a].op] IN
  \/ /\ e.kind = "response"
     /\ att' = [att EXCEPT ![a].phase = "replayed", ![a].got = e.by]
     /\ UNCHANGED used
  \/ /\ e.kind # "response"
     /\ Move(a, otherwise)
     /\ UNCHANGED used
  \/ CallFails /\ Move(a, otherwise)

(* A request arrives at the idempotency middleware.                        *)
ArriveConsumes(a) ==
  LET o == att[a].op IN
  /\ att[a].phase = "new"
  /\ op[o].started
  /\ TryReplay(a, "missed")
  /\ cache' = IF cache[o].kind = "response" THEN [cache EXCEPT ![o] = Absent] ELSE cache
  /\ UNCHANGED <<version, op>>

Arrive(a) ==
  /\ att[a].phase = "new"
  /\ op[att[a].op].started
  /\ TryReplay(a, "missed")
  /\ UNCHANGED <<version, op, cache>>

(* SET NX EX 60; an error counts as reserved.                              *)
ReserveShared(a) ==
  LET o == att[a].op IN
  /\ att[a].phase = "missed"
  /\ \/ /\ cache[o].kind # "response"
        /\ cache' = [cache EXCEPT ![o] = [kind |-> "inflight", by |-> a]]
        /\ Move(a, "reserved")
     \/ cache[o].kind = "response" /\ Move(a, "blocked") /\ UNCHANGED cache
  /\ UNCHANGED <<version, op, used>>

Reserve(a) ==
  LET o == att[a].op IN
  /\ att[a].phase = "missed"
  /\ \/ /\ cache[o].kind = "absent"
        /\ cache' = [cache EXCEPT ![o] = [kind |-> "inflight", by |-> a]]
        /\ Move(a, "reserved")
        /\ UNCHANGED used
     \/ /\ cache[o].kind # "absent"
        /\ Move(a, "blocked")
        /\ UNCHANGED <<cache, used>>
     \/ CallFails /\ Move(a, "reserved") /\ UNCHANGED cache
  /\ UNCHANGED <<version, op>>

(* Not reserved: a second look for the response, or 409.                   *)
Blocked(a) ==
  /\ att[a].phase = "blocked"
  /\ TryReplay(a, "conflict")
  /\ UNCHANGED <<version, op, cache>>

(* EtagMiddleware: a SELECT in a session of its own.  A lookup that fails  *)
(* lets the request pass.                                                  *)
EtagCheck(a) ==
  LET o == op[att[a].op] IN
  /\ att[a].phase = "reserved"
  /\ \/ /\ Move(a, IF o.ifMatch /\ o.seen # version THEN "refused" ELSE "checked")
        /\ UNCHANGED used
     \/ o.ifMatch /\ CallFails /\ Move(a, "checked")
  /\ UNCHANGED <<version, op, cache>>

(* The handler commits the edit ...                                        *)
Handle(a) ==
  /\ att[a].phase = "checked"
  /\ version' = version + 1
  /\ op' = [op EXCEPT ![att[a].op].applied = @ \cup {a}]
  /\ Move(a, "applied")
  /\ UNCHANGED <<cache, used>>

(* ... or answers with an error, or raises.                                *)
HandlerFails(a) ==
  /\ att[a].phase = "checked"
  /\ Move(a, "refused")
  /\ UNCHANGED <<version, op, cache, used>>

StoreReleases(a) ==
  /\ att[a].phase = "applied"
  /\ cache' = [cache EXCEPT ![att[a].op] = Absent]
  /\ att' = [att EXCEPT ![a].phase = "answered", ![a].got = a]
  /\ UNCHANGED <<version, op, used>>

(* 2xx: SET the response for 24 hours, whatever the key holds.             *)
Store(a) ==
  LET o == att[a].op IN
  /\ att[a].phase = "applied"
  /\ \/ /\ cache' = [cache EXCEPT ![o] = [kind |-> "response", by |-> a]]
        /\ UNCHANGED used
     \/ CallFails /\ UNCHANGED cache
  /\ att' = [att EXCEPT ![a].phase = "answered", ![a].got = a]
  /\ UNCHANGED <<version, op>>

(* Anything else: DELETE the key, whatever it holds.                       *)
DropStores(a) ==
  /\ att[a].phase = "refused"
  /\ cache' = [cache EXCEPT ![att[a].op] = [kind |-> "response", by |-> a]]
  /\ Move(a, "answered")
  /\ UNCHANGED <<version, op, used>>

Drop(a) ==
  /\ att[a].phase = "refused"
  /\ \/ cache' = [cache EXCEPT ![att[a].op] = Absent] /\ UNCHANGED used
     \/ CallFails /\ UNCHANGED cache
  /\ Move(a, "answered")
  /\ UNCHANGED <<version, op>>

(* The process dies; its reservation stays behind.                         *)
Die(a) ==
  /\ att[a].phase \in Running
  /\ used["death"] < DeathBudget
  /\ Spend("death")
  /\ Move(a, "dead")
  /\ UNCHANGED <<version, op, cache>>

(* The reservation's 60 seconds are over.  While its request still runs,   *)
(* that request is slow.                                                   *)
ExpireNever(o) ==
  /\ cache[o].kind = "inflight"
  /\ cache[o].by # NoOne /\ att[cache[o].by].phase \in Running
  /\ used["slow"] < SlowBudget
  /\ Spend("slow")
  /\ cache' = [cache EXCEPT ![o] = Absent]
  /\ UNCHANGED <<version, op, att>>

Expire(o) ==
  /\ cache[o].kind = "inflight"
  /\ IF att[cache[o].by].phase \in Running
     THEN used["slow"] < SlowBudget /\ Spend("slow")
     ELSE UNCHANGED used
  /\ cache' = [cache EXCEPT ![o] = Absent]
  /\ UNCHANGED <<version, op, att>>

Next ==
  \/ \E o \in Ops, ifMatch \in BOOLEAN : Start(o, ifMatch)
  \/ Touch
  \/ \E a \in Attempts : Arrive(a)
  \/ \E a \in Attempts : Reserve(a)
  \/ \E a \in Attempts : Blocked(a)
  \/ \E a \in Attempts : EtagCheck(a)
  \/ \E a \in Attempts : Handle(a)
  \/ \E a \in Attempts : HandlerFails(a)
  \/ \E a \in Attempts : Store(a)
  \/ \E a \in Attempts : Drop(a)
  \/ \E a \in Attempts : Die(a)
  \/ \E o \in Ops : Expire(o)

Spec == Init /\ [][Next]_vars

(* A request that has arrived runs to its answer unless its process dies,  *)
(* and Redis expires what has a TTL.                                       *)
Fairness ==
  /\ \A a \in Attempts :
       WF_vars(\/ Reserve(a) \/ Blocked(a) \/ EtagCheck(a) \/ Handle(a)
               \/ HandlerFails(a) \/ Store(a) \/ Drop(a))
  /\ \A o \in Ops : WF_vars(Expire(o))

FairSpec == Spec /\ Fairness

-----------------------------------------------------------------------------
(* Properties.                                                             *)

(* So far every request ended within its reservation, no process died and  *)
(* Redis and the database answered.                                        *)
Calm == used["slow"] = 0 /\ used["death"] = 0 /\ used["outage"] = 0

(* "The first request in-flight wins, and a second request arriving with   *)
(* the same key before the first completes gets 409 (or a replay once the  *)
(* first has finished) rather than executing twice": as long as it is      *)
(* calm, an edit is executed at most once, whatever its attempts and their *)
(* failures interleave to.                                                 *)
AtMostOnce == Calm => \A o \in Ops : \A a, b \in op[o].applied : a = b

(* The edit itself moves the ETag, so a retry of an edit that was carried  *)
(* out would fail its own If-Match: as long as it is calm no attempt is on *)
(* its way to a 412 or another error once the edit has been carried out.   *)
RetryNotRefused ==
  Calm => \A a \in Attempts : att[a].phase = "refused" => op[att[a].op].applied = {}

(* A replayed response is that of an attempt that was carried out, also    *)
(* when reservations were lost, stolen or overwritten.                     *)
ReplayIsTrue ==
  \A a \in Attempts : att[a].phase = "replayed" => att[a].got \in op[att[a].op].applied

(* "The response is cached for 24h and replayed on retry": as long as it   *)
(* is calm no other attempt removes or replaces it, although neither the   *)
(* SET nor the DELETE at the end of a request looks at what the key holds. *)
ReplayStable ==
  [][Calm' => \A o \in Ops : cache[o].kind = "response" => cache'[o] = cache[o]]_vars

(* A key does not stay blocked: after a crash, or a request that fails, a  *)
(* retry is not answered 409 for ever.                                     *)
ReservationEnds ==
  \A o \in Ops : cache[o].kind = "inflight" ~> cache[o].kind # "inflight"

=============================================================================
