--------------------------- MODULE AttachRetryProofs ---------------------------
(***************************************************************************)
(* What clients send again: an edit with its Idempotency-Key (SafeRetry)   *)
(* and an upload with its finalize calls (Attachments), for any number of  *)
(* edits, attempts, attachments, requests and workers and any bounds.      *)
(***************************************************************************)
EXTENDS SafeRetry, Attachments, TLAPS

-----------------------------------------------------------------------------
(***************************************************************************)
(* Edits. The state is typed; until the first slow request, outage or      *)
(* death an edit is executed at most once, none of its attempts is refused *)
(* once it was, and a stored response stays what it is; and a replayed     *)
(* answer is true in every case.                                           *)
(*                                                                         *)
(* The argument: as long as it is calm a request between reservation and   *)
(* release holds the key (Holds), so there is one of them per key; an      *)
(* attempt that was carried out either still holds the key or its response *)
(* is stored (Accounted); and SET NX succeeds only on a key that is        *)
(* absent, so that nothing was carried out before.                         *)
(***************************************************************************)

Holds ==
  \A a \in Attempts :
    att[a].phase \in Running
    => cache[att[a].op].kind = "inflight" /\ cache[att[a].op].by = a

Accounted ==
  \A o \in Ops : \A a \in op[o].applied :
    /\ a \in Attempts
    /\ att[a].op = o
    /\ att[a].phase = "applied" \/ cache[o].kind = "response"

Once == \A o \in Ops : \A a, b \in op[o].applied : a = b

(* What holds as long as it is calm, and the invariant that is inductive   *)
(* also across the faults.                                                 *)
Core == TypeOK /\ Holds /\ Accounted /\ Once
Inv == TypeOK /\ (Calm => Core)

(* A step after which it is calm is no fault.                              *)
LEMMA NoFault ==
  ASSUME TypeOK, Calm'
  PROVE  ~Spend("slow") /\ ~CallFails /\ ~Spend("death")
  BY DEF TypeOK, Calm, Spend, CallFails, Budgets

(* Types, faults included.                                                 *)
LEMMA InitType == Init => TypeOK
  BY SafeRetryAssumption DEF Init, TypeOK, Entry, Absent, Phase, Budgets

(* A request that moves on, with or without a response, is well-formed.    *)
LEMMA MoveType ==
  ASSUME TypeOK, NEW a \in Attempts, NEW p \in Phase, Move(a, p)
  PROVE  /\ att' \in [Attempts -> [phase : Phase, op : Ops, got : Attempts \cup {NoOne}]]
         /\ att'[a].phase = p /\ att'[a].op = att[a].op
         /\ \A b \in Attempts : b # a => att'[b] = att[b]
<1>1. att \in [Attempts -> [phase : Phase, op : Ops, got : Attempts \cup {NoOne}]]
  BY DEF TypeOK
<1> QED
  BY <1>1 DEF Move

LEMMA AnswerType ==
  ASSUME TypeOK, NEW a \in Attempts, NEW p \in Phase, NEW g \in Attempts \cup {NoOne},
         att' = [att EXCEPT ![a].phase = p, ![a].got = g]
  PROVE  /\ att' \in [Attempts -> [phase : Phase, op : Ops, got : Attempts \cup {NoOne}]]
         /\ att'[a].phase = p /\ att'[a].op = att[a].op
         /\ \A b \in Attempts : b # a => att'[b] = att[b]
<1>1. att \in [Attempts -> [phase : Phase, op : Ops, got : Attempts \cup {NoOne}]]
  BY DEF TypeOK
<1> QED
  BY <1>1

LEMMA ReplayType ==
  ASSUME TypeOK, NEW a \in Attempts, NEW p \in Phase, TryReplay(a, p),
         UNCHANGED <<version, op, cache>>
  PROVE  TypeOK'
<1>1. cache[att[a].op] \in Entry
  BY DEF TypeOK
<1>2. cache[att[a].op].by \in Attempts \cup {NoOne}
  BY <1>1 DEF Entry
<1>3. used' \in [Budgets -> Nat]
  BY DEF TypeOK, TryReplay, CallFails, Spend, Budgets
<1>4. att' \in [Attempts -> [phase : Phase, op : Ops, got : Attempts \cup {NoOne}]]
  <2>1. "replayed" \in Phase
    BY DEF Phase
  <2> QED
    BY <1>2, <2>1, MoveType, AnswerType DEF TryReplay
<1> QED
  BY <1>3, <1>4 DEF TypeOK

LEMMA StepType == TypeOK /\ [Next]_vars => TypeOK'
<1> SUFFICES ASSUME TypeOK, [Next]_vars PROVE TypeOK'
  OBVIOUS
<1>0. CASE UNCHANGED vars
  BY <1>0 DEF vars, TypeOK
<1>1. ASSUME NEW o \in Ops, NEW m \in BOOLEAN, Start(o, m) PROVE TypeOK'
  BY <1>1 DEF TypeOK, Start
<1>2. CASE Touch
  BY <1>2 DEF TypeOK, Touch, Spend, Budgets
<1>3. ASSUME NEW a \in Attempts, Arrive(a) \/ Blocked(a) PROVE TypeOK'
  <2>1. "missed" \in Phase /\ "conflict" \in Phase
    BY DEF Phase
  <2> QED
    BY <1>3, <2>1, ReplayType DEF Arrive, Blocked
<1>4. ASSUME NEW a \in Attempts, Reserve(a) PROVE TypeOK'
  <2>1. used' \in [Budgets -> Nat]
    BY <1>4 DEF TypeOK, Reserve, CallFails, Spend, Budgets
  <2>2. cache' \in [Ops -> Entry]
    BY <1>4 DEF TypeOK, Reserve, Entry
  <2>3. "reserved" \in Phase /\ "blocked" \in Phase
    BY DEF Phase
  <2>4. att' \in [Attempts -> [phase : Phase, op : Ops, got : Attempts \cup {NoOne}]]
    BY <1>4, <2>3, MoveType DEF Reserve
  <2> QED
    BY <1>4, <2>1, <2>2, <2>4 DEF TypeOK, Reserve
<1>5. ASSUME NEW a \in Attempts, EtagCheck(a) \/ HandlerFails(a) \/ Die(a) PROVE TypeOK'
  <2>1. used' \in [Budgets -> Nat]
    BY <1>5 DEF TypeOK, EtagCheck, HandlerFails, Die, CallFails, Spend, Budgets
  <2>2. att' \in [Attempts -> [phase : Phase, op : Ops, got : Attempts \cup {NoOne}]]
    BY <1>5 DEF TypeOK, EtagCheck, HandlerFails, Die, Move, Phase
  <2> QED
    BY <1>5, <2>1, <2>2 DEF TypeOK, EtagCheck, HandlerFails, Die
<1>6. ASSUME NEW a \in Attempts, Handle(a) PROVE TypeOK'
  <2>1. op' \in [Ops -> [started : BOOLEAN, ifMatch : BOOLEAN, seen : Nat,
                         applied : SUBSET Attempts]]
    BY <1>6 DEF TypeOK, Handle
  <2>2. att' \in [Attempts -> [phase : Phase, op : Ops, got : Attempts \cup {NoOne}]]
    <3>1. "applied" \in Phase
      BY DEF Phase
    <3> QED
      BY <1>6, <3>1, MoveType DEF Handle
  <2> QED
    BY <1>6, <2>1, <2>2 DEF TypeOK, Handle
<1>7. ASSUME NEW a \in Attempts, Store(a) \/ Drop(a) PROVE TypeOK'
  <2>1. used' \in [Budgets -> Nat]
    <3>1. UNCHANGED used \/ CallFails
      BY <1>7 DEF Store, Drop
    <3> QED
      BY <3>1 DEF TypeOK, CallFails, Spend, Budgets
  <2>2. cache' \in [Ops -> Entry]
    BY <1>7 DEF TypeOK, Store, Drop, Entry, Absent
  <2>3. att' \in [Attempts -> [phase : Phase, op : Ops, got : Attempts \cup {NoOne}]]
    <3>1. "answered" \in Phase
      BY DEF Phase
    <3> QED
      BY <1>7, <3>1, MoveType, AnswerType DEF Store, Drop
  <2> QED
    BY <1>7, <2>1, <2>2, <2>3 DEF TypeOK, Store, Drop
<1>8. ASSUME NEW o \in Ops, Expire(o) PROVE TypeOK'
  <2>1. used' \in [Budgets -> Nat]
    BY <1>8 DEF TypeOK, Expire, Spend, Budgets
  <2>2. cache' \in [Ops -> Entry]
    BY <1>8 DEF TypeOK, Expire, Entry, Absent
  <2> QED
    BY <1>8, <2>1, <2>2 DEF TypeOK, Expire
<1> QED
  BY <1>0, <1>1, <1>2, <1>3, <1>4, <1>5, <1>6, <1>7, <1>8 DEF Next

(* Initially nothing runs and nothing was carried out.                     *)
LEMMA InitInv == Init => Inv
<1> SUFFICES ASSUME Init PROVE Inv
  OBVIOUS
<1>1. TypeOK
  BY InitType
<1>2. Holds
  BY DEF Init, Holds, Running
<1>3. Accounted /\ Once
  BY DEF Init, Accounted, Once
<1> QED
  BY <1>1, <1>2, <1>3 DEF Inv, Core

(* Steps that only move a request into a phase outside Running, or from    *)
(* one phase of Running to another that is not "applied", leave the keys   *)
(* and the log of executions alone.                                        *)
LEMMA MoveInv ==
  ASSUME Core, NEW a \in Attempts, NEW p \in Phase, Move(a, p),
         UNCHANGED <<op, cache>>,
         p \in Running => att[a].phase \in Running,
         att[a].phase # "applied" \/ p = "applied",
         version' \in Nat, used' \in [Budgets -> Nat]
  PROVE  Core'
<1>1. TypeOK'
  BY DEF Core, TypeOK, Move
<1>2. att'[a].op = att[a].op /\ att'[a].phase = p
      /\ \A b \in Attempts : b # a => att'[b] = att[b]
  BY DEF Core, TypeOK, Move
<1>3. \A b \in Attempts : att'[b].op = att[b].op
  BY <1>2
<1>4. Holds'
  BY <1>2, <1>3 DEF Core, Holds
<1>5. Accounted'
  BY <1>2, <1>3 DEF Core, Accounted
<1>6. Once'
  BY DEF Core, Once
<1> QED
  BY <1>1, <1>4, <1>5, <1>6 DEF Core

(* The GET of a key, with Redis answering.                                 *)
LEMMA ReplayInv ==
  ASSUME Core, Calm', NEW a \in Attempts, NEW p \in Phase \ Running, TryReplay(a, p),
         att[a].phase \notin Running,
         UNCHANGED <<version, op, cache>>
  PROVE  Core'
<1>1. CASE /\ cache[att[a].op].kind = "response"
           /\ att' = [att EXCEPT ![a].phase = "replayed", ![a].got = cache[att[a].op].by]
           /\ UNCHANGED used
  <2>1. cache[att[a].op] \in Entry
    BY DEF Core, TypeOK
  <2>2. cache[att[a].op].by \in Attempts \cup {NoOne}
    BY <2>1 DEF Entry
  <2>3. TypeOK'
    <3>1. "replayed" \in Phase
      BY DEF Phase
    <3>2. att' \in [Attempts -> [phase : Phase, op : Ops, got : Attempts \cup {NoOne}]]
      BY <1>1, <2>2, <3>1, AnswerType DEF Core
    <3> QED
      BY <1>1, <3>2 DEF Core, TypeOK
  <2>4. att'[a].phase = "replayed" /\ att'[a].op = att[a].op
        /\ \A b \in Attempts : b # a => att'[b] = att[b]
    BY <1>1 DEF Core, TypeOK
  <2>5. att[a].phase # "applied" /\ "replayed" \notin Running
    BY DEF Running
  <2>6. Holds'
    BY <2>4, <2>5 DEF Core, Holds
  <2>7. Accounted'
    BY <2>4, <2>5 DEF Core, Accounted
  <2>8. Once'
    BY DEF Core, Once
  <2> QED
    BY <2>3, <2>6, <2>7, <2>8 DEF Core
<1>2. CASE cache[att[a].op].kind # "response" /\ Move(a, p) /\ UNCHANGED used
  <2>1. used' \in [Budgets -> Nat] /\ version' \in Nat
    BY <1>2 DEF Core, TypeOK
  <2>2. att[a].phase # "applied"
    BY DEF Running
  <2> QED
    BY <1>2, <2>1, <2>2, MoveInv
<1>3. CASE CallFails /\ Move(a, p)
  BY <1>3, NoFault DEF Core
<1> QED
  BY <1>1, <1>2, <1>3 DEF TryReplay

(* SET NX on an absent key: nobody runs, so nothing was carried out.       *)
LEMMA ReserveInv ==
  ASSUME Core, Calm', NEW a \in Attempts, Reserve(a)
  PROVE  Core'
<1> DEFINE o == att[a].op
<1>0. o \in Ops /\ att[a].phase = "missed" /\ UNCHANGED <<version, op>>
  BY DEF Core, TypeOK, Reserve
<1>1. CASE /\ cache[o].kind = "absent"
           /\ cache' = [cache EXCEPT ![o] = [kind |-> "inflight", by |-> a]]
           /\ Move(a, "reserved")
           /\ UNCHANGED used
  <2>1. TypeOK'
    BY <1>0, <1>1 DEF Core, TypeOK, Move, Entry, Phase
  <2>2. \A b \in Attempts : att[b].phase \in Running => att[b].op # o
    BY <1>1 DEF Core, Holds
  <2>3. att'[a].phase = "reserved" /\ att'[a].op = o
        /\ \A b \in Attempts : b # a => att'[b] = att[b]
    BY <1>1 DEF Core, TypeOK, Move
  <2>4. cache'[o].kind = "inflight" /\ cache'[o].by = a
        /\ \A k \in Ops : k # o => cache'[k] = cache[k]
    BY <1>0, <1>1 DEF Core, TypeOK
  <2>5. \A b \in Attempts : att[b].op \in Ops
    BY DEF Core, TypeOK
  <2>6. Holds'
    BY <2>2, <2>3, <2>4, <2>5 DEF Core, Holds
  <2>7. op[o].applied = {}
    <3> SUFFICES ASSUME NEW b \in op[o].applied PROVE FALSE
      OBVIOUS
    <3>1. b \in Attempts /\ att[b].op = o /\ att[b].phase = "applied"
      BY <1>0, <1>1 DEF Core, Accounted
    <3> QED
      BY <2>2, <3>1 DEF Running
  <2>8. Accounted'
    <3> SUFFICES ASSUME NEW k \in Ops, NEW b \in op'[k].applied
                 PROVE  b \in Attempts /\ att'[b].op = k
                        /\ (att'[b].phase = "applied" \/ cache'[k].kind = "response")
      BY DEF Accounted
    <3>1. b \in op[k].applied /\ k # o
      BY <1>0, <2>7
    <3>2. b \in Attempts /\ att[b].op = k
          /\ (att[b].phase = "applied" \/ cache[k].kind = "response")
      BY <3>1 DEF Core, Accounted
    <3>3. b # a
      BY <3>1, <3>2
    <3> QED
      BY <2>3, <2>4, <3>1, <3>2, <3>3
  <2>9. Once'
    BY <1>0 DEF Core, Once
  <2> QED
    BY <2>1, <2>6, <2>8, <2>9 DEF Core
<1>2. CASE cache[o].kind # "absent" /\ Move(a, "blocked") /\ UNCHANGED <<cache, used>>
  <2>1. "blocked" \in Phase /\ "blocked" \notin Running
    BY DEF Phase, Running
  <2>2. used' \in [Budgets -> Nat] /\ version' \in Nat
    BY <1>0, <1>2 DEF Core, TypeOK
  <2> QED
    BY <1>0, <1>2, <2>1, <2>2, MoveInv
<1>3. CASE CallFails
  BY <1>3, NoFault DEF Core
<1> QED
  BY <1>1, <1>2, <1>3 DEF Reserve

(* The holder of the key carries the edit out: it is the first to do so.   *)
LEMMA HandleInv ==
  ASSUME Core, NEW a \in Attempts, Handle(a)
  PROVE  Core'
<1> DEFINE o == att[a].op
<1>0. o \in Ops /\ att[a].phase = "checked" /\ UNCHANGED <<cache, used>>
  BY DEF Core, TypeOK, Handle
<1>1. cache[o].kind = "inflight" /\ cache[o].by = a
  BY <1>0 DEF Core, Holds, Running
<1>2. op[o].applied = {}
  <2> SUFFICES ASSUME NEW b \in op[o].applied PROVE FALSE
    OBVIOUS
  <2>1. b \in Attempts /\ att[b].op = o /\ att[b].phase = "applied"
    BY <1>0, <1>1 DEF Core, Accounted
  <2>2. cache[o].by = b
    BY <2>1 DEF Core, Holds, Running
  <2> QED
    BY <1>0, <1>1, <2>1, <2>2
<1>3. att'[a].phase = "applied" /\ att'[a].op = o
      /\ \A b \in Attempts : b # a => att'[b] = att[b]
  BY DEF Core, TypeOK, Handle, Move
<1>4. op'[o].applied = {a} /\ \A k \in Ops : k # o => op'[k] = op[k]
  BY <1>0, <1>2 DEF Core, TypeOK, Handle
<1>5. TypeOK'
  <2>1. op' \in [Ops -> [started : BOOLEAN, ifMatch : BOOLEAN, seen : Nat,
                         applied : SUBSET Attempts]]
    BY DEF Core, TypeOK, Handle
  <2>2. att' \in [Attempts -> [phase : Phase, op : Ops, got : Attempts \cup {NoOne}]]
    BY DEF Core, TypeOK, Handle, Move, Phase
  <2>3. version' \in Nat
    BY DEF Core, TypeOK, Handle
  <2> QED
    BY <1>0, <2>1, <2>2, <2>3 DEF Core, TypeOK
<1>6. Holds'
  BY <1>0, <1>1, <1>3 DEF Core, Holds
<1>7. Accounted'
  <2> SUFFICES ASSUME NEW k \in Ops, NEW b \in op'[k].applied
               PROVE  b \in Attempts /\ att'[b].op = k
                      /\ (att'[b].phase = "applied" \/ cache'[k].kind = "response")
    BY DEF Accounted
  <2>1. CASE k = o
    BY <1>3, <1>4, <2>1
  <2>2. CASE k # o
    <3>1. b \in Attempts /\ att[b].op = k
          /\ (att[b].phase = "applied" \/ cache[k].kind = "response")
      BY <1>4, <2>2 DEF Core, Accounted
    <3>2. b # a
      BY <2>2, <3>1
    <3> QED
      BY <1>0, <1>3, <3>1, <3>2
  <2> QED
    BY <2>1, <2>2
<1>8. Once'
  BY <1>4 DEF Core, Once
<1> QED
  BY <1>5, <1>6, <1>7, <1>8 DEF Core

(* The end of a request: what it does to the key, it does to its own.      *)
LEMMA EndInv ==
  ASSUME Core, Calm', NEW a \in Attempts, Store(a) \/ Drop(a)
  PROVE  Core'
<1> DEFINE o == att[a].op
<1>0. o \in Ops /\ att[a].phase \in {"applied", "refused"} /\ UNCHANGED <<version, op>>
  BY DEF Core, TypeOK, Store, Drop
<1>1. cache[o].kind = "inflight" /\ cache[o].by = a
  BY <1>0 DEF Core, Holds, Running
<1>2. \A b \in Attempts : b # a /\ att[b].phase \in Running => att[b].op # o
  BY <1>1 DEF Core, Holds
<1>3. /\ UNCHANGED used
      /\ att'[a].phase = "answered" /\ att'[a].op = o
      /\ \A b \in Attempts : b # a => att'[b] = att[b]
      /\ att' \in [Attempts -> [phase : Phase, op : Ops, got : Attempts \cup {NoOne}]]
  <2>0. "answered" \in Phase /\ TypeOK
    BY DEF Core, Phase
  <2>1. CASE Store(a)
    <3>1. UNCHANGED used
      BY <2>1, NoFault DEF Core, Store
    <3>2. att' = [att EXCEPT ![a].phase = "answered", ![a].got = a]
      BY <2>1 DEF Store
    <3> QED
      BY <2>0, <3>1, <3>2, AnswerType
  <2>2. CASE Drop(a)
    <3>1. UNCHANGED used
      BY <2>0, <2>2, NoFault DEF Drop
    <3>2. Move(a, "answered")
      BY <2>2 DEF Drop
    <3> QED
      BY <2>0, <3>1, <3>2, MoveType
  <2> QED
    BY <2>1, <2>2
<1>4. /\ cache' \in [Ops -> Entry]
      /\ \A k \in Ops : k # o => cache'[k] = cache[k]
      /\ att[a].phase = "applied" => cache'[o].kind = "response"
  <2>1. CASE Store(a)
    BY <1>0, <2>1, NoFault DEF Core, TypeOK, Store, Entry
  <2>2. CASE Drop(a)
    BY <1>0, <2>2, NoFault DEF Core, TypeOK, Drop, Entry, Absent
  <2> QED
    BY <2>1, <2>2
<1>5. TypeOK'
  BY <1>0, <1>3, <1>4 DEF Core, TypeOK
<1>6. \A b \in Attempts : att[b].op \in Ops
  BY DEF Core, TypeOK
<1>7. Holds'
  BY <1>2, <1>3, <1>4, <1>6 DEF Core, Holds, Running
<1>8. Accounted'
  <2> SUFFICES ASSUME NEW k \in Ops, NEW b \in op'[k].applied
               PROVE  b \in Attempts /\ att'[b].op = k
                      /\ (att'[b].phase = "applied" \/ cache'[k].kind = "response")
    BY DEF Accounted
  <2>1. b \in Attempts /\ att[b].op = k
        /\ (att[b].phase = "applied" \/ cache[k].kind = "response")
    BY <1>0 DEF Core, Accounted
  <2>2. CASE k # o
    <3>1. b # a
      BY <2>1, <2>2
    <3> QED
      BY <1>3, <1>4, <2>1, <2>2, <3>1
  <2>3. CASE k = o
    <3>1. att[b].phase = "applied"
      BY <1>1, <2>1, <2>3
    <3>2. b = a
      BY <1>2, <2>1, <2>3, <3>1 DEF Running
    <3> QED
      BY <1>3, <1>4, <2>3, <3>1, <3>2
  <2> QED
    BY <2>2, <2>3
<1>9. Once'
  BY <1>0 DEF Core, Once
<1> QED
  BY <1>5, <1>7, <1>8, <1>9 DEF Core

(* A reservation that may expire has no request behind it, so as  *)
(* long as it is calm nobody loses it.                                     *)
LEMMA ExpireInv ==
  ASSUME Core, Calm', NEW k \in Ops, Expire(k)
  PROVE  Core'
<1>0. UNCHANGED <<version, op, att>> /\ cache[k].kind = "inflight"
      /\ cache' = [cache EXCEPT ![k] = Absent]
  BY DEF Expire
<1>1. att[cache[k].by].phase \notin Running /\ UNCHANGED used
  BY NoFault DEF Expire, Core
<1>2. TypeOK'
  BY <1>0, <1>1 DEF Core, TypeOK, Entry, Absent
<1>3. \A b \in Attempts : att[b].phase \in Running => att[b].op # k
  BY <1>1 DEF Core, Holds
<1>4. \A i \in Ops : i # k => cache'[i] = cache[i]
  BY <1>0 DEF Core, TypeOK
<1>5. \A b \in Attempts : att[b].op \in Ops
  BY DEF Core, TypeOK
<1>6. Holds'
  BY <1>0, <1>3, <1>4, <1>5 DEF Core, Holds
<1>7. Accounted'
  <2> SUFFICES ASSUME NEW i \in Ops, NEW b \in op[i].applied
               PROVE  b \in Attempts /\ att[b].op = i
                      /\ (att[b].phase = "applied" \/ cache'[i].kind = "response")
    BY <1>0 DEF Accounted
  <2>1. b \in Attempts /\ att[b].op = i
        /\ (att[b].phase = "applied" \/ cache[i].kind = "response")
    BY DEF Core, Accounted
  <2> QED
    BY <1>0, <1>4, <2>1
<1>8. Once'
  BY <1>0 DEF Core, Once
<1> QED
  BY <1>2, <1>6, <1>7, <1>8 DEF Core

(* A client's start and a write by somebody else.                          *)
LEMMA OutsideInv ==
  ASSUME Core, Touch \/ \E o \in Ops, m \in BOOLEAN : Start(o, m)
  PROVE  Core'
<1>1. CASE Touch
  <2>1. TypeOK'
    BY <1>1 DEF Core, TypeOK, Touch, Spend, Budgets
  <2> QED
    BY <1>1, <2>1 DEF Core, Touch, Holds, Accounted, Once
<1>2. ASSUME NEW o \in Ops, NEW m \in BOOLEAN, Start(o, m) PROVE Core'
  <2>1. op' = [op EXCEPT ![o] = [started |-> TRUE, ifMatch |-> m,
                                 seen |-> version, applied |-> {}]]
        /\ UNCHANGED <<version, cache, att, used>>
    BY <1>2 DEF Start
  <2>2. TypeOK'
    BY <2>1 DEF Core, TypeOK
  <2>3. op'[o].applied = {} /\ \A k \in Ops : k # o => op'[k] = op[k]
    BY <2>1 DEF Core, TypeOK
  <2>4. Accounted'
    BY <2>1, <2>3 DEF Core, Accounted
  <2>5. Once'
    BY <2>3 DEF Core, Once
  <2> QED
    BY <2>1, <2>2, <2>4, <2>5 DEF Core, Holds
<1> QED
  BY <1>1, <1>2

LEMMA StepCore == Core /\ Calm' /\ [Next]_vars => Core'
<1> SUFFICES ASSUME Core, Calm', [Next]_vars PROVE Core'
  OBVIOUS
<1>1. CASE UNCHANGED vars
  BY <1>1 DEF vars, Core, TypeOK, Holds, Accounted, Once
<1>2. ASSUME NEW a \in Attempts, Arrive(a) \/ Blocked(a) PROVE Core'
  <2>1. "missed" \in Phase \ Running /\ "conflict" \in Phase \ Running
    BY DEF Phase, Running
  <2>2. att[a].phase \notin Running /\ UNCHANGED <<version, op, cache>>
    BY <1>2 DEF Arrive, Blocked, Running
  <2> QED
    BY <1>2, <2>1, <2>2, ReplayInv DEF Arrive, Blocked
<1>3. ASSUME NEW a \in Attempts, EtagCheck(a) \/ HandlerFails(a) PROVE Core'
  <2>1. att[a].phase \in {"reserved", "checked"} /\ UNCHANGED <<version, op, cache, used>>
    BY <1>3, NoFault DEF EtagCheck, HandlerFails, Core
  <2>2. PICK p \in {"checked", "refused"} : Move(a, p)
    BY <1>3 DEF EtagCheck, HandlerFails
  <2>3. p \in Phase /\ p \in Running /\ att[a].phase \in Running /\ att[a].phase # "applied"
    BY <2>1 DEF Phase, Running
  <2>4. version' \in Nat /\ used' \in [Budgets -> Nat]
    BY <2>1 DEF Core, TypeOK
  <2> QED
    BY <2>1, <2>2, <2>3, <2>4, MoveInv
<1>4. ASSUME NEW a \in Attempts, Die(a) PROVE Core'
  BY <1>4, NoFault DEF Die, Core
<1> QED
  BY <1>1, <1>2, <1>3, <1>4, ReserveInv, HandleInv, EndInv, ExpireInv, OutsideInv DEF Next

(* Budgets only grow, so it was calm before if it is calm after.           *)
LEMMA CalmBefore == TypeOK /\ [Next]_vars /\ Calm' => Calm
<1> SUFFICES ASSUME TypeOK, Next, Calm' PROVE Calm
  BY DEF vars, Calm
<1>1. Touch => Calm
  BY DEF TypeOK, Touch, Spend, Calm, Budgets
<1>2. ~Touch => UNCHANGED used
  BY NoFault DEF Next, Start, Arrive, Reserve, Blocked, TryReplay, EtagCheck, Handle,
                 HandlerFails, Store, Drop, Die, Expire
<1> QED
  BY <1>1, <1>2 DEF Calm

LEMMA StepInv == Inv /\ [Next]_vars => Inv'
  BY StepType, StepCore, CalmBefore DEF Inv

(* Every reachable state is typed, whatever faults occur.                  *)
THEOREM RetryTypeCorrect == Spec => []TypeOK
  BY InitType, StepType, PTL DEF Spec

(* Until the first fault, for any number of edits and attempts: an edit is *)
(* executed at most once, which is what IdempotencyMiddleware's docstring  *)
(* promises.                                                               *)
THEOREM CalmAtMostOnce == Spec => []AtMostOnce
<1>1. Inv => AtMostOnce
  BY DEF Inv, Core, AtMostOnce, Once
<1> QED
  BY InitInv, StepInv, <1>1, PTL DEF Spec

(* Until the first fault an attempt of an edit that was carried out is not *)
(* refused, although the edit itself moved the ETag it would be held       *)
(* against.                                                                *)
THEOREM CalmRetryNotRefused == Spec => []RetryNotRefused
<1>1. Inv => RetryNotRefused
  <2> SUFFICES ASSUME Core, NEW a \in Attempts, att[a].phase = "refused",
                      NEW b \in op[att[a].op].applied
               PROVE  FALSE
    BY DEF Inv, RetryNotRefused
  <2>1. att[a].op \in Ops
    BY DEF Core, TypeOK
  <2>2. cache[att[a].op].kind = "inflight" /\ cache[att[a].op].by = a
    BY DEF Core, Holds, Running
  <2>3. b \in Attempts /\ att[b].op = att[a].op /\ att[b].phase = "applied"
    BY <2>1, <2>2 DEF Core, Accounted
  <2>4. cache[att[a].op].by = b
    BY <2>3 DEF Core, Holds, Running
  <2> QED
    BY <2>2, <2>3, <2>4
<1> QED
  BY InitInv, StepInv, <1>1, PTL DEF Spec

(* Until the first fault a stored response is neither deleted nor          *)
(* overwritten, though Store and Drop act on whatever the key holds.       *)
THEOREM CalmReplayStable == Spec => ReplayStable
<1>1. Inv /\ [Next]_vars
      => [Calm' => \A o \in Ops : cache[o].kind = "response" => cache'[o] = cache[o]]_vars
  <2> SUFFICES ASSUME Core, Next, NEW o \in Ops, cache[o].kind = "response"
               PROVE  cache'[o] = cache[o]
    BY CalmBefore DEF Inv
  <2>1. ASSUME NEW a \in Attempts, Reserve(a) PROVE cache'[o] = cache[o]
    BY <2>1 DEF Reserve, Core, TypeOK
  <2>2. ASSUME NEW a \in Attempts, Store(a) \/ Drop(a) PROVE cache'[o] = cache[o]
    <3>1. cache[att[a].op].kind = "inflight" /\ att[a].op \in Ops
      BY <2>2 DEF Store, Drop, Core, Holds, Running, TypeOK
    <3> QED
      BY <2>2, <3>1 DEF Store, Drop, Core, TypeOK
  <2>3. ASSUME NEW k \in Ops, Expire(k) PROVE cache'[o] = cache[o]
    BY <2>3 DEF Expire, Core, TypeOK
  <2>4. ASSUME NEW a \in Attempts,
               \/ Arrive(a) \/ Blocked(a) \/ EtagCheck(a)
               \/ Handle(a) \/ HandlerFails(a) \/ Die(a)
        PROVE  cache'[o] = cache[o]
    BY <2>4 DEF Arrive, Blocked, EtagCheck, Handle, HandlerFails, Die
  <2>5. ASSUME Touch \/ \E k \in Ops, m \in BOOLEAN : Start(k, m)
        PROVE  cache'[o] = cache[o]
    BY <2>5 DEF Touch, Start
  <2> QED
    BY <2>1, <2>2, <2>3, <2>4, <2>5 DEF Next
<1> QED
  BY InitInv, StepInv, <1>1, PTL DEF Spec, ReplayStable

-----------------------------------------------------------------------------
(* Through the faults as well: nothing is known of an edit before it is    *)
(* started, and whoever is at "applied", or has its response stored or     *)
(* replayed, was carried out.                                              *)

Unstarted ==
  \A o \in Ops : ~op[o].started
    => /\ cache[o].kind = "absent"
       /\ \A a \in Attempts : att[a].op = o => att[a].phase = "new"

Backed ==
  /\ \A o \in Ops : cache[o].kind = "response" => cache[o].by \in op[o].applied
  /\ \A a \in Attempts : att[a].phase = "applied" => a \in op[att[a].op].applied

TruthInv == TypeOK /\ Unstarted /\ Backed /\ ReplayIsTrue

LEMMA InitTruth == Init => TruthInv
<1> SUFFICES ASSUME Init PROVE TruthInv
  OBVIOUS
<1>1. TypeOK
  BY InitType
<1>2. \A a \in Attempts : att[a].phase = "new"
  BY DEF Init
<1>3. \A o \in Ops : cache[o].kind = "absent"
  BY DEF Init, Absent
<1> QED
  BY <1>1, <1>2, <1>3 DEF TruthInv, Unstarted, Backed, ReplayIsTrue

(* An attempt of an edit that was started moves on, and neither the edit   *)
(* nor its key is touched.                                                 *)
LEMMA MoveTruth ==
  ASSUME TruthInv, NEW a \in Attempts, NEW p \in Phase \ {"applied", "replayed"},
         Move(a, p), op[att[a].op].started, UNCHANGED <<op, cache>>
  PROVE  (Unstarted /\ Backed /\ ReplayIsTrue)'
<1>1. /\ att'[a].phase = p /\ att'[a].op = att[a].op /\ att'[a].got = att[a].got
      /\ \A b \in Attempts : b # a => att'[b] = att[b]
  BY DEF TruthInv, TypeOK, Move
<1>2. Unstarted'
  BY <1>1 DEF TruthInv, Unstarted
<1>3. Backed'
  BY <1>1 DEF TruthInv, Backed
<1>4. ReplayIsTrue'
  BY <1>1 DEF TruthInv, ReplayIsTrue
<1> QED
  BY <1>2, <1>3, <1>4

(* What is replayed is a stored response.                                  *)
LEMMA ReplayTruth ==
  ASSUME TruthInv, NEW a \in Attempts, NEW p \in {"missed", "conflict"}, TryReplay(a, p),
         op[att[a].op].started, UNCHANGED <<op, cache>>
  PROVE  (Unstarted /\ Backed /\ ReplayIsTrue)'
<1>1. p \in Phase \ {"applied", "replayed"}
  BY DEF Phase
<1>2. CASE Move(a, p)
  BY <1>1, <1>2, MoveTruth
<1>3. CASE ~Move(a, p)
  <2> DEFINE e == cache[att[a].op]
  <2>1. e.kind = "response" /\ att' = [att EXCEPT ![a].phase = "replayed", ![a].got = e.by]
    BY <1>3 DEF TryReplay
  <2>2. /\ att'[a].phase = "replayed" /\ att'[a].op = att[a].op /\ att'[a].got = e.by
        /\ \A b \in Attempts : b # a => att'[b] = att[b]
    BY <2>1 DEF TruthInv, TypeOK
  <2>3. att[a].op \in Ops
    BY DEF TruthInv, TypeOK
  <2>4. e.by \in op[att[a].op].applied
    BY <2>1, <2>3 DEF TruthInv, Backed
  <2>5. Unstarted'
    BY <2>2 DEF TruthInv, Unstarted
  <2>6. Backed'
    BY <2>2 DEF TruthInv, Backed
  <2>7. ReplayIsTrue'
    BY <2>2, <2>4 DEF TruthInv, ReplayIsTrue
  <2> QED
    BY <2>5, <2>6, <2>7
<1> QED
  BY <1>2, <1>3

LEMMA StepTruth == TruthInv /\ [Next]_vars => TruthInv'
<1> SUFFICES ASSUME TruthInv, [Next]_vars PROVE (Unstarted /\ Backed /\ ReplayIsTrue)'
  BY StepType DEF TruthInv
<1>0. \A a \in Attempts : att[a].op \in Ops
  BY DEF TruthInv, TypeOK
<1>1. CASE UNCHANGED <<op, cache, att>>
  BY <1>1 DEF TruthInv, Unstarted, Backed, ReplayIsTrue
<1>2. ASSUME NEW o \in Ops, NEW m \in BOOLEAN, Start(o, m)
      PROVE  (Unstarted /\ Backed /\ ReplayIsTrue)'
  <2>1. /\ op'[o].started /\ ~op[o].started
        /\ \A q \in Ops : q # o => op'[q] = op[q]
        /\ UNCHANGED <<cache, att>>
    BY <1>2 DEF Start, TruthInv, TypeOK
  <2>2. /\ cache[o].kind = "absent"
        /\ \A a \in Attempts : att[a].op = o => att[a].phase = "new"
    BY <2>1 DEF TruthInv, Unstarted
  <2>3. Unstarted'
    BY <2>1 DEF TruthInv, Unstarted
  <2>4. Backed'
    BY <1>0, <2>1, <2>2 DEF TruthInv, Backed
  <2>5. ReplayIsTrue'
    BY <1>0, <2>1, <2>2 DEF TruthInv, ReplayIsTrue
  <2> QED
    BY <2>3, <2>4, <2>5
<1>3. ASSUME NEW a \in Attempts, att[a].phase # "new" PROVE op[att[a].op].started
  BY <1>0, <1>3 DEF TruthInv, Unstarted
<1>4. ASSUME NEW a \in Attempts, Arrive(a) \/ Blocked(a)
      PROVE  (Unstarted /\ Backed /\ ReplayIsTrue)'
  <2>1. op[att[a].op].started /\ UNCHANGED <<op, cache>>
    BY <1>3, <1>4 DEF Arrive, Blocked
  <2> QED
    BY <1>4, <2>1, ReplayTruth DEF Arrive, Blocked
<1>5. ASSUME NEW a \in Attempts, EtagCheck(a) \/ HandlerFails(a) \/ Die(a)
      PROVE  (Unstarted /\ Backed /\ ReplayIsTrue)'
  <2>1. op[att[a].op].started /\ UNCHANGED <<op, cache>>
    BY <1>3, <1>5 DEF EtagCheck, HandlerFails, Die, Running
  <2>2. PICK p \in {"checked", "refused", "dead"} : Move(a, p)
    BY <1>5 DEF EtagCheck, HandlerFails, Die
  <2>3. p \in Phase \ {"applied", "replayed"}
    BY DEF Phase
  <2> QED
    BY <2>1, <2>2, <2>3, MoveTruth
<1>6. ASSUME NEW a \in Attempts, Reserve(a) PROVE (Unstarted /\ Backed /\ ReplayIsTrue)'
  <2>1. op[att[a].op].started /\ UNCHANGED op
    BY <1>3, <1>6 DEF Reserve
  <2>2. PICK p \in {"reserved", "blocked"} : Move(a, p)
    BY <1>6 DEF Reserve
  <2>3. /\ att'[a].phase = p /\ att'[a].op = att[a].op /\ att'[a].got = att[a].got
        /\ \A b \in Attempts : b # a => att'[b] = att[b]
    BY <2>2 DEF TruthInv, TypeOK, Move
  <2>4. \A o \in Ops : cache'[o] = cache[o] \/ (o = att[a].op /\ cache'[o].kind = "inflight")
    BY <1>6 DEF Reserve, TruthInv, TypeOK
  <2>5. Unstarted'
    BY <2>1, <2>3, <2>4 DEF TruthInv, Unstarted
  <2>6. Backed'
    BY <2>1, <2>3, <2>4 DEF TruthInv, Backed
  <2>7. ReplayIsTrue'
    BY <2>1, <2>3 DEF TruthInv, ReplayIsTrue
  <2> QED
    BY <2>5, <2>6, <2>7
<1>7. ASSUME NEW a \in Attempts, Handle(a) PROVE (Unstarted /\ Backed /\ ReplayIsTrue)'
  <2>1. op[att[a].op].started /\ UNCHANGED cache
    BY <1>3, <1>7 DEF Handle
  <2>2. /\ att'[a].phase = "applied" /\ att'[a].op = att[a].op /\ att'[a].got = att[a].got
        /\ \A b \in Attempts : b # a => att'[b] = att[b]
    BY <1>7 DEF Handle, TruthInv, TypeOK, Move
  <2>3. /\ \A o \in Ops : op'[o].started = op[o].started /\ op[o].applied \subseteq op'[o].applied
        /\ a \in op'[att[a].op].applied
    BY <1>0, <1>7 DEF Handle, TruthInv, TypeOK
  <2>4. Unstarted'
    BY <1>0, <2>1, <2>2, <2>3 DEF TruthInv, Unstarted
  <2>5. Backed'
    BY <1>0, <2>1, <2>2, <2>3 DEF TruthInv, Backed
  <2>6. ReplayIsTrue'
    BY <1>0, <2>1, <2>2, <2>3 DEF TruthInv, ReplayIsTrue
  <2> QED
    BY <2>4, <2>5, <2>6
<1>8. ASSUME NEW a \in Attempts, Store(a) \/ Drop(a)
      PROVE  (Unstarted /\ Backed /\ ReplayIsTrue)'
  <2>1. op[att[a].op].started /\ UNCHANGED op
    BY <1>3, <1>8 DEF Store, Drop
  <2>2. /\ att'[a].phase = "answered" /\ att'[a].op = att[a].op
        /\ \A b \in Attempts : b # a => att'[b] = att[b]
    BY <1>8 DEF Store, Drop, TruthInv, TypeOK, Move
  <2>3. \A o \in Ops : \/ cache'[o] = cache[o]
                       \/ o = att[a].op /\ cache'[o].kind = "absent"
                       \/ /\ o = att[a].op /\ cache'[o].by = a
                          /\ att[a].phase = "applied"
    BY <1>0, <1>8 DEF Store, Drop, Absent, TruthInv, TypeOK
  <2>4. att[a].phase = "applied" => a \in op[att[a].op].applied
    BY DEF TruthInv, Backed
  <2>5. Unstarted'
    BY <2>1, <2>2, <2>3 DEF TruthInv, Unstarted
  <2>6. Backed'
    BY <2>1, <2>2, <2>3, <2>4 DEF TruthInv, Backed
  <2>7. ReplayIsTrue'
    BY <2>1, <2>2 DEF TruthInv, ReplayIsTrue
  <2> QED
    BY <2>5, <2>6, <2>7
<1>9. ASSUME NEW o \in Ops, Expire(o) PROVE (Unstarted /\ Backed /\ ReplayIsTrue)'
  <2>1. /\ \A q \in Ops : cache'[q] = cache[q] \/ cache'[q].kind = "absent"
        /\ UNCHANGED <<op, att>>
    BY <1>9 DEF Expire, Absent, TruthInv, TypeOK
  <2> QED
    BY <2>1 DEF TruthInv, Unstarted, Backed, ReplayIsTrue
<1> QED
  BY <1>1, <1>2, <1>4, <1>5, <1>6, <1>7, <1>8, <1>9 DEF Next, Touch, vars

(* Whatever is slow, dies or cannot reach Redis: a replayed response is    *)
(* the response of an attempt that carried the edit out.                   *)
THEOREM ReplaysAreTrue == Spec => []ReplayIsTrue
<1>1. TruthInv => ReplayIsTrue
  BY DEF TruthInv
<1> QED
  BY InitTruth, StepTruth, <1>1, PTL DEF Spec

-----------------------------------------------------------------------------
(***************************************************************************)
(* Uploads. That an attachment in processing has help is not inductive:    *)
(* finalize sends the message before it commits the row, and a message can *)
(* be spent by then. It is once the row that a finalize has updated but    *)
(* not yet committed Needs help like one that is in processing, and help   *)
(* is a message or a worker whose insert will not fail because another     *)
(* task replaced the chunks since it looked at them (Useful). The commit   *)
(* that makes the other tasks on a row useless takes the row out of        *)
(* processing, and waits for a finalize that has it locked.                *)
(***************************************************************************)

(* The types, without the bound of the queue.                              *)
Fin == [phase : {"idle", "read", "marked"}, att : Atts]
Work == [phase : {"idle", "read", "deleted", "inserted"}, att : Atts,
         generation : Nat, config : Configs, locks : BOOLEAN]

Typed ==
  /\ row \in [Atts -> [status : Status, deleted : BOOLEAN]]
  /\ chunks \in [Atts -> [generation : Nat, config : Configs]]
  /\ queue \in [Atts -> Nat]
  /\ fin \in [Requests -> Fin]
  /\ work \in [Workers -> Work]
  /\ config \in Configs
  /\ spent \in [AttachBudgets -> Nat]

LEMMA FinSet ==
  ASSUME NEW f \in Fin
  PROVE  /\ [f EXCEPT !.phase = "marked"] \in Fin /\ IdleFin(f.att) \in Fin
         /\ [f EXCEPT !.phase = "marked"].phase = "marked"
         /\ [f EXCEPT !.phase = "marked"].att = f.att
         /\ f.att \in Atts
BY DEF Fin, IdleFin

LEMMA IdleWorks ==
  ASSUME NEW a \in Atts
  PROVE  /\ IdleWork(a) \in Work /\ IdleWork(a).phase = "idle"
         /\ [IdleWork(a) EXCEPT !.phase = "read"] \in Work
         /\ [IdleWork(a) EXCEPT !.phase = "read"].phase = "read"
         /\ [IdleWork(a) EXCEPT !.phase = "read"].att = a
<1>1. AnyConfig \in Configs
  BY AttachmentsAssumption DEF AnyConfig
<1> QED BY <1>1 DEF IdleWork, Work

LEMMA WorkSet ==
  ASSUME NEW u \in Work
  PROVE  /\ u.att \in Atts /\ u.config \in Configs /\ u.generation \in Nat
         /\ \A g \in Nat, c \in Configs, l \in BOOLEAN :
              [u EXCEPT !.phase = "deleted", !.generation = g, !.config = c, !.locks = l] \in Work
         /\ [u EXCEPT !.phase = "inserted", !.locks = TRUE] \in Work
<1>1. ASSUME NEW g \in Nat, NEW c \in Configs, NEW l \in BOOLEAN
      PROVE [u EXCEPT !.phase = "deleted", !.generation = g, !.config = c, !.locks = l] \in Work
  BY DEF Work
<1>2. [u EXCEPT !.phase = "inserted", !.locks = TRUE] \in Work
  BY DEF Work
<1>3. u.att \in Atts /\ u.config \in Configs /\ u.generation \in Nat
  BY DEF Work
<1> QED BY <1>1, <1>2, <1>3, Zenon

-----------------------------------------------------------------------------
(* A task that will finish what it has begun: nobody has replaced the      *)
(* chunks since it looked at them.                                         *)
Useful(w, a) ==
  /\ work[w].att = a
  /\ \/ work[w].phase \in {"read", "inserted"}
     \/ work[w].phase = "deleted" /\ work[w].generation = chunks[a].generation

Helped(a) == queue[a] > 0 \/ \E w \in Workers : Useful(w, a)

(* What somebody is about to mark, or has marked, as being processed has   *)
(* help on its way; and a row whose UPDATE is uncommitted is not deleted.  *)
Needs(a) == RowLocked(a) \/ (row[a].status = "processing" /\ Live(a))
HelpedInv == NoSilentFailure => \A a \in Atts : Needs(a) => Helped(a)
LockedLive == \A a \in Atts : RowLocked(a) => ~row[a].deleted

AttachInv == Typed /\ LockedLive /\ HelpedInv

LEMMA AttachStarts == AttachInit => AttachInv
<1> SUFFICES ASSUME AttachInit PROVE AttachInv
  OBVIOUS
<1>1. AnyConfig \in Configs
  BY AttachmentsAssumption DEF AnyConfig
<1>2. Typed
  <2>1. work \in [Workers -> Work]
    <3>1. \A w \in Workers : \E a \in Atts : work[w] = IdleWork(a)
      BY DEF AttachInit
    <3>2. \A a \in Atts : IdleWork(a) \in Work
      BY IdleWorks
    <3>3. \A w \in Workers : work[w] \in Work
      BY <3>1, <3>2, Zenon
    <3> QED BY <3>3 DEF AttachInit
  <2>2. fin \in [Requests -> Fin]
    BY DEF AttachInit, IdleFin, Fin
  <2> QED BY <1>1, <2>1, <2>2 DEF AttachInit, Typed, NoChunks, Status
<1>3. \A a \in Atts : ~RowLocked(a) /\ row[a].status = "absent"
  <2>1. \A r \in Requests : \E a \in Atts : fin[r] = IdleFin(a)
    BY DEF AttachInit
  <2>2. \A r \in Requests : fin[r].phase = "idle"
    <3>1. \A a \in Atts : IdleFin(a).phase = "idle"
      BY DEF IdleFin
    <3> QED BY <2>1, <3>1
  <2> QED BY <2>2 DEF AttachInit, RowLocked
<1> QED BY <1>2, <1>3 DEF AttachInv, LockedLive, HelpedInv, Needs, Live

(* What a step has to show: types, the lock, and that whoever needs help   *)
(* afterwards has it.                                                      *)
LEMMA Preserved ==
  ASSUME AttachInv, Typed', LockedLive', NoSilentFailure' => NoSilentFailure,
         NoSilentFailure' => \A a \in Atts : (Needs(a)' /\ (Needs(a) => Helped(a))) => Helped(a)'
  PROVE  AttachInv'
<1>1. HelpedInv'
  BY DEF AttachInv, HelpedInv
<1> QED BY <1>1 DEF AttachInv

(* Steps that leave the tasks and the queue alone.                         *)
LEMMA TasksRest ==
  ASSUME AttachInv, Typed', LockedLive', NoSilentFailure' => NoSilentFailure,
         UNCHANGED <<queue, work>>,
         \A a \in Atts : chunks'[a].generation = chunks[a].generation,
         \A a \in Atts : Needs(a)' => Needs(a)
  PROVE  AttachInv'
<1>1. \A a \in Atts : Helped(a) => Helped(a)'
  BY DEF Helped, Useful
<1> QED BY <1>1, Preserved

(* AttachBudgets only grow.                                                      *)
LEMMA Spent ==
  ASSUME Typed, NEW b \in AttachBudgets, SpendOne(b)
  PROVE  /\ spent' \in [AttachBudgets -> Nat] /\ (NoSilentFailure' => NoSilentFailure)
         /\ b \in {"failure", "broker"} => ~NoSilentFailure'
BY DEF Typed, SpendOne, NoSilentFailure, AttachBudgets

LEMMA FinEnds ==
  ASSUME Typed, NEW r \in Requests, EndFin(r)
  PROVE  /\ fin' \in [Requests -> Fin]
         /\ \A a \in Atts : RowLocked(a)' => RowLocked(a)
<1>1. IdleFin(fin[r].att) \in Fin
  BY FinSet DEF Typed
<1>2. fin' = [fin EXCEPT ![r] = IdleFin(fin[r].att)] /\ IdleFin(fin[r].att).phase = "idle"
  BY DEF EndFin, IdleFin
<1> QED BY <1>1, <1>2 DEF Typed, RowLocked

LEMMA WorkEnds ==
  ASSUME Typed, NEW w \in Workers, EndWork(w)
  PROVE  /\ work' \in [Workers -> Work]
         /\ \A v \in Workers \ {w} : work'[v] = work[v]
BY IdleWorks, WorkSet DEF Typed, EndWork

(* The API.                                                                *)
LEMMA ApiStep ==
  ASSUME AttachInv,
         \/ \E a \in Atts : PresignUpload(a) \/ Delete(a)
         \/ \E a \in Atts, kind \in Blob \ {"none"} : Upload(a, kind)
         \/ \E r \in Requests, a \in Atts : FinalizeRead(r, a)
         \/ \E r \in Requests : FinalizeMissing(r) \/ FinalizeCommit(r) \/ FinalizeLost(r)
         \/ \E r \in Requests, via \in {"rest", "mcp"} : FinalizeOversize(r, via)
         \/ \E c \in Configs : SetTextSearchConfig(c)
  PROVE  AttachInv'
<1> USE DEF AttachInv
<1>1. ASSUME NEW a \in Atts, PresignUpload(a) PROVE AttachInv'
  <2>1. Typed'
    BY <1>1 DEF PresignUpload, Typed, Status
  <2>2. /\ \A b \in Atts \ {a} : row'[b] = row[b]
        /\ row'[a].status = "pending" /\ ~row'[a].deleted
        /\ UNCHANGED <<fin, queue, work, chunks, spent>>
    BY <1>1 DEF PresignUpload, Typed
  <2>3. LockedLive'
    BY <2>2 DEF LockedLive, RowLocked
  <2>4. \A b \in Atts : Needs(b)' => Needs(b)
    BY <2>2 DEF Needs, RowLocked, Live
  <2> QED BY <2>1, <2>2, <2>3, <2>4, TasksRest DEF NoSilentFailure
<1>2. ASSUME NEW a \in Atts, Delete(a) PROVE AttachInv'
  <2>1. Typed'
    BY <1>2 DEF Delete, Typed
  <2>2. /\ \A b \in Atts \ {a} : row'[b] = row[b]
        /\ row'[a].deleted /\ ~RowLocked(a)
        /\ UNCHANGED <<fin, queue, work, chunks, spent>>
    BY <1>2 DEF Delete, Typed
  <2>3. LockedLive'
    BY <2>2 DEF LockedLive, RowLocked
  <2>4. \A b \in Atts : Needs(b)' => Needs(b)
    BY <2>2 DEF Needs, RowLocked, Live
  <2> QED BY <2>1, <2>2, <2>3, <2>4, TasksRest DEF NoSilentFailure
<1>3. ASSUME NEW a \in Atts, NEW kind \in Blob \ {"none"}, Upload(a, kind) PROVE AttachInv'
  <2>1. "upload" \in AttachBudgets
    BY DEF AttachBudgets
  <2>2. spent' \in [AttachBudgets -> Nat] /\ (NoSilentFailure' => NoSilentFailure)
    BY <1>3, <2>1, Spent DEF Upload
  <2>3. Typed' /\ LockedLive' /\ \A b \in Atts : Needs(b)' => Needs(b)
    BY <1>3, <2>2 DEF Upload, Typed, LockedLive, Needs, RowLocked, Live
  <2> QED BY <1>3, <2>2, <2>3, TasksRest DEF Upload
<1>4. ASSUME NEW r \in Requests, NEW a \in Atts, FinalizeRead(r, a) PROVE AttachInv'
  <2>1. "finalize" \in AttachBudgets
    BY DEF AttachBudgets
  <2>2. spent' \in [AttachBudgets -> Nat] /\ (NoSilentFailure' => NoSilentFailure)
    BY <1>4, <2>1, Spent DEF FinalizeRead
  <2>3. [phase |-> "read", att |-> a] \in Fin
    BY DEF Fin
  <2>4. Typed'
    BY <1>4, <2>2, <2>3 DEF FinalizeRead, Typed
  <2>5. \A b \in Atts : RowLocked(b)' => RowLocked(b)
    BY <1>4 DEF FinalizeRead, RowLocked, Typed
  <2>6. LockedLive' /\ \A b \in Atts : Needs(b)' => Needs(b)
    BY <1>4, <2>5 DEF FinalizeRead, LockedLive, Needs, Live
  <2> QED BY <1>4, <2>2, <2>4, <2>6, TasksRest DEF FinalizeRead
<1>5. ASSUME NEW r \in Requests, FinalizeMissing(r) \/ FinalizeLost(r) PROVE AttachInv'
  <2>1. "crash" \in AttachBudgets
    BY DEF AttachBudgets
  <2>2. spent' \in [AttachBudgets -> Nat] /\ (NoSilentFailure' => NoSilentFailure)
    BY <1>5, <2>1, Spent DEF FinalizeMissing, FinalizeLost, Typed, NoSilentFailure
  <2>3. EndFin(r) /\ UNCHANGED <<row, blob, chunks, queue, work, config>>
    BY <1>5 DEF FinalizeMissing, FinalizeLost
  <2>4. Typed'
    BY <2>2, <2>3, FinEnds DEF Typed
  <2>5. \A b \in Atts : RowLocked(b)' => RowLocked(b)
    BY <2>3, FinEnds
  <2>6. LockedLive' /\ \A b \in Atts : Needs(b)' => Needs(b)
    BY <2>3, <2>5 DEF LockedLive, Needs, Live
  <2> QED BY <2>2, <2>3, <2>4, <2>6, TasksRest
<1>6. ASSUME NEW r \in Requests, FinalizeCommit(r) PROVE AttachInv'
  <2> DEFINE a == fin[r].att
  <2>1. a \in Atts /\ RowLocked(a)
    BY <1>6, FinSet DEF FinalizeCommit, RowLocked, Typed
  <2>2. EndFin(r) /\ UNCHANGED <<blob, chunks, queue, work, config, spent>>
    BY <1>6 DEF FinalizeCommit
  <2>3. row' \in [Atts -> [status : Status, deleted : BOOLEAN]]
    BY <1>6, <2>1 DEF FinalizeCommit, Typed, Status
  <2>4. /\ \A b \in Atts \ {a} : row'[b] = row[b]
        /\ row'[a].deleted = row[a].deleted
    BY <1>6, <2>1 DEF FinalizeCommit, Typed
  <2>5. Typed'
    BY <2>2, <2>3, FinEnds DEF Typed
  <2>6. \A b \in Atts : RowLocked(b)' => RowLocked(b)
    BY <2>2, FinEnds
  <2>7. LockedLive'
    BY <2>1, <2>4, <2>6 DEF LockedLive
  <2>8. \A b \in Atts : Needs(b)' => Needs(b)
    BY <2>1, <2>4, <2>6 DEF Needs, Live
  <2> QED BY <2>2, <2>5, <2>7, <2>8, TasksRest DEF NoSilentFailure
<1>7. ASSUME NEW r \in Requests, NEW via \in {"rest", "mcp"}, FinalizeOversize(r, via)
      PROVE  AttachInv'
  <2> DEFINE a == fin[r].att
  <2>1. a \in Atts
    BY FinSet DEF Typed
  <2>2. EndFin(r) /\ UNCHANGED <<chunks, queue, work, config, spent>>
    BY <1>7 DEF FinalizeOversize
  <2>3. row' \in [Atts -> [status : Status, deleted : BOOLEAN]]
    BY <1>7, <2>1 DEF FinalizeOversize, Typed, Status
  <2>4. \A b \in Atts : /\ row'[b].deleted = row[b].deleted
                        /\ row'[b].status = row[b].status \/ row'[b].status = "failed"
    BY <1>7, <2>1 DEF FinalizeOversize, Typed
  <2>5. Typed'
    BY <2>2, <2>3, FinEnds DEF Typed
  <2>6. \A b \in Atts : RowLocked(b)' => RowLocked(b)
    BY <2>2, FinEnds
  <2>7. LockedLive'
    BY <2>4, <2>6 DEF LockedLive
  <2>8. \A b \in Atts : Needs(b)' => Needs(b)
    BY <2>4, <2>6 DEF Needs, Live
  <2> QED BY <2>2, <2>5, <2>7, <2>8, TasksRest DEF NoSilentFailure
<1>8. ASSUME NEW c \in Configs, SetTextSearchConfig(c) PROVE AttachInv'
  <2>1. "config" \in AttachBudgets
    BY DEF AttachBudgets
  <2>2. spent' \in [AttachBudgets -> Nat] /\ (NoSilentFailure' => NoSilentFailure)
    BY <1>8, <2>1, Spent DEF SetTextSearchConfig
  <2>3. /\ chunks' \in [Atts -> [generation : Nat, config : Configs]]
        /\ \A a \in Atts : chunks'[a].generation = chunks[a].generation
    BY <1>8 DEF SetTextSearchConfig, ReanalyseScope, Typed
  <2>4. Typed' /\ LockedLive' /\ \A b \in Atts : Needs(b)' => Needs(b)
    BY <1>8, <2>2, <2>3 DEF SetTextSearchConfig, Typed, LockedLive, Needs, RowLocked, Live
  <2> QED BY <1>8, <2>2, <2>3, <2>4, TasksRest DEF SetTextSearchConfig
<1> QED BY <1>1, <1>2, <1>3, <1>4, <1>5, <1>6, <1>7, <1>8

LEMMA MarkStep ==
  ASSUME AttachInv, NEW r \in Requests, NEW sent \in BOOLEAN, FinalizeMark(r, sent)
  PROVE  AttachInv'
<1> USE DEF AttachInv
<1>0. PICK a \in Atts : a = fin[r].att
  BY FinSet DEF Typed
<1>1. a \in Atts /\ a = fin[r].att /\ fin[r] \in Fin
  BY <1>0 DEF Typed
<1>2. UNCHANGED <<blob, chunks, work, config>> /\ ~RowLocked(a)
  BY <1>1 DEF FinalizeMark
<1>3. CASE row[a].deleted
  <2>1. EndFin(r) /\ UNCHANGED <<row, queue, spent>>
    BY <1>1, <1>3 DEF FinalizeMark
  <2>2. Typed'
    BY <1>2, <2>1, FinEnds DEF Typed
  <2>3. \A b \in Atts : RowLocked(b)' => RowLocked(b)
    BY <2>1, FinEnds
  <2>4. LockedLive' /\ \A b \in Atts : Needs(b)' => Needs(b)
    BY <2>1, <2>3 DEF LockedLive, Needs, Live
  <2> QED BY <1>2, <2>1, <2>2, <2>4, TasksRest DEF NoSilentFailure
<1>4. CASE ~row[a].deleted
  <2> DEFINE f == [fin[r] EXCEPT !.phase = "marked"]
  <2>1. f \in Fin /\ f.att = a
    BY <1>1, FinSet
  <2>2. fin' = [fin EXCEPT ![r] = f] /\ UNCHANGED row
    BY <1>1, <1>4 DEF FinalizeMark, Typed
  <2> HIDE DEF f
  <2>3. fin' \in [Requests -> Fin] /\ \A b \in Atts \ {a} : RowLocked(b)' => RowLocked(b)
    BY <1>1, <2>1, <2>2 DEF Typed, RowLocked
  <2>4. LockedLive'
    BY <1>4, <2>2, <2>3 DEF LockedLive
  <2>5. \A b \in Atts \ {a} : Needs(b)' => Needs(b)
    BY <2>2, <2>3 DEF Needs, Live
  <2>6. CASE sent
    <3>1. queue' = [queue EXCEPT ![a] = @ + 1] /\ UNCHANGED spent
      BY <1>1, <1>4, <2>6 DEF FinalizeMark
    <3>2. /\ queue' \in [Atts -> Nat] /\ queue'[a] > 0
          /\ \A b \in Atts : queue[b] > 0 => queue'[b] > 0
      BY <1>1, <3>1 DEF Typed
    <3>3. Helped(a)' /\ \A b \in Atts : Helped(b) => Helped(b)'
      BY <1>1, <1>2, <3>2 DEF Helped, Useful
    <3>4. Typed'
      BY <1>2, <2>2, <2>3, <3>1, <3>2 DEF Typed
    <3> QED BY <2>4, <2>5, <3>1, <3>3, <3>4, Preserved DEF NoSilentFailure
  <2>7. CASE ~sent
    <3>1. SpendOne("broker") /\ UNCHANGED queue /\ "broker" \in AttachBudgets
      BY <1>1, <1>4, <2>7 DEF FinalizeMark, AttachBudgets
    <3>2. spent' \in [AttachBudgets -> Nat] /\ ~NoSilentFailure'
      BY <3>1, Spent
    <3>3. Typed'
      BY <1>2, <2>2, <2>3, <3>1, <3>2 DEF Typed
    <3> QED BY <2>4, <3>2, <3>3, Preserved
  <2> QED BY <2>6, <2>7
<1>5. row[a].deleted \in BOOLEAN
  BY <1>1 DEF Typed
<1> QED BY <1>3, <1>4, <1>5

(* The tasks leave the finalize calls alone.                               *)
LEMMA FinRests ==
  ASSUME Typed, UNCHANGED fin, \A a \in Atts : row'[a].deleted = row[a].deleted, LockedLive
  PROVE  LockedLive' /\ \A a \in Atts : RowLocked(a)' <=> RowLocked(a)
BY DEF LockedLive, RowLocked

(* A worker's step: the other workers are as useful as before, except for  *)
(* an attachment whose chunks it replaces.                                 *)
LEMMA OthersHelp ==
  ASSUME NEW w \in Workers, NEW a \in Atts, \A v \in Workers \ {w} : work'[v] = work[v],
         chunks'[a].generation = chunks[a].generation,
         queue[a] > 0 => queue'[a] > 0,
         Useful(w, a) => Useful(w, a)' \/ queue'[a] > 0,
         Helped(a)
  PROVE  Helped(a)'
BY DEF Helped, Useful

LEMMA TaskStep ==
  ASSUME AttachInv, NEW w \in Workers,
         \/ \E a \in Atts : TaskRead(w, a)
         \/ TaskFailed(w) \/ TaskDelete(w) \/ TaskInsert(w) \/ TaskCommit(w)
         \/ WorkerDies(w) \/ TaskRaises(w) \/ ChildDies(w)
  PROVE  AttachInv'
<1> USE DEF AttachInv
<1>9. PICK mine \in Atts : mine = work[w].att
  BY WorkSet DEF Typed
<1>0. work[w] \in Work /\ mine \in Atts /\ work[w].att = mine
  BY <1>9 DEF Typed
<1>1. ASSUME NEW a \in Atts, TaskRead(w, a) PROVE AttachInv'
  <2> DEFINE u == IF row[a].deleted THEN IdleWork(a) ELSE [IdleWork(a) EXCEPT !.phase = "read"]
  <2>1. u \in Work /\ (~row[a].deleted => u.phase = "read" /\ u.att = a)
    BY IdleWorks
  <2>2. /\ work' = [work EXCEPT ![w] = u] /\ queue' = [queue EXCEPT ![a] = @ - 1]
        /\ queue[a] > 0 /\ work[w].phase = "idle"
        /\ UNCHANGED <<row, blob, chunks, fin, config, spent>>
    BY <1>1 DEF TaskRead
  <2> HIDE DEF u
  <2>3. /\ queue' \in [Atts -> Nat] /\ work' \in [Workers -> Work] /\ work'[w] = u
        /\ \A v \in Workers \ {w} : work'[v] = work[v]
        /\ \A b \in Atts \ {a} : queue'[b] = queue[b]
    BY <2>1, <2>2 DEF Typed
  <2>4. Typed'
    BY <2>2, <2>3 DEF Typed
  <2>5. LockedLive' /\ \A b \in Atts : Needs(b)' => Needs(b)
    BY <2>2 DEF LockedLive, Needs, RowLocked, Live
  <2>6. Needs(a) => Helped(a)'
    <3>1. Needs(a) => ~row[a].deleted
      BY DEF Needs, LockedLive, Live
    <3>2. ~row[a].deleted => Useful(w, a)'
      BY <2>1, <2>3 DEF Useful
    <3> QED BY <3>1, <3>2 DEF Helped
  <2>7. \A b \in Atts \ {a} : Helped(b) => Helped(b)'
    <3>1. \A b \in Atts : ~Useful(w, b)
      BY <2>2 DEF Useful
    <3> QED BY <2>2, <2>3, <3>1, OthersHelp
  <2> QED BY <2>2, <2>4, <2>5, <2>6, <2>7, Preserved DEF NoSilentFailure
<1>2. ASSUME TaskFailed(w) PROVE AttachInv'
  <2>1. /\ EndWork(w) /\ ~RowLocked(mine) /\ row' = [row EXCEPT ![mine].status = "failed"]
        /\ UNCHANGED <<blob, chunks, queue, fin, config, spent>>
    BY <1>0, <1>2 DEF TaskFailed
  <2>2. /\ row' \in [Atts -> [status : Status, deleted : BOOLEAN]]
        /\ \A b \in Atts \ {mine} : row'[b] = row[b]
        /\ row'[mine].status = "failed" /\ row'[mine].deleted = row[mine].deleted
    BY <1>0, <2>1 DEF Typed, Status
  <2>3. work' \in [Workers -> Work] /\ \A v \in Workers \ {w} : work'[v] = work[v]
    BY <2>1, WorkEnds
  <2>4. Typed'
    BY <2>1, <2>2, <2>3 DEF Typed
  <2>5. LockedLive' /\ \A b \in Atts : RowLocked(b)' <=> RowLocked(b)
    BY <2>1, <2>2, FinRests
  <2>6. ~Needs(mine)' /\ \A b \in Atts \ {mine} : Needs(b)' => Needs(b)
    BY <1>0, <2>1, <2>2, <2>5 DEF Needs, Live
  <2>7. \A b \in Atts \ {mine} : Helped(b) => Helped(b)'
    <3>1. \A b \in Atts \ {mine} : ~Useful(w, b)
      BY <1>0 DEF Useful
    <3> QED BY <2>1, <2>3, <3>1, OthersHelp
  <2> QED BY <2>1, <2>4, <2>5, <2>6, <2>7, Preserved DEF NoSilentFailure
<1>3. ASSUME TaskDelete(w) PROVE AttachInv'
  <2> DEFINE l == chunks[mine].generation > 0 /\ ~ChunksLocked(w)
             u == [work[w] EXCEPT !.phase = "deleted", !.generation = chunks[mine].generation,
                                  !.config = config, !.locks = l]
  <2>1. /\ work' = [work EXCEPT ![w] = u]
        /\ UNCHANGED <<row, blob, chunks, queue, fin, config, spent>>
    BY <1>0, <1>3 DEF TaskDelete, Typed
  <2>2. u \in Work
    <3>1. chunks[mine].generation \in Nat /\ config \in Configs /\ l \in BOOLEAN
      BY <1>0 DEF Typed
    <3> HIDE DEF l
    <3> QED BY <1>0, <3>1, WorkSet
  <2>3. u.phase = "deleted" /\ u.att = mine /\ u.generation = chunks[mine].generation
    BY <1>0 DEF Work
  <2> HIDE DEF u, l
  <2>4. /\ work' \in [Workers -> Work] /\ work'[w] = u
        /\ \A v \in Workers \ {w} : work'[v] = work[v]
    BY <2>1, <2>2 DEF Typed
  <2>5. Typed' /\ LockedLive' /\ \A b \in Atts : Needs(b)' => Needs(b)
    BY <2>1, <2>4 DEF Typed, LockedLive, Needs, RowLocked, Live
  <2>6. \A b \in Atts : Useful(w, b) => Useful(w, b)'
    BY <1>0, <2>1, <2>3, <2>4 DEF Useful
  <2>7. \A b \in Atts : Helped(b) => Helped(b)'
    BY <2>1, <2>4, <2>6, OthersHelp
  <2> QED BY <2>1, <2>5, <2>7, Preserved DEF NoSilentFailure
<1>4. ASSUME TaskInsert(w) PROVE AttachInv'
  <2> DEFINE u == [work[w] EXCEPT !.phase = "inserted", !.locks = TRUE]
  <2>1. /\ work[w].phase = "deleted"
        /\ UNCHANGED <<row, blob, chunks, queue, fin, config, spent>>
    BY <1>0, <1>4 DEF TaskInsert
  <2>2. /\ work' \in [Workers -> Work]
        /\ \A v \in Workers \ {w} : work'[v] = work[v]
        /\ chunks[mine].generation = work[w].generation
             => work'[w].phase = "inserted" /\ work'[w].att = mine
    <3>1. CASE chunks[mine].generation = work[w].generation
      <4>1. work' = [work EXCEPT ![w] = u]
        BY <1>0, <1>4, <3>1 DEF TaskInsert, Typed
      <4>2. u \in Work
        BY <1>0, WorkSet
      <4>3. u.phase = "inserted" /\ u.att = mine
        BY <1>0 DEF Work
      <4> HIDE DEF u
      <4> QED BY <4>1, <4>2, <4>3 DEF Typed
    <3>2. CASE chunks[mine].generation # work[w].generation
      BY <1>0, <1>4, <3>2, WorkEnds DEF TaskInsert
    <3> QED BY <3>1, <3>2
  <2>3. Typed' /\ LockedLive' /\ \A b \in Atts : Needs(b)' => Needs(b)
    BY <2>1, <2>2 DEF Typed, LockedLive, Needs, RowLocked, Live
  <2>4. \A b \in Atts : Useful(w, b) => Useful(w, b)'
    BY <1>0, <2>1, <2>2 DEF Useful
  <2>5. \A b \in Atts : Helped(b) => Helped(b)'
    BY <2>1, <2>2, <2>4, OthersHelp
  <2> QED BY <2>1, <2>3, <2>5, Preserved DEF NoSilentFailure
<1>5. ASSUME TaskCommit(w) PROVE AttachInv'
  <2> DEFINE k == [generation |-> chunks[mine].generation + 1, config |-> work[w].config]
  <2>1. /\ EndWork(w) /\ ~RowLocked(mine) /\ row' = [row EXCEPT ![mine].status = "ready"]
        /\ chunks' = [chunks EXCEPT ![mine] = k]
        /\ UNCHANGED <<blob, queue, fin, config, spent>>
    BY <1>0, <1>5 DEF TaskCommit
  <2>2. /\ row' \in [Atts -> [status : Status, deleted : BOOLEAN]]
        /\ \A b \in Atts \ {mine} : row'[b] = row[b]
        /\ row'[mine].status = "ready" /\ row'[mine].deleted = row[mine].deleted
    BY <1>0, <2>1 DEF Typed, Status
  <2>3. k \in [generation : Nat, config : Configs]
    <3>1. chunks[mine].generation + 1 \in Nat
      BY <1>0 DEF Typed
    <3>2. work[w].config \in Configs
      BY <1>0, WorkSet
    <3> QED BY <3>1, <3>2
  <2> HIDE DEF k
  <2>4. /\ chunks' \in [Atts -> [generation : Nat, config : Configs]]
        /\ \A b \in Atts \ {mine} : chunks'[b] = chunks[b]
    BY <2>1, <2>3 DEF Typed
  <2>5. work' \in [Workers -> Work] /\ \A v \in Workers \ {w} : work'[v] = work[v]
    BY <2>1, WorkEnds
  <2>6. Typed'
    BY <2>1, <2>2, <2>4, <2>5 DEF Typed
  <2>7. LockedLive' /\ \A b \in Atts : RowLocked(b)' <=> RowLocked(b)
    BY <2>1, <2>2, FinRests
  <2>8. ~Needs(mine)' /\ \A b \in Atts \ {mine} : Needs(b)' => Needs(b)
    BY <1>0, <2>1, <2>2, <2>7 DEF Needs, Live
  <2>9. \A b \in Atts \ {mine} : Helped(b) => Helped(b)'
    <3>1. \A b \in Atts \ {mine} : ~Useful(w, b)
      BY <1>0 DEF Useful
    <3> QED BY <2>1, <2>4, <2>5, <3>1, OthersHelp
  <2> QED BY <2>1, <2>6, <2>7, <2>8, <2>9, Preserved DEF NoSilentFailure
<1>6. ASSUME WorkerDies(w) PROVE AttachInv'
  <2>1. /\ EndWork(w) /\ queue' = [queue EXCEPT ![mine] = @ + 1] /\ SpendOne("crash")
        /\ UNCHANGED <<row, blob, chunks, fin, config>> /\ "crash" \in AttachBudgets
    BY <1>0, <1>6 DEF WorkerDies, AttachBudgets
  <2>2. spent' \in [AttachBudgets -> Nat] /\ (NoSilentFailure' => NoSilentFailure)
    BY <2>1, Spent
  <2>3. work' \in [Workers -> Work] /\ \A v \in Workers \ {w} : work'[v] = work[v]
    BY <2>1, WorkEnds
  <2>4. /\ queue' \in [Atts -> Nat] /\ queue'[mine] > 0
        /\ \A b \in Atts : queue[b] > 0 => queue'[b] > 0
    BY <1>0, <2>1 DEF Typed
  <2>5. Typed' /\ LockedLive' /\ \A b \in Atts : Needs(b)' => Needs(b)
    BY <2>1, <2>2, <2>3, <2>4 DEF Typed, LockedLive, Needs, RowLocked, Live
  <2>6. \A b \in Atts : Helped(b) => Helped(b)'
    <3>1. \A b \in Atts : Useful(w, b) => queue'[b] > 0
      BY <1>0, <2>4 DEF Useful
    <3> QED BY <2>1, <2>3, <2>4, <3>1, OthersHelp
  <2> QED BY <2>2, <2>5, <2>6, Preserved
<1>7. ASSUME TaskRaises(w) \/ ChildDies(w) PROVE AttachInv'
  <2>1. /\ EndWork(w) /\ SpendOne("failure") /\ "failure" \in AttachBudgets
        /\ UNCHANGED <<row, blob, chunks, queue, fin, config>>
    BY <1>7 DEF TaskRaises, ChildDies, AttachBudgets
  <2>2. spent' \in [AttachBudgets -> Nat] /\ ~NoSilentFailure'
    BY <2>1, Spent
  <2>3. work' \in [Workers -> Work]
    BY <2>1, WorkEnds
  <2>4. Typed' /\ LockedLive'
    BY <2>1, <2>2, <2>3 DEF Typed, LockedLive, RowLocked
  <2> QED BY <2>2, <2>4, Preserved
<1> QED BY <1>1, <1>2, <1>3, <1>4, <1>5, <1>6, <1>7

LEMMA AttachStep == AttachInv /\ [AttachNext]_attachVars => AttachInv'
<1> SUFFICES ASSUME AttachInv, [AttachNext]_attachVars PROVE AttachInv'
  OBVIOUS
<1>1. CASE UNCHANGED attachVars
  <2>1. Typed'
    BY <1>1 DEF attachVars, AttachInv, Typed
  <2>2. LockedLive' /\ HelpedInv'
    BY <1>1 DEF attachVars, AttachInv, LockedLive, HelpedInv, NoSilentFailure, Needs, Helped,
       RowLocked, Live, Useful
  <2> QED BY <2>1, <2>2 DEF AttachInv
<1>2. CASE AttachNext
  BY <1>2, ApiStep, MarkStep, TaskStep DEF AttachNext
<1> QED BY <1>1, <1>2

(* NothingStranded: finalize sends the task before its commit and refuses  *)
(* a row that is being processed (finalize, process_attachment), yet such  *)
(* a row always has a message or a task that will take it out of there,    *)
(* until a failure leaves nothing to try again: an exception outside the   *)
(* task's try, a pool process that dies, a broker that refuses.            *)
THEOREM NobodyIsStranded == AttachSpec => []NothingStranded
<1>1. AttachInv => NothingStranded
  <2> SUFFICES ASSUME AttachInv, NEW a \in Atts, NoSilentFailure, Needs(a)
               PROVE  \/ queue[a] > 0
                      \/ \E w \in Workers : work[w].phase # "idle" /\ work[w].att = a
    BY DEF NothingStranded, Needs
  <2> QED BY DEF AttachInv, HelpedInv, Helped, Useful
<1> QED BY <1>1, AttachStarts, AttachStep, PTL DEF AttachSpec

(* UnstemmedOnlyByRace: "changing the setting re-analyses the memories and *)
(* attachment chunks already in that project" (scale.md), so that only a   *)
(* task that was waiting for the embedder during the change leaves chunks  *)
(* stemmed with the old configuration.                                     *)
THEOREM ChunksFollowTheSetting == AttachSpec => UnstemmedOnlyByRace
<1> DEFINE Falls ==
      \A a \in Atts :
        Stemmed(a) /\ ~Stemmed(a)'
        => \E w \in Workers : /\ work[w].att = a /\ work[w].phase = "inserted"
                              /\ work[w].config # config
                              /\ config' = config
<1>1. AttachInv /\ [AttachNext]_attachVars => [Falls]_attachVars
  <2> SUFFICES ASSUME AttachInv, [AttachNext]_attachVars, NEW a \in Atts, Stemmed(a), ~Stemmed(a)'
               PROVE  \E w \in Workers : /\ work[w].att = a /\ work[w].phase = "inserted"
                                         /\ work[w].config # config
                                         /\ config' = config
    OBVIOUS
  <2>1. ASSUME NEW c \in Configs, SetTextSearchConfig(c) PROVE FALSE
    BY <2>1 DEF SetTextSearchConfig, ReanalyseScope, Stemmed, AttachInv, Typed
  <2>2. ASSUME NEW w \in Workers, TaskCommit(w)
        PROVE  /\ work[w].att = a /\ work[w].phase = "inserted"
               /\ work[w].config # config /\ config' = config
    <3>1. work[w].att = a
      BY <2>2 DEF TaskCommit, Stemmed, AttachInv, Typed
    <3>2. work[w].config # config
      BY <2>2, <3>1 DEF TaskCommit, Stemmed, AttachInv, Typed
    <3> QED BY <2>2, <3>1, <3>2 DEF TaskCommit
  <2>3. UNCHANGED <<chunks, config>> => FALSE
    BY DEF Stemmed
  <2> QED BY <2>1, <2>2, <2>3 DEF AttachNext, attachVars, PresignUpload, Upload, FinalizeRead, FinalizeMissing,
             FinalizeOversize, FinalizeMark, FinalizeCommit, FinalizeLost, Delete, TaskRead,
             TaskFailed, TaskDelete, TaskInsert, WorkerDies, TaskRaises,
             ChildDies
<1> QED BY <1>1, AttachStarts, AttachStep, PTL DEF AttachSpec, UnstemmedOnlyByRace
=============================================================================
