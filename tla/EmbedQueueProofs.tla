--------------------------- MODULE EmbedQueueProofs ---------------------------
(* Proofs about EmbedQueue, for any number of memories, ticks and requests. *)
EXTENDS EmbedQueue, TLAPS

(* The defaults of idle ticks and requests have their types.               *)
LEMMA DefaultsTyped == AnyBody \in Bodies /\ AnyModel \in Models
  BY EmbedQueueAssumption DEF AnyBody, AnyModel

(* The facts about the constants the leaves below need, one at a time.     *)
LEMMA ZeroTyped == 0 \in 0..MaxAttempts /\ 0 < MaxAttempts
  BY EmbedQueueAssumption

LEMMA BudgetsTyped ==
  /\ 0 \in 0..EditBudget /\ 0 \in 0..AbortBudget /\ 0 \in 0..ReleaseBudget
  /\ \A n \in 0..EditBudget : n < EditBudget => n + 1 \in 0..EditBudget
  /\ \A n \in 0..AbortBudget : n < AbortBudget => n + 1 \in 0..AbortBudget
  /\ \A n \in 0..ReleaseBudget : n < ReleaseBudget => n + 1 \in 0..ReleaseBudget
  BY EmbedQueueAssumption

(* Idle tick and request records have their types and no batch.            *)
LEMMA IdleTyped ==
  /\ IdleTick \in TickState
  /\ IdleTick.batch = {}
  /\ \A m \in Memories : IdleReq(m) \in ReqState
  BY DefaultsTyped, EmbedQueueAssumption DEF IdleTick, IdleReq, TickState, ReqState

(* One failure recorded against a row that was read with budget left keeps  *)
(* the row well-typed and within its budget (record_embed_failure).        *)
LEMMA RecordEmbedFailureOK ==
  ASSUME NEW r \in Row, NEW n \in 0..MaxAttempts, n < MaxAttempts,
         ~r.parked => r.attempts < MaxAttempts
  PROVE  /\ RecordEmbedFailure(r, n) \in Row
         /\ RecordEmbedFailure(r, n).attempts <= MaxAttempts
         /\ ~RecordEmbedFailure(r, n).parked
              => RecordEmbedFailure(r, n).attempts < MaxAttempts
<1>0. n + 1 \in 0..MaxAttempts /\ n + 1 <= MaxAttempts
  BY EmbedQueueAssumption
<1>1. CASE n + 1 >= MaxAttempts
  <2>1. RecordEmbedFailure(r, n)
          = [r EXCEPT !.attempts = n + 1, !.parked = TRUE, !.next = "null"]
    BY <1>1 DEF RecordEmbedFailure, DecideRetry
  <2> QED BY <1>0, <2>1 DEF Row
<1>2. CASE ~(n + 1 >= MaxAttempts)
  <2>1. RecordEmbedFailure(r, n)
          = [r EXCEPT !.attempts = n + 1, !.parked = r.parked, !.next = "future"]
    BY <1>2 DEF RecordEmbedFailure, DecideRetry
  <2>2. n + 1 < MaxAttempts
    BY <1>2, EmbedQueueAssumption
  <2> QED BY <1>0, <2>1, <2>2 DEF Row
<1> QED BY <1>1, <1>2

(* A successful embedding clears the failure state (set_embedding).        *)
LEMMA SetEmbeddingOK ==
  ASSUME NEW r \in Row, NEW b \in Bodies, NEW k \in Models
  PROVE  /\ SetEmbedding(r, b, k) \in Row
         /\ SetEmbedding(r, b, k).attempts = 0
         /\ ~SetEmbedding(r, b, k).parked
         /\ SetEmbedding(r, b, k).vec = b
         /\ SetEmbedding(r, b, k).body = r.body
         /\ SetEmbedding(r, b, k).next = "null"
  BY ZeroTyped DEF SetEmbedding, Row

(* An edit leaves the retry state alone (update_fields).                   *)
LEMMA UpdateFieldsOK ==
  ASSUME NEW r \in Row, NEW q \in ReqState, NEW b \in Bodies
  PROVE  /\ UpdateFields(r, q, b) \in Row
         /\ UpdateFields(r, q, b).attempts = r.attempts
         /\ UpdateFields(r, q, b).parked = r.parked
         /\ UpdateFields(r, q, b).next = r.next
         /\ q.hadVec => UpdateFields(r, q, b).vec = NoVec
         /\ ~q.hadVec => UpdateFields(r, q, b).vec = r.vec
  BY EmbedQueueAssumption DEF UpdateFields, Row, ReqState

Inv == TypeOK /\ RetryBudget

-----------------------------------------------------------------------------
LEMMA InitInv == Init => Inv
<1> SUFFICES ASSUME Init PROVE Inv
  OBVIOUS
<1>1. \A m \in Memories : row[m] \in Row /\ row[m].attempts = 0
  BY DefaultsTyped, ZeroTyped DEF Init, Row
<1>2. TypeOK
  <2>1. row \in [Memories -> Row]
    BY <1>1 DEF Init
  <2>2. tick \in [Ticks -> TickState]
    BY IdleTyped DEF Init
  <2>3. req \in [Requests -> ReqState]
    BY IdleTyped DEF Init
  <2> QED BY <2>1, <2>2, <2>3, DefaultsTyped, BudgetsTyped DEF Init, TypeOK
<1>3. RetryBudget
  BY <1>1, IdleTyped, EmbedQueueAssumption DEF Init, RetryBudget
<1> QED BY <1>2, <1>3 DEF Inv

LEMMA CreateInv ==
  ASSUME Inv, NEW m \in Memories, NEW b \in Bodies, NEW inline \in BOOLEAN,
         Create(m, b, inline)
  PROVE  Inv'
<1> USE DEF Inv, TypeOK
<1>1. /\ row' \in [Memories -> Row]
      /\ \A k \in Memories : row'[k].attempts = row[k].attempts /\ row'[k].parked = row[k].parked
  <2> DEFINE v == IF inline THEN b ELSE NoVec
             n == [row[m] EXCEPT !.status = "live", !.body = b, !.vec = v, !.vmodel = model]
  <2>1. v \in Bodies \cup {NoVec}
    OBVIOUS
  <2>2. row' = [row EXCEPT ![m] = n]
    BY DEF Create
  <2> HIDE DEF v
  <2>3. n \in Row /\ n.attempts = row[m].attempts /\ n.parked = row[m].parked
    BY <2>1 DEF Row
  <2> QED BY <2>2, <2>3
<1>2. TypeOK'
  BY <1>1 DEF Create
<1>3. RetryBudget'
  BY <1>1 DEF Create, RetryBudget
<1> QED BY <1>2, <1>3

LEMMA PatchInv ==
  ASSUME Inv, NEW r \in Requests,
         \/ \E m \in Memories : PatchLoad(r, m)
         \/ \E b \in Bodies : PatchCommit(r, b)
  PROVE  Inv'
<1> USE DEF Inv, TypeOK
<1>1. ASSUME NEW m \in Memories, PatchLoad(r, m) PROVE Inv'
  <2>1. req' \in [Requests -> ReqState]
    BY <1>1 DEF PatchLoad, ReqState, Row
  <2>2. TypeOK'
    BY <1>1, <2>1, EmbedQueueAssumption DEF PatchLoad
  <2>3. RetryBudget'
    BY <1>1 DEF PatchLoad, RetryBudget
  <2> QED BY <2>2, <2>3
<1>2. ASSUME NEW b \in Bodies, PatchCommit(r, b) PROVE Inv'
  <2> DEFINE m == req[r].mem
  <2>0. req[r] \in ReqState /\ m \in Memories
    BY DEF ReqState
  <2>1. /\ row' \in [Memories -> Row]
        /\ \A k \in Memories : row'[k].attempts = row[k].attempts /\ row'[k].parked = row[k].parked
    BY <1>2, <2>0, UpdateFieldsOK DEF PatchCommit
  <2>2. req' \in [Requests -> ReqState]
    BY <1>2, <2>0, IdleTyped DEF PatchCommit
  <2>3. TypeOK'
    BY <1>2, <2>1, <2>2 DEF PatchCommit
  <2>4. RetryBudget'
    BY <1>2, <2>1 DEF PatchCommit, RetryBudget
  <2> QED BY <2>3, <2>4
<1> QED BY <1>1, <1>2

LEMMA TickReadInv ==
  ASSUME Inv, NEW t \in Ticks, TickRead(t)
  PROVE  Inv'
<1> USE DEF Inv, TypeOK
<1> DEFINE text == [m \in Memories |-> IF m \in Batch THEN row[m].body ELSE AnyBody]
           seen == [m \in Memories |-> IF m \in Batch THEN row[m].attempts ELSE 0]
<1>0. Batch \subseteq Memories /\ \A m \in Batch : ~row[m].parked
  BY DEF Batch, Pending
<1>1. text \in [Memories -> Bodies] /\ seen \in [Memories -> 0..MaxAttempts]
  BY DefaultsTyped, EmbedQueueAssumption DEF Row
<1>2. [busy |-> TRUE, batch |-> Batch, model |-> model, text |-> text, seen |-> seen] \in TickState
  BY <1>0, <1>1 DEF TickState
<1>3. tick' = [tick EXCEPT ![t] =
         [busy |-> TRUE, batch |-> Batch, model |-> model, text |-> text, seen |-> seen]]
  BY DEF TickRead
<1> HIDE DEF text, seen
<1>4. tick' \in [Ticks -> TickState]
  BY <1>2, <1>3
<1>5. TypeOK'
  BY <1>4 DEF TickRead
<1>6. \A m \in Batch : seen[m] < MaxAttempts
  BY <1>0 DEF seen, RetryBudget
<1>7. RetryBudget'
  BY <1>3, <1>6 DEF TickRead, RetryBudget
<1> QED BY <1>5, <1>7

LEMMA TickEndInv ==
  ASSUME Inv, NEW t \in Ticks,
         \/ \E bad \in SUBSET Memories : TickCommit(t, bad)
         \/ TickAbort(t)
  PROVE  Inv'
<1> USE DEF Inv, TypeOK
<1>1. ASSUME NEW bad \in SUBSET Memories, TickCommit(t, bad) PROVE Inv'
  <2>0. tick[t] \in TickState
    OBVIOUS
  <2>1. ASSUME NEW m \in Memories
        PROVE  /\ row'[m] \in Row
               /\ row'[m].attempts <= MaxAttempts
               /\ ~row'[m].parked => row'[m].attempts < MaxAttempts
    <3>1. CASE m \in bad
      <4>1. tick[t].seen[m] \in 0..MaxAttempts /\ tick[t].seen[m] < MaxAttempts
        BY <1>1, <3>1, <2>0 DEF TickCommit, RetryBudget, TickState
      <4>2. row'[m] = RecordEmbedFailure(row[m], tick[t].seen[m])
        BY <1>1, <3>1 DEF TickCommit
      <4> QED BY <4>1, <4>2, RecordEmbedFailureOK DEF RetryBudget
    <3>2. CASE m \notin bad /\ m \in tick[t].batch
      <4>1. row'[m] = SetEmbedding(row[m], tick[t].text[m], tick[t].model)
        BY <1>1, <3>2 DEF TickCommit
      <4>2. tick[t].text[m] \in Bodies /\ tick[t].model \in Models
        BY <2>0 DEF TickState
      <4> QED BY <4>1, <4>2, SetEmbeddingOK, ZeroTyped
    <3>3. CASE m \notin bad /\ m \notin tick[t].batch
      BY <1>1, <3>3 DEF TickCommit, RetryBudget
    <3> QED BY <3>1, <3>2, <3>3
  <2>2. row' \in [Memories -> Row]
    BY <1>1, <2>1 DEF TickCommit
  <2>3. tick' \in [Ticks -> TickState]
    BY <1>1, IdleTyped DEF TickCommit
  <2>4. RetryBudget'
    BY <1>1, <2>1, IdleTyped DEF TickCommit, RetryBudget
  <2> QED BY <1>1, <2>2, <2>3, <2>4 DEF TickCommit
<1>2. CASE TickAbort(t)
  <2>1. tick' \in [Ticks -> TickState]
    BY <1>2, IdleTyped DEF TickAbort
  <2>2. RetryBudget'
    BY <1>2, IdleTyped DEF TickAbort, RetryBudget
  <2> QED BY <1>2, <2>1, <2>2, EmbedQueueAssumption DEF TickAbort
<1> QED BY <1>1, <1>2

LEMMA OtherInv ==
  ASSUME Inv,
         \/ \E m \in Memories : Delete(m) \/ BackoffEnds(m)
         \/ RetryFailed
         \/ Reindex
         \/ \E k \in Models : Upgrade(k)
  PROVE  Inv'
<1> USE DEF Inv, TypeOK
<1>1. ASSUME NEW m \in Memories, Delete(m) \/ BackoffEnds(m) PROVE Inv'
  <2>1. /\ row' \in [Memories -> Row]
        /\ \A k \in Memories : row'[k].attempts = row[k].attempts /\ row'[k].parked = row[k].parked
    BY <1>1 DEF Delete, BackoffEnds, Row
  <2>2. TypeOK'
    BY <1>1, <2>1 DEF Delete, BackoffEnds
  <2>3. RetryBudget'
    BY <1>1, <2>1 DEF Delete, BackoffEnds, RetryBudget
  <2> QED BY <2>2, <2>3
<1>2. CASE RetryFailed
  <2>1. \A m \in Memories : /\ row'[m] \in Row
                            /\ \/ row'[m] = row[m]
                               \/ row'[m].attempts = 0
    <3> SUFFICES ASSUME NEW m \in Memories
                 PROVE  row'[m] \in Row /\ (row'[m] = row[m] \/ row'[m].attempts = 0)
      OBVIOUS
    <3>1. CASE Live(m) /\ row[m].parked
      BY <1>2, <3>1, ZeroTyped, ZenonT(60) DEF RetryFailed, Row
    <3>2. CASE ~(Live(m) /\ row[m].parked)
      BY <1>2, <3>2 DEF RetryFailed
    <3> QED BY <3>1, <3>2
  <2>2. row' \in [Memories -> Row]
    BY <1>2, <2>1 DEF RetryFailed
  <2>3. RetryBudget'
    <3>1. 0 <= MaxAttempts
      BY EmbedQueueAssumption
    <3>2. ASSUME NEW m \in Memories
          PROVE  /\ row'[m].attempts <= MaxAttempts
                 /\ ~row'[m].parked => row'[m].attempts < MaxAttempts
      BY <2>1, <3>1, ZeroTyped DEF RetryBudget
    <3> QED BY <1>2, <3>2 DEF RetryFailed, RetryBudget
  <2> QED BY <1>2, <2>2, <2>3, BudgetsTyped DEF RetryFailed
<1>3. ASSUME NEW k \in Models, Upgrade(k) PROVE Inv'
  BY <1>3 DEF Upgrade, RetryBudget
<1>4. CASE Reindex
  <2>1. \A m \in Memories : /\ row'[m] \in Row
                            /\ row'[m].attempts = row[m].attempts
                            /\ row'[m].parked = row[m].parked
    BY <1>4, SMTT(30) DEF Reindex, Row
  <2>2. row' \in [Memories -> Row]
    BY <1>4, <2>1 DEF Reindex
  <2>3. RetryBudget'
    BY <1>4, <2>1 DEF Reindex, RetryBudget
  <2> QED BY <1>4, <2>2, <2>3, BudgetsTyped DEF Reindex
<1> QED BY <1>1, <1>2, <1>3, <1>4

LEMMA StepInv == Inv /\ [Next]_vars => Inv'
<1> SUFFICES ASSUME Inv, [Next]_vars PROVE Inv'
  OBVIOUS
<1>1. CASE UNCHANGED vars
  BY <1>1 DEF Inv, TypeOK, RetryBudget, vars
<1>2. CASE Next
  BY <1>2, CreateInv, PatchInv, TickReadInv, TickEndInv, OtherInv DEF Next
<1> QED BY <1>1, <1>2

(* Every reachable state has the types of the columns and of what ticks    *)
(* and requests read, for any number of overlapping ticks.                 *)
THEOREM TypeCorrect == Spec => []TypeOK
<1>1. Inv => TypeOK
  BY DEF Inv
<1> QED BY <1>1, InitInv, StepInv, PTL DEF Spec

(* decide_retry's budget holds for any number of overlapping ticks: no row  *)
(* fails more than embed_max_attempts times, and none that list_pending_   *)
(* embedding can return has spent its budget.                              *)
THEOREM RetryBudgetHolds == Spec => []RetryBudget
<1>1. Inv => RetryBudget
  BY DEF Inv
<1> QED BY <1>1, InitInv, StepInv, PTL DEF Spec

-----------------------------------------------------------------------------
(* One worker process, one slot: ticks do not overlap.                     *)
Serial == \A t, u \in Ticks : t = u

SerialInv == Inv /\ NoLostCount /\ ParkedMeansStop

(* A step that keeps the retry columns of every row, and what the ticks     *)
(* read, keeps the serial invariant.                                       *)
LEMMA SameRetryState ==
  ASSUME SerialInv, Inv', tick' = tick,
         \A m \in Memories : /\ row'[m].attempts = row[m].attempts
                             /\ row'[m].parked = row[m].parked
                             /\ row[m].next = "null" => row'[m].next = "null"
  PROVE  SerialInv'
<1>1. NoLostCount'
  BY DEF SerialInv, Inv, TypeOK, TickState, NoLostCount
<1>2. ParkedMeansStop'
  BY DEF SerialInv, ParkedMeansStop
<1> QED BY <1>1, <1>2 DEF SerialInv

(* A failure recorded against an unparked row parks it exactly when its    *)
(* budget is spent, and then schedules nothing.                            *)
LEMMA FailureStops ==
  ASSUME NEW r \in Row, NEW n \in 0..MaxAttempts, n < MaxAttempts, ~r.parked,
         RecordEmbedFailure(r, n).parked
  PROVE  /\ RecordEmbedFailure(r, n).next = "null"
         /\ RecordEmbedFailure(r, n).attempts = MaxAttempts
<1>1. CASE n + 1 >= MaxAttempts
  <2>1. n + 1 = MaxAttempts
    BY <1>1, EmbedQueueAssumption
  <2>2. RecordEmbedFailure(r, n)
          = [r EXCEPT !.attempts = n + 1, !.parked = TRUE, !.next = "null"]
    BY <1>1 DEF RecordEmbedFailure, DecideRetry
  <2> QED BY <2>1, <2>2 DEF Row
<1>2. CASE ~(n + 1 >= MaxAttempts)
  <2>1. RecordEmbedFailure(r, n)
          = [r EXCEPT !.attempts = n + 1, !.parked = r.parked, !.next = "future"]
    BY <1>2 DEF RecordEmbedFailure, DecideRetry
  <2> QED BY <2>1 DEF Row
<1> QED BY <1>1, <1>2

LEMMA SerialTickRead ==
  ASSUME SerialInv, Inv', Serial, NEW t \in Ticks, TickRead(t)
  PROVE  SerialInv'
<1> USE DEF SerialInv, Inv, TypeOK
<1>1. \A m \in Batch : m \in Memories /\ ~row[m].parked
  BY DEF Batch, Pending
<1>2. tick'[t].batch = Batch /\ \A m \in Batch : tick'[t].seen[m] = row[m].attempts
  BY <1>1 DEF TickRead
<1>3. NoLostCount'
  BY <1>1, <1>2 DEF TickRead, NoLostCount, Serial
<1>4. ParkedMeansStop'
  BY DEF TickRead, ParkedMeansStop
<1> QED BY <1>3, <1>4

LEMMA SerialTickCommit ==
  ASSUME SerialInv, Inv', Serial, NEW t \in Ticks, NEW bad \in SUBSET Memories,
         TickCommit(t, bad)
  PROVE  SerialInv'
<1> USE DEF SerialInv, Inv, TypeOK
<1>1. NoLostCount'
  BY IdleTyped DEF TickCommit, NoLostCount, Serial
<1>2. ASSUME NEW m \in Memories, row'[m].parked
      PROVE  row'[m].next = "null" /\ row'[m].attempts = MaxAttempts
  <2>0. tick[t] \in TickState
    OBVIOUS
  <2>1. CASE m \in bad
    <3>1. row'[m] = RecordEmbedFailure(row[m], tick[t].seen[m])
      BY <2>1 DEF TickCommit
    <3>2. tick[t].seen[m] \in 0..MaxAttempts /\ tick[t].seen[m] < MaxAttempts
      BY <2>0, <2>1 DEF TickCommit, RetryBudget, TickState
    <3>3. ~row[m].parked
      BY <2>1 DEF TickCommit, NoLostCount
    <3> QED BY <1>2, <3>1, <3>2, <3>3, FailureStops
  <2>2. CASE m \notin bad /\ m \in tick[t].batch
    <3>1. row'[m] = SetEmbedding(row[m], tick[t].text[m], tick[t].model)
      BY <2>2 DEF TickCommit
    <3>2. tick[t].text[m] \in Bodies /\ tick[t].model \in Models
      BY <2>0 DEF TickState
    <3> QED BY <1>2, <3>1, <3>2, SetEmbeddingOK
  <2>3. CASE m \notin bad /\ m \notin tick[t].batch
    BY <1>2, <2>3 DEF TickCommit, ParkedMeansStop
  <2> QED BY <2>1, <2>2, <2>3
<1>3. ParkedMeansStop'
  BY <1>2 DEF ParkedMeansStop
<1> QED BY <1>1, <1>3

LEMMA SerialRetryFailed ==
  ASSUME SerialInv, Inv', RetryFailed
  PROVE  SerialInv'
<1> USE DEF SerialInv, Inv, TypeOK
<1>1. \A m \in Memories : ~row[m].parked => row'[m] = row[m]
  BY DEF RetryFailed
<1>2. ASSUME NEW m \in Memories, row'[m].parked PROVE row'[m] = row[m]
  <2>1. CASE Live(m) /\ row[m].parked
    <3>1. row'[m] = [row[m] EXCEPT !.attempts = 0, !.parked = FALSE, !.next = "null"]
      BY <2>1 DEF RetryFailed
    <3>2. row'[m].parked = FALSE
      BY <3>1 DEF Row
    <3> QED BY <1>2, <3>2
  <2>2. CASE ~(Live(m) /\ row[m].parked)
    BY <2>2 DEF RetryFailed
  <2> QED BY <2>1, <2>2
<1>3. NoLostCount'
  BY <1>1 DEF RetryFailed, NoLostCount, TickState
<1>4. ParkedMeansStop'
  BY <1>2 DEF ParkedMeansStop
<1> QED BY <1>3, <1>4

LEMMA SerialStep == SerialInv /\ Serial /\ [Next]_vars => SerialInv'
<1> SUFFICES ASSUME SerialInv, Serial, [Next]_vars PROVE SerialInv'
  OBVIOUS
<1>0. Inv'
  BY StepInv DEF SerialInv
<1> USE DEF SerialInv, Inv, TypeOK
<1>1. CASE UNCHANGED vars
  BY <1>0, <1>1, SameRetryState DEF vars
<1>2. ASSUME NEW m \in Memories, NEW b \in Bodies, NEW inline \in BOOLEAN,
             Create(m, b, inline)
      PROVE  SerialInv'
  <2>1. \A k \in Memories : /\ row'[k].attempts = row[k].attempts
                            /\ row'[k].parked = row[k].parked
                            /\ row'[k].next = row[k].next
    BY <1>2 DEF Create, Row
  <2> QED BY <1>0, <1>2, <2>1, SameRetryState DEF Create
<1>3. ASSUME NEW r \in Requests, NEW m \in Memories, PatchLoad(r, m) PROVE SerialInv'
  BY <1>0, <1>3, SameRetryState DEF PatchLoad
<1>4. ASSUME NEW r \in Requests, NEW b \in Bodies, PatchCommit(r, b) PROVE SerialInv'
  <2>1. req[r] \in ReqState /\ req[r].mem \in Memories
    BY DEF ReqState
  <2>2. \A k \in Memories : /\ row'[k].attempts = row[k].attempts
                            /\ row'[k].parked = row[k].parked
                            /\ row'[k].next = row[k].next
    BY <1>4, <2>1, UpdateFieldsOK DEF PatchCommit
  <2> QED BY <1>0, <1>4, <2>2, SameRetryState DEF PatchCommit
<1>5. ASSUME NEW m \in Memories, Delete(m) \/ BackoffEnds(m) PROVE SerialInv'
  <2>1. \A k \in Memories : /\ row'[k].attempts = row[k].attempts
                            /\ row'[k].parked = row[k].parked
                            /\ row[k].next = "null" => row'[k].next = "null"
    BY <1>5 DEF Delete, BackoffEnds, Row
  <2> QED BY <1>0, <1>5, <2>1, SameRetryState DEF Delete, BackoffEnds
<1>6. ASSUME NEW t \in Ticks, TickAbort(t) PROVE SerialInv'
  <2>1. NoLostCount'
    BY <1>6, IdleTyped DEF TickAbort, NoLostCount
  <2>2. ParkedMeansStop'
    BY <1>6 DEF TickAbort, ParkedMeansStop
  <2> QED BY <1>0, <2>1, <2>2
<1>7. ASSUME NEW k \in Models, Upgrade(k) PROVE SerialInv'
  BY <1>0, <1>7, SameRetryState DEF Upgrade
<1>12. CASE Reindex
  <2>1. \A k \in Memories : /\ row'[k].attempts = row[k].attempts
                            /\ row'[k].parked = row[k].parked
                            /\ row'[k].next = row[k].next
    BY <1>12 DEF Reindex, Row
  <2> QED BY <1>0, <1>12, <2>1, SameRetryState DEF Reindex
<1> HIDE DEF SerialInv, Inv, TypeOK
<1>8. ASSUME NEW t \in Ticks, TickRead(t) PROVE SerialInv'
  BY <1>0, <1>8, SerialTickRead
<1>9. ASSUME NEW t \in Ticks, NEW bad \in SUBSET Memories, TickCommit(t, bad)
      PROVE  SerialInv'
  BY <1>0, <1>9, SerialTickCommit
<1>10. CASE RetryFailed
  BY <1>0, <1>10, SerialRetryFailed
<1>11. CASE Next
  BY <1>2, <1>3, <1>4, <1>5, <1>6, <1>7, <1>8, <1>9, <1>10, <1>11, <1>12 DEF Next
<1> QED BY <1>1, <1>11

LEMMA SerialInit == Init => SerialInv
<1> SUFFICES ASSUME Init PROVE SerialInv
  OBVIOUS
<1>1. Inv
  BY InitInv
<1>2. NoLostCount
  BY IdleTyped DEF Init, NoLostCount
<1>3. ParkedMeansStop
  BY DEF Init, ParkedMeansStop
<1> QED BY <1>1, <1>2, <1>3 DEF SerialInv

(* When ticks do not overlap, a parked row has spent its whole budget and  *)
(* has no retry scheduled.                                                 *)
THEOREM ParkedStops == ASSUME Serial PROVE Spec => []ParkedMeansStop
<1>1. SerialInv => ParkedMeansStop
  BY DEF SerialInv
<1>2. SerialInv /\ [Next]_vars => SerialInv'
  BY SerialStep
<1> QED BY <1>1, <1>2, SerialInit, PTL DEF Spec

(* When ticks do not overlap, record_embed_failure starts from the count   *)
(* that is in the table: no failed attempt goes uncounted.                 *)
THEOREM CountsKept == ASSUME Serial PROVE Spec => []NoLostCount
<1>1. SerialInv => NoLostCount
  BY DEF SerialInv
<1>2. SerialInv /\ [Next]_vars => SerialInv'
  BY SerialStep
<1> QED BY <1>1, <1>2, SerialInit, PTL DEF Spec

(* A vector of an old text gets on a row only by the commit of a tick or   *)
(* of a PATCH whose SELECT was overtaken, however many of them overlap.    *)
THEOREM StaleByRace == Spec => StaleOnlyByRace
<1> DEFINE Races ==
      \A m \in Memories :
       (row[m].vec \in {NoVec, row[m].body} /\ row'[m].vec \notin {NoVec, row'[m].body})
       => \/ \E t \in Ticks : m \in tick[t].batch /\ tick[t].text[m] # row[m].body
          \/ \E r \in Requests : /\ req[r].busy /\ req[r].mem = m
                                 /\ ~req[r].hadVec /\ row[m].vec # NoVec
<1>1. Inv /\ [Next]_vars => [Races]_vars
  <2> SUFFICES ASSUME Inv, [Next]_vars, NEW m \in Memories,
                      row[m].vec \in {NoVec, row[m].body},
                      row'[m].vec \notin {NoVec, row'[m].body}
               PROVE  \/ \E t \in Ticks : m \in tick[t].batch /\ tick[t].text[m] # row[m].body
                      \/ \E r \in Requests : /\ req[r].busy /\ req[r].mem = m
                                             /\ ~req[r].hadVec /\ row[m].vec # NoVec
    OBVIOUS
  <2>0. row \in [Memories -> Row] /\ row[m] \in Row
    BY DEF Inv, TypeOK
  <2>1. row'[m].vec # row[m].vec \/ row'[m].body # row[m].body
    OBVIOUS
  <2>2. ASSUME NEW k \in Memories, NEW b \in Bodies, NEW inline \in BOOLEAN, Create(k, b, inline)
        PROVE  FALSE
    BY <2>0, <2>1, <2>2 DEF Create, Row
  <2>3. ASSUME NEW r \in Requests, NEW b \in Bodies, PatchCommit(r, b)
        PROVE  req[r].busy /\ req[r].mem = m /\ ~req[r].hadVec /\ row[m].vec # NoVec
    <3>1. req[r] \in ReqState /\ req[r].busy
      BY <2>3 DEF Inv, TypeOK, PatchCommit
    <3>2. req[r].mem = m /\ row'[m] = UpdateFields(row[m], req[r], b)
      BY <2>0, <2>1, <2>3, <3>1 DEF PatchCommit, ReqState
    <3>3. row'[m].vec = IF req[r].hadVec THEN NoVec ELSE row[m].vec
      BY <2>0, <3>2 DEF UpdateFields, Row
    <3> QED BY <3>1, <3>2, <3>3
  <2>4. ASSUME NEW t \in Ticks, NEW bad \in SUBSET Memories, TickCommit(t, bad)
        PROVE  m \in tick[t].batch /\ tick[t].text[m] # row[m].body
    <3>1. CASE m \in bad
      BY <2>0, <2>1, <2>4, <3>1 DEF TickCommit, RecordEmbedFailure, Row
    <3>2. CASE m \notin bad /\ m \notin tick[t].batch
      BY <2>1, <2>4, <3>2 DEF TickCommit
    <3>3. CASE m \notin bad /\ m \in tick[t].batch
      <4>1. row'[m] = SetEmbedding(row[m], tick[t].text[m], tick[t].model)
        BY <2>4, <3>3 DEF TickCommit
      <4>2. row'[m].vec = tick[t].text[m] /\ row'[m].body = row[m].body
        BY <2>0, <4>1 DEF SetEmbedding, Row
      <4> QED BY <3>3, <4>2
    <3> QED BY <3>1, <3>2, <3>3
  <2>5. ASSUME NEW k \in Memories, Delete(k) \/ BackoffEnds(k) PROVE FALSE
    BY <2>0, <2>1, <2>5 DEF Delete, BackoffEnds, Row
  <2>6. ASSUME RetryFailed PROVE FALSE
    BY <2>0, <2>1, <2>6 DEF RetryFailed, Row
  <2>7. ASSUME Reindex PROVE FALSE
    BY <2>0, <2>7 DEF Reindex, Row
  <2>8. UNCHANGED row => FALSE
    BY <2>1
  <2> QED
    BY <2>2, <2>3, <2>4, <2>5, <2>6, <2>7, <2>8
    DEF Next, vars, PatchLoad, TickRead, TickAbort, Upgrade
<1> QED BY <1>1, InitInv, StepInv, PTL DEF Spec, StaleOnlyByRace

=============================================================================
