------------------------------ MODULE EmbedQueue ------------------------------
(***************************************************************************)
(* The asynchronous embedding of memories: rows of the table "memories",   *)
(* the API requests that create, edit and delete them, and overlapping     *)
(* executions ("ticks") of the Celery task embed_pending.                  *)
(*                                                                         *)
(* A tick is ONE transaction: it reads the pending rows, waits for the     *)
(* embedding provider, writes vectors or failures by row id and commits.   *)
(* The values it writes depend only on what it read (the rows stay in the  *)
(* session's identity map, so record_embed_failure sees the attempt count  *)
(* of the first SELECT), and its row locks only delay other writers.  The  *)
(* writes therefore take effect at the commit step; what can happen        *)
(* between the SELECT and the commit is everything the other actors do.    *)
(*                                                                         *)
(* A PATCH is two steps as well: the SELECT of the row and the flush,      *)
(* which emits an UPDATE of those columns only whose new value differs     *)
(* from the loaded one.                                                    *)
(***************************************************************************)
EXTENDS Naturals, FiniteSets

CONSTANTS Memories,     \* ids, in the order of created_at
          Bodies,       \* the texts a memory can hold
          Models,       \* embedder_model settings, as numbers
          Ticks,        \* executions of embed_pending that can overlap
          Requests,     \* PATCH requests that can overlap
          MaxAttempts,  \* embed_max_attempts
          BatchSize,    \* embedder_batch_size
          EditBudget,   \* bound: PATCHes accepted
          AbortBudget,  \* bound: ticks lost to a crash or an unexpected error
          ReleaseBudget,\* bound: runs of retry_failed and reindex_embeddings
          NoVec         \* embedding IS NULL

ASSUME EmbedQueueAssumption ==
  /\ Memories \subseteq Nat
  /\ Bodies # {}
  /\ Models \subseteq Nat /\ Models # {}
  /\ NoVec \notin Bodies
  /\ MaxAttempts \in Nat \ {0}
  /\ BatchSize \in Nat \ {0}
  /\ EditBudget \in Nat /\ AbortBudget \in Nat /\ ReleaseBudget \in Nat

VARIABLES row,     \* the committed rows
          model,   \* the embedder_model in force
          tick,    \* what each running tick read
          req,     \* what each running PATCH read
          edits, aborts, releases  \* consumed budgets

vars == <<row, model, tick, req, edits, aborts, releases>>

-----------------------------------------------------------------------------
(* The columns that matter.  vec is the text the stored vector was computed *)
(* from; next is embed_next_attempt_at (NULL, in the future, or past).     *)

Row == [ status   : {"absent", "live", "deleted"},
         body     : Bodies,
         vec      : Bodies \cup {NoVec},
         vmodel   : Models,
         attempts : 0..MaxAttempts,
         parked   : BOOLEAN,
         next     : {"null", "future", "due"} ]

TickState == [ busy : BOOLEAN, batch : SUBSET Memories, model : Models,
               text : [Memories -> Bodies], seen : [Memories -> 0..MaxAttempts] ]

ReqState == [ busy : BOOLEAN, mem : Memories, body : Bodies, hadVec : BOOLEAN ]

TypeOK ==
  /\ row \in [Memories -> Row]
  /\ model \in Models
  /\ tick \in [Ticks -> TickState]
  /\ req \in [Requests -> ReqState]
  /\ edits \in 0..EditBudget
  /\ aborts \in 0..AbortBudget
  /\ releases \in 0..ReleaseBudget

Live(m) == row[m].status = "live"

AnyBody == CHOOSE b \in Bodies : TRUE
AnyModel == CHOOSE k \in Models : TRUE

IdleTick == [ busy |-> FALSE, batch |-> {}, model |-> AnyModel,
              text |-> [m \in Memories |-> AnyBody],
              seen |-> [m \in Memories |-> 0] ]

IdleReq(m) == [ busy |-> FALSE, mem |-> m, body |-> AnyBody, hadVec |-> FALSE ]

Init ==
  /\ row = [m \in Memories |->
              [status |-> "absent", body |-> AnyBody, vec |-> NoVec,
               vmodel |-> AnyModel, attempts |-> 0, parked |-> FALSE,
               next |-> "null"]]
  /\ model = AnyModel
  /\ tick = [t \in Ticks |-> IdleTick]
  /\ req \in [Requests -> {IdleReq(m) : m \in Memories}]
  /\ edits = 0 /\ aborts = 0 /\ releases = 0

-----------------------------------------------------------------------------
(* API: create, edit, delete.                                              *)

(* MemoryService.write, with or without embed_inline.                      *)
Create(m, b, inline) ==
  /\ row[m].status = "absent"
  /\ \A k \in Memories : k < m => row[k].status # "absent"
  /\ row' = [row EXCEPT ![m].status = "live", ![m].body = b,
                        ![m].vec = IF inline THEN b ELSE NoVec,
                        ![m].vmodel = model]
  /\ UNCHANGED <<model, tick, req, edits, aborts, releases>>

(* The SELECT of MemoryService.update: get_by_public_id loads the row.     *)
PatchLoad(r, m) ==
  /\ ~req[r].busy
  /\ edits < EditBudget
  /\ Live(m)
  /\ req' = [req EXCEPT ![r] = [busy |-> TRUE, mem |-> m, body |-> row[m].body,
                                hadVec |-> row[m].vec # NoVec]]
  /\ edits' = edits + 1
  /\ UNCHANGED <<row, model, tick, aborts, releases>>

(* Mutated forms of a definition are written just before it; each is a     *)
(* plausible slip in the code that some property below must catch.         *)

(* update_fields with a body, as the flush writes it: the vector is cleared *)
(* when the LOADED row had one, the body is written when it differs from   *)
(* the LOADED one.  embed_attempts, embed_failed_at and                    *)
(* embed_next_attempt_at are left as they are.                             *)
UpdateFieldsKeepVector(old, loaded, b) ==
  [old EXCEPT !.body = IF b = loaded.body THEN old.body ELSE b]

UpdateFields(old, loaded, b) ==
  [old EXCEPT !.body = IF b = loaded.body THEN old.body ELSE b,
              !.vec  = IF loaded.hadVec THEN NoVec ELSE old.vec]

PatchCommit(r, b) ==
  /\ req[r].busy
  /\ row' = [row EXCEPT ![req[r].mem] = UpdateFields(row[req[r].mem], req[r], b)]
  /\ req' = [req EXCEPT ![r] = IdleReq(req[r].mem)]
  /\ UNCHANGED <<model, tick, edits, aborts, releases>>

(* soft_delete: the row keeps everything else.                             *)
Delete(m) ==
  /\ Live(m)
  /\ row' = [row EXCEPT ![m].status = "deleted"]
  /\ UNCHANGED <<model, tick, req, edits, aborts, releases>>

-----------------------------------------------------------------------------
(* The worker.                                                             *)

PendingWithParked ==
  {m \in Memories : /\ Live(m)
                    /\ row[m].vec = NoVec \/ row[m].vmodel # model
                    /\ row[m].next # "future"}

PendingNeverTriedOnly ==
  {m \in Memories : /\ Live(m)
                    /\ row[m].vec = NoVec \/ row[m].vmodel # model
                    /\ ~row[m].parked
                    /\ row[m].next = "null"}

(* list_pending_embedding, before ORDER BY and LIMIT.                      *)
Pending ==
  {m \in Memories : /\ Live(m)
                    /\ row[m].vec = NoVec \/ row[m].vmodel # model
                    /\ ~row[m].parked
                    /\ row[m].next # "future"}

(* ... ORDER BY created_at LIMIT embedder_batch_size.                      *)
Batch ==
  {m \in Pending : Cardinality({k \in Pending : k < m}) < BatchSize}

(* The first half of _embed_batch: select and remember.  A tick that finds *)
(* no embedder, or nothing pending, returns without touching a row.        *)
TickRead(t) ==
  /\ ~tick[t].busy
  /\ Batch # {}
  /\ tick' = [tick EXCEPT ![t] =
       [ busy |-> TRUE, batch |-> Batch, model |-> model,
         text |-> [m \in Memories |-> IF m \in Batch THEN row[m].body ELSE AnyBody],
         seen |-> [m \in Memories |-> IF m \in Batch THEN row[m].attempts ELSE 0] ]]
  /\ UNCHANGED <<row, model, req, edits, aborts, releases>>

(* set_embedding: UPDATE ... WHERE id = :id, whatever the row says now.    *)
SetEmbedding(old, text, vmodel) ==
  [old EXCEPT !.vec = text, !.vmodel = vmodel, !.attempts = 0,
              !.parked = FALSE, !.next = "null"]

(* decide_retry: the count after this failure, and whether to stop.        *)
DecideRetry(before) ==
  [attempts |-> before + 1, parked |-> before + 1 >= MaxAttempts]

RecordEmbedFailureNeverParks(old, before) ==
  [old EXCEPT !.attempts = DecideRetry(before).attempts, !.next = "future"]

RecordEmbedFailureSchedules(old, before) ==
  LET d == DecideRetry(before)
  IN  [old EXCEPT !.attempts = d.attempts,
                  !.parked = IF d.parked THEN TRUE ELSE old.parked,
                  !.next = "future"]

(* record_embed_failure: embed_failed_at is only ever set here, never      *)
(* cleared.                                                                *)
RecordEmbedFailure(old, before) ==
  LET d == DecideRetry(before)
  IN  [old EXCEPT !.attempts = d.attempts,
                  !.parked = IF d.parked THEN TRUE ELSE old.parked,
                  !.next = IF d.parked THEN "null" ELSE "future"]

(* The second half of _embed_batch.  "bad" are the items the provider      *)
(* refused: none when the batch call answers in full, any subset when it   *)
(* failed or came back short and _embed_one_by_one took over.              *)
TickCommit(t, bad) ==
  /\ tick[t].busy
  /\ bad \subseteq tick[t].batch
  /\ row' = [m \in Memories |->
               IF m \in bad THEN RecordEmbedFailure(row[m], tick[t].seen[m])
               ELSE IF m \in tick[t].batch
                    THEN SetEmbedding(row[m], tick[t].text[m], tick[t].model)
                    ELSE row[m]]
  /\ tick' = [tick EXCEPT ![t] = IdleTick]
  /\ UNCHANGED <<model, req, edits, aborts, releases>>

(* The worker dies, or an exception other than EmbeddingError leaves       *)
(* session_scope: everything rolls back and the next beat starts over.     *)
TickAbort(t) ==
  /\ tick[t].busy
  /\ aborts < AbortBudget
  /\ tick' = [tick EXCEPT ![t] = IdleTick]
  /\ aborts' = aborts + 1
  /\ UNCHANGED <<row, model, req, edits, releases>>

(* A backoff window ends.                                                  *)
BackoffEnds(m) ==
  /\ row[m].next = "future"
  /\ row' = [row EXCEPT ![m].next = "due"]
  /\ UNCHANGED <<model, tick, req, edits, aborts, releases>>

(* retry_failed / reset_embed_failures: every parked live row.             *)
RetryFailed ==
  /\ releases < ReleaseBudget
  /\ \E m \in Memories : Live(m) /\ row[m].parked
  /\ row' = [m \in Memories |->
               IF Live(m) /\ row[m].parked
               THEN [row[m] EXCEPT !.attempts = 0, !.parked = FALSE, !.next = "null"]
               ELSE row[m]]
  /\ releases' = releases + 1
  /\ UNCHANGED <<model, tick, req, edits, aborts>>

(* reindex_embeddings: one UPDATE over the table, deleted and parked rows   *)
(* included.  The attempt counts stay: a parked memory that still had the  *)
(* vector of an older model loses it and is not queued.  (embedding_model  *)
(* is cleared as well; without a vector nothing reads it.)                 *)
Reindex ==
  /\ releases < ReleaseBudget
  /\ row' = [m \in Memories |-> [row[m] EXCEPT !.vec = NoVec]]
  /\ releases' = releases + 1
  /\ UNCHANGED <<model, tick, req, edits, aborts>>

(* The operator moves to a newer embedder_model and restarts the workers;  *)
(* a tick that still runs keeps the embedder it started with.              *)
Upgrade(k) ==
  /\ k > model
  /\ model' = k
  /\ UNCHANGED <<row, tick, req, edits, aborts, releases>>

Next ==
  \/ \E m \in Memories, b \in Bodies, inline \in BOOLEAN : Create(m, b, inline)
  \/ \E r \in Requests, m \in Memories : PatchLoad(r, m)
  \/ \E r \in Requests, b \in Bodies : PatchCommit(r, b)
  \/ \E m \in Memories : Delete(m)
  \/ \E t \in Ticks : TickRead(t)
  \/ \E t \in Ticks, bad \in SUBSET Memories : TickCommit(t, bad)
  \/ \E t \in Ticks : TickAbort(t)
  \/ \E m \in Memories : BackoffEnds(m)
  \/ RetryFailed
  \/ Reindex
  \/ \E k \in Models : Upgrade(k)

Spec == Init /\ [][Next]_vars

(* Beat fires embed_pending every 30 seconds and a running tick ends: with *)
(* a commit or, AbortBudget times at most, with a rollback.  Requests end, *)
(* and time passes.  Creating, editing, deleting, releasing and upgrading  *)
(* are up to the users and carry no fairness.                              *)
Fairness ==
  /\ \A t \in Ticks : WF_vars(TickRead(t))
  /\ \A t \in Ticks : WF_vars(\E bad \in SUBSET Memories : TickCommit(t, bad))
  /\ \A r \in Requests : WF_vars(\E b \in Bodies : PatchCommit(r, b))
  /\ \A m \in Memories : WF_vars(BackoffEnds(m))

FairSpec == Spec /\ Fairness

-----------------------------------------------------------------------------
(* Properties.                                                             *)

(* The retry budget: whatever number of ticks overlap, a row that is not   *)
(* parked has failures to spare, so a row list_pending_embedding returns   *)
(* is always one that may still fail, and no count passes                  *)
(* embed_max_attempts.                                                     *)
RetryBudget ==
  \A m \in Memories :
    /\ row[m].attempts <= MaxAttempts
    /\ ~row[m].parked => row[m].attempts < MaxAttempts
    /\ \A t \in Ticks : m \in tick[t].batch => tick[t].seen[m] < MaxAttempts

(* "None when parked: parked means stop, not wait" (RetryDecision): a      *)
(* parked row has spent its budget and has no retry scheduled.             *)
ParkedMeansStop ==
  \A m \in Memories :
    row[m].parked => row[m].next = "null" /\ row[m].attempts = MaxAttempts

(* With one tick at a time, a row in a tick's batch is still unparked and  *)
(* has the attempt count the tick read, so record_embed_failure loses no   *)
(* count.                                                                  *)
NoLostCount ==
  \A t \in Ticks : \A m \in tick[t].batch :
    /\ ~row[m].parked
    /\ row[m].attempts = tick[t].seen[m]

(* A row goes stale only in the commit of an actor whose SELECT was        *)
(* overtaken: a tick whose text was edited meanwhile, or a PATCH that saw  *)
(* no vector (or another text) because the tick or PATCH that produced it  *)
(* had not committed.                                                      *)
StaleOnlyByRace ==
  [][\A m \in Memories :
       (row[m].vec \in {NoVec, row[m].body} /\ row'[m].vec \notin {NoVec, row'[m].body})
       => \/ \E t \in Ticks : m \in tick[t].batch /\ tick[t].text[m] # row[m].body
          \/ \E r \in Requests : /\ req[r].busy /\ req[r].mem = m
                                 /\ ~req[r].hadVec /\ row[m].vec # NoVec]_vars

Settled(m) == row[m].parked \/ (row[m].vec # NoVec /\ row[m].vmodel = model)

(* "A failed embedding is never silently dropped": every memory that stays *)
(* live ends up embedded by the model in force, or parked where the        *)
(* operator sees it.                                                       *)
EventuallySettled ==
  \A m \in Memories : Live(m) ~> (Settled(m) \/ ~Live(m))

=============================================================================
