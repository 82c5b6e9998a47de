------------------------------ MODULE Attachments ------------------------------
(***************************************************************************)
(* Uploaded files: the two-step upload (presign, finalize) of the API and  *)
(* of the MCP server, the Celery task process_attachment that turns a blob *)
(* into searchable chunks, and the change of a project's text-search       *)
(* configuration, which rewrites the chunks already stored.                *)
(*                                                                         *)
(* finalize holds the row lock of its UPDATE from mark_status to the       *)
(* router's commit, and sends the task BETWEEN the two.  A task is one     *)
(* transaction: it reads the row, deletes the old chunks, waits for the    *)
(* embedder, inserts the new ones and marks the row ready.  The unique     *)
(* index on (attachment_id, chunk_index) makes a second inserter wait for  *)
(* the first and fail when the first commits.                              *)
(***************************************************************************)
EXTENDS Naturals

CONSTANTS Atts,           \* attachments
          Configs,        \* Postgres text-search configurations
          Requests,       \* finalize calls that can overlap
          Workers,        \* Celery worker slots
          UploadBudget,   \* bound: PUTs by the clients
          FinalizeBudget, \* bound: finalize calls accepted
          CrashBudget,    \* bound: API processes and whole workers that die
          FailureBudget,  \* bound: tasks ended by an exception nobody catches, or by
                          \*        the death of the pool process that ran them
          BrokerBudget,   \* bound: send_task calls that raise
          ConfigBudget    \* bound: changes of the project's configuration

ASSUME AttachmentsAssumption ==
  /\ Configs # {}
  /\ UploadBudget \in Nat /\ FinalizeBudget \in Nat /\ CrashBudget \in Nat
  /\ FailureBudget \in Nat /\ BrokerBudget \in Nat /\ ConfigBudget \in Nat

VARIABLES row,     \* the committed rows of "attachments"
          blob,    \* the object store
          chunks,  \* the committed rows of "attachment_chunks", per attachment
          queue,   \* messages of process_attachment waiting, per attachment
          fin,     \* the finalize calls in progress
          work,    \* the tasks in progress
          config,  \* text_search_config of the project
          spent    \* consumed budgets

attachVars == <<row, blob, chunks, queue, fin, work, config, spent>>

-----------------------------------------------------------------------------
Status == {"absent", "pending", "processing", "ready", "failed"}
Blob == {"none", "text", "blank", "huge"}
AttachBudgets == {"upload", "finalize", "crash", "failure", "broker", "config"}

AnyConfig == CHOOSE c \in Configs : TRUE

(* generation counts the replacements of an attachment's chunks; 0 is "no  *)
(* chunks".  config is what they were stemmed with.                        *)
NoChunks == [generation |-> 0, config |-> AnyConfig]

(* A task: generation and config are what the DELETE and config_for_scope  *)
(* saw, locks says that the task holds row locks on the chunks.            *)
IdleWork(a) == [phase |-> "idle", att |-> a, generation |-> 0,
                config |-> AnyConfig, locks |-> FALSE]

IdleFin(a) == [phase |-> "idle", att |-> a]

AttachTypeOK ==
  /\ row \in [Atts -> [status : Status, deleted : BOOLEAN]]
  /\ blob \in [Atts -> Blob]
  /\ chunks \in [Atts -> [generation : Nat, config : Configs]]
  /\ queue \in [Atts -> 0..FinalizeBudget]
  /\ fin \in [Requests -> [phase : {"idle", "read", "marked"}, att : Atts]]
  /\ work \in [Workers -> [phase : {"idle", "read", "deleted", "inserted"}, att : Atts,
                           generation : Nat, config : Configs, locks : BOOLEAN]]
  /\ config \in Configs
  /\ spent \in [AttachBudgets -> Nat]

AttachInit ==
  /\ row = [a \in Atts |-> [status |-> "absent", deleted |-> FALSE]]
  /\ blob = [a \in Atts |-> "none"]
  /\ chunks = [a \in Atts |-> NoChunks]
  /\ queue = [a \in Atts |-> 0]
  /\ fin \in [Requests -> {IdleFin(a) : a \in Atts}]
  /\ work \in [Workers -> {IdleWork(a) : a \in Atts}]
  /\ config = AnyConfig
  /\ spent = [b \in AttachBudgets |-> 0]

Live(a) == row[a].status # "absent" /\ ~row[a].deleted

(* Mutated forms of a definition are written just before it; each is a     *)
(* plausible slip that some property below must catch.                     *)
NeverLocked(a) == FALSE

(* Somebody's finalize has updated the row and not committed.              *)
RowLocked(a) == \E r \in Requests : fin[r].phase = "marked" /\ fin[r].att = a

(* Somebody else's task holds locks on the attachment's chunks.            *)
ChunksLocked(w) ==
  \E v \in Workers \ {w} : work[v].locks /\ work[v].att = work[w].att

SpendOne(b) == spent' = [spent EXCEPT ![b] = @ + 1]
EndFin(r) == fin' = [fin EXCEPT ![r] = IdleFin(fin[r].att)]
EndWork(w) == work' = [work EXCEPT ![w] = IdleWork(work[w].att)]

-----------------------------------------------------------------------------
(* The API and its client.                                                 *)

(* presign_upload: the row, pending, and a URL.                            *)
PresignUpload(a) ==
  /\ row[a].status = "absent"
  /\ row' = [row EXCEPT ![a] = [status |-> "pending", deleted |-> FALSE]]
  /\ UNCHANGED <<blob, chunks, queue, fin, work, config, spent>>

(* The client PUTs the body, once more after a failure if it likes.        *)
Upload(a, kind) ==
  /\ row[a].status \in {"pending", "failed"}
  /\ spent["upload"] < UploadBudget
  /\ blob' = [blob EXCEPT ![a] = kind]
  /\ SpendOne("upload")
  /\ UNCHANGED <<row, chunks, queue, fin, work, config>>

(* finalize: the SELECT, and the return when the row is processed or being *)
(* processed already.                                                      *)
FinalizeRead(r, a) ==
  /\ fin[r].phase = "idle"
  /\ spent["finalize"] < FinalizeBudget
  /\ Live(a)
  /\ row[a].status \in {"pending", "failed"}
  /\ fin' = [fin EXCEPT ![r] = [phase |-> "read", att |-> a]]
  /\ SpendOne("finalize")
  /\ UNCHANGED <<row, blob, chunks, queue, work, config>>

(* HEAD finds nothing: AttachmentError, nothing written.                   *)
FinalizeMissing(r) ==
  /\ fin[r].phase = "read"
  /\ blob[fin[r].att] = "none"
  /\ EndFin(r)
  /\ UNCHANGED <<row, blob, chunks, queue, work, config, spent>>

(* HEAD finds an oversize object: it is deleted, the row is marked failed  *)
(* and AttachmentError raised.  The router turns that into a 400 before    *)
(* its commit, so the mark rolls back; the MCP tool returns the error from *)
(* within tool_context, which commits it.                                  *)
FinalizeOversize(r, via) ==
  LET a == fin[r].att IN
  /\ fin[r].phase = "read"
  /\ blob[a] = "huge"
  /\ ~RowLocked(a)
  /\ blob' = [blob EXCEPT ![a] = "none"]
  /\ row' = IF via = "mcp" THEN [row EXCEPT ![a].status = "failed"] ELSE row
  /\ EndFin(r)
  /\ UNCHANGED <<chunks, queue, work, config, spent>>

(* mark_status(PROCESSING), get_by_id, _enqueue_process.  When the row was *)
(* deleted after the SELECT, get_by_id finds nothing and the assertion     *)
(* rolls back; a send_task that raises is swallowed.                       *)
FinalizeMark(r, sent) ==
  LET a == fin[r].att IN
  /\ fin[r].phase = "read"
  /\ blob[a] \in {"text", "blank"}
  /\ ~RowLocked(a)
  /\ IF row[a].deleted
     THEN EndFin(r) /\ UNCHANGED <<row, queue, spent>>
     ELSE /\ fin' = [fin EXCEPT ![r].phase = "marked"]
          /\ UNCHANGED row
          /\ IF sent
             THEN queue' = [queue EXCEPT ![a] = @ + 1] /\ UNCHANGED spent
             ELSE /\ spent["broker"] < BrokerBudget
                  /\ SpendOne("broker")
                  /\ UNCHANGED queue
  /\ UNCHANGED <<blob, chunks, work, config>>

(* The router's commit.                                                    *)
FinalizeCommit(r) ==
  LET a == fin[r].att IN
  /\ fin[r].phase = "marked"
  /\ row' = [row EXCEPT ![a].status = "processing"]
  /\ EndFin(r)
  /\ UNCHANGED <<blob, chunks, queue, work, config, spent>>

(* The API process dies with the UPDATE uncommitted; the message is out.   *)
FinalizeLost(r) ==
  /\ fin[r].phase = "marked"
  /\ spent["crash"] < CrashBudget
  /\ SpendOne("crash")
  /\ EndFin(r)
  /\ UNCHANGED <<row, blob, chunks, queue, work, config>>

(* delete: soft, and the blob stays.                                       *)
Delete(a) ==
  /\ Live(a)
  /\ ~RowLocked(a)
  /\ row' = [row EXCEPT ![a].deleted = TRUE]
  /\ UNCHANGED <<blob, chunks, queue, fin, work, config, spent>>

SetTextSearchConfigAlone(c) ==
  /\ c # config
  /\ spent["config"] < ConfigBudget
  /\ config' = c
  /\ SpendOne("config")
  /\ UNCHANGED <<row, blob, chunks, queue, fin, work>>

ReanalyseScope(c) ==
  [a \in Atts |-> IF chunks[a].generation = 0 THEN chunks[a] ELSE [chunks[a] EXCEPT !.config = c]]

(* set_text_search_config: the project and, through reanalyse_scope, every *)
(* chunk stored for it.                                                    *)
SetTextSearchConfig(c) ==
  /\ c # config
  /\ spent["config"] < ConfigBudget
  /\ config' = c
  /\ chunks' = ReanalyseScope(c)
  /\ SpendOne("config")
  /\ UNCHANGED <<row, blob, queue, fin, work>>

-----------------------------------------------------------------------------
(* The task process_attachment.                                            *)

(* A worker takes a message (acknowledged when the task ends) and reads    *)
(* the row as committed; a deleted one ends the task ("missing").  The     *)
(* status is not looked at.                                                *)
TaskReadPendingOnly(w, a) ==
  /\ work[w].phase = "idle"
  /\ queue[a] > 0
  /\ row[a].status = "pending"
  /\ queue' = [queue EXCEPT ![a] = @ - 1]
  /\ work' = [work EXCEPT ![w] = [IdleWork(a) EXCEPT !.phase = "read"]]
  /\ UNCHANGED <<row, blob, chunks, fin, config, spent>>

TaskRead(w, a) ==
  /\ work[w].phase = "idle"
  /\ queue[a] > 0
  /\ queue' = [queue EXCEPT ![a] = @ - 1]
  /\ work' = [work EXCEPT ![w] =
                IF row[a].deleted THEN IdleWork(a)
                ELSE [IdleWork(a) EXCEPT !.phase = "read"]]
  /\ UNCHANGED <<row, blob, chunks, fin, config, spent>>

(* The download fails, or there is no text in it: the row is failed.       *)
TaskFailed(w) ==
  LET a == work[w].att IN
  /\ work[w].phase = "read"
  /\ blob[a] \in {"none", "blank"}
  /\ ~RowLocked(a)
  /\ row' = [row EXCEPT ![a].status = "failed"]
  /\ EndWork(w)
  /\ UNCHANGED <<blob, chunks, queue, fin, config, spent>>

(* delete_for_attachment and config_for_scope: the old chunks are locked   *)
(* (unless another task already waits on them), not gone yet.              *)
TaskDelete(w) ==
  LET a == work[w].att IN
  /\ work[w].phase = "read"
  /\ blob[a] \in {"text", "huge"}
  /\ work' = [work EXCEPT ![w].phase = "deleted",
                          ![w].generation = chunks[a].generation,
                          ![w].config = config,
                          ![w].locks = chunks[a].generation > 0 /\ ~ChunksLocked(w)]
  /\ UNCHANGED <<row, blob, chunks, queue, fin, config, spent>>

(* insert_many, after the embedder answered or failed: waits for the other *)
(* task's locks, then meets the unique index.  Rows committed since the    *)
(* DELETE make it raise IntegrityError, and the task ends with a rollback. *)
TaskInsert(w) ==
  LET a == work[w].att IN
  /\ work[w].phase = "deleted"
  /\ ~ChunksLocked(w)
  /\ IF chunks[a].generation = work[w].generation
     THEN work' = [work EXCEPT ![w].phase = "inserted", ![w].locks = TRUE]
     ELSE EndWork(w)
  /\ UNCHANGED <<row, blob, chunks, queue, fin, config, spent>>

(* mark_status(READY), which waits for the row lock, and the commit.       *)
TaskCommit(w) ==
  LET a == work[w].att IN
  /\ work[w].phase = "inserted"
  /\ ~RowLocked(a)
  /\ chunks' = [chunks EXCEPT ![a] = [generation |-> @.generation + 1,
                                      config |-> work[w].config]]
  /\ row' = [row EXCEPT ![a].status = "ready"]
  /\ EndWork(w)
  /\ UNCHANGED <<blob, queue, fin, config, spent>>

(* The whole worker dies, its main process or its host: rollback.  With    *)
(* task_acks_late nobody has acknowledged the message, and the broker      *)
(* hands it out again.                                                     *)
WorkerDies(w) ==
  /\ work[w].phase # "idle"
  /\ spent["crash"] < CrashBudget
  /\ SpendOne("crash")
  /\ queue' = [queue EXCEPT ![work[w].att] = @ + 1]
  /\ EndWork(w)
  /\ UNCHANGED <<row, blob, chunks, fin, config>>

(* An exception outside the try around the extraction (a database error,   *)
(* an embedder that raises something else): rollback, acknowledged.        *)
TaskRaises(w) ==
  /\ work[w].phase = "deleted"
  /\ spent["failure"] < FailureBudget
  /\ SpendOne("failure")
  /\ EndWork(w)
  /\ UNCHANGED <<row, blob, chunks, queue, fin, config>>

(* Only the pool process that ran the task dies (a kill, no memory left):  *)
(* rollback.  celery_app does not set task_reject_on_worker_lost, so the   *)
(* main process acknowledges the message, late acks or not, and nobody     *)
(* processes the attachment again.                                         *)
ChildDies(w) ==
  /\ work[w].phase # "idle"
  /\ spent["failure"] < FailureBudget
  /\ SpendOne("failure")
  /\ EndWork(w)
  /\ UNCHANGED <<row, blob, chunks, queue, fin, config>>

AttachNext ==
  \/ \E a \in Atts : PresignUpload(a)
  \/ \E a \in Atts, kind \in Blob \ {"none"} : Upload(a, kind)
  \/ \E r \in Requests, a \in Atts : FinalizeRead(r, a)
  \/ \E r \in Requests : FinalizeMissing(r)
  \/ \E r \in Requests, via \in {"rest", "mcp"} : FinalizeOversize(r, via)
  \/ \E r \in Requests, sent \in BOOLEAN : FinalizeMark(r, sent)
  \/ \E r \in Requests : FinalizeCommit(r)
  \/ \E r \in Requests : FinalizeLost(r)
  \/ \E a \in Atts : Delete(a)
  \/ \E c \in Configs : SetTextSearchConfig(c)
  \/ \E w \in Workers, a \in Atts : TaskRead(w, a)
  \/ \E w \in Workers : TaskFailed(w)
  \/ \E w \in Workers : TaskDelete(w)
  \/ \E w \in Workers : TaskInsert(w)
  \/ \E w \in Workers : TaskCommit(w)
  \/ \E w \in Workers : WorkerDies(w)
  \/ \E w \in Workers : TaskRaises(w)
  \/ \E w \in Workers : ChildDies(w)

AttachSpec == AttachInit /\ [][AttachNext]_attachVars

(* Requests and tasks come to an end, and a worker takes what is queued.   *)
(* What users do, and failures, are not fair.                              *)
AttachFairness ==
  /\ \A r \in Requests :
       /\ WF_attachVars(FinalizeMissing(r))
       /\ WF_attachVars(\E via \in {"rest", "mcp"} : FinalizeOversize(r, via))
       /\ WF_attachVars(FinalizeMark(r, TRUE))
       /\ WF_attachVars(FinalizeCommit(r))
  /\ \A w \in Workers :
       /\ WF_attachVars(\E a \in Atts : TaskRead(w, a))
       /\ WF_attachVars(TaskFailed(w))
       /\ WF_attachVars(TaskDelete(w))
       /\ WF_attachVars(TaskInsert(w))
       /\ WF_attachVars(TaskCommit(w))

AttachFairSpec == AttachSpec /\ AttachFairness

-----------------------------------------------------------------------------
(* Properties.                                                             *)

Stemmed(a) == chunks[a].generation > 0 => chunks[a].config = config

(* "Changing the setting re-analyses the memories and attachment chunks    *)
(* already in that project" (scale.md): a stored chunk falls out of step   *)
(* with the project's configuration only when a task that was waiting for  *)
(* the embedder during the change commits what it stemmed with the old     *)
(* one.                                                                    *)
UnstemmedOnlyByRace ==
  [][\A a \in Atts :
       Stemmed(a) /\ ~Stemmed(a)'
       => \E w \in Workers : /\ work[w].att = a /\ work[w].phase = "inserted"
                             /\ work[w].config # config
                             /\ config' = config]_attachVars

(* Nobody has met the failures after which nothing is left to try again: a *)
(* task ended by an exception outside its try or with its pool process, a  *)
(* broker that refused the message.                                        *)
NoSilentFailure == spent["failure"] = 0 /\ spent["broker"] = 0

(* Until then, a row in "processing", which finalize refuses to touch      *)
(* again, always has a message or a task that will take it out of there,   *)
(* although the message is sent before the commit and a task that loses    *)
(* the race for the unique index is never retried.                         *)
NothingStranded ==
  \A a \in Atts :
    NoSilentFailure /\ row[a].status = "processing" /\ Live(a)
    => \/ queue[a] > 0
       \/ \E w \in Workers : work[w].phase # "idle" /\ work[w].att = a

(* A finalized attachment ends up ready or failed, although a whole worker *)
(* may die and a redelivered or second task may lose the race for the      *)
(* unique index; only a failure that leaves nothing to try again keeps it  *)
(* in processing.                                                          *)
FinalizedSettles ==
  \A a \in Atts :
    row[a].status = "processing"
    ~> (row[a].status # "processing" \/ ~Live(a) \/ ~NoSilentFailure)

(* "On failure it records the error and marks the row failed so an         *)
(* operator (or the UI) can retry" (process_attachment): a finalized       *)
(* attachment does not stay in processing, where finalize would refuse it  *)
(* for good.  The code does not keep this.                                 *)
FailureIsMarked ==
  \A a \in Atts :
    row[a].status = "processing" ~> (row[a].status # "processing" \/ ~Live(a))

=============================================================================
