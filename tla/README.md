# A TLA+ model of kortex-memory

Kortex keeps the memories of coding agents: a REST API and an MCP server write
and recall them, Postgres holds them, Redis holds counters, idempotency keys and
revoked tokens, an object store holds uploaded files, Celery workers embed,
judge, age, summarise and clean up in the background, and a browser console, a
command line and SDKs stand before it. Nearly all of its hard behaviour lies in
the gaps between those parts: a worker reads rows, waits for a model, and writes
by id what it decided long ago; two requests pass the same check before either
commits; a message is sent before the row it is about is visible; a client sends
again what was already done.

This directory models those parts, checks them with TLC on small instances and
proves the central facts with TLAPS for every instance. `PROJECT.json` is the
machine-readable index: components, runs, source lines of every definition,
mutants, findings, hazards and theorems.

## Inventory

Paths are relative to `src/packages/`. `core`, `api`, `worker`, `cli` stand for
`kortex-core/src/kortex_core` and so on.

| Component | State | Operations | Why it is hard |
|---|---|---|---|
| Embedding queue (`core/repositories/memory_repo.py`, `core/embeddings/retry.py`, `worker/tasks/embedding.py`) | `memories.embedding`, `embedding_model`, `embed_attempts`, `embed_failed_at`, `embed_next_attempt_at` | create, PATCH, delete, tick (select, embed, set or record failure), release of parked rows, reindex, model upgrade | a tick is one long transaction around a provider call; ticks and edits overlap; retries have a budget |
| Audit log (`core/repositories/audit_repo.py`, `worker/tasks/audit.py`) | rows linked by `prev_hash`, per organisation | append under a lock on the head row, commit, rollback, retention purge, verify page by page | READ COMMITTED row locks, snapshots, deletion of a prefix while others append or walk |
| Write path and review queue (`core/services/memory_service.py`, `core/services/ingestion_service.py`, `api/routers/review.py`) | memories with text, fingerprint, review status; the project's review mode | write with redaction, quarantine, gating, dedup, quota; batch ingest; edit; delete; review one or many | check-then-act on dedup, quota and review; cached settings; decisions on stale text |
| Attachments (`core/services/attachment_service.py`, `core/repositories/attachment_repo.py`, `worker/tasks/attachments.py`) | rows with a status, blobs, chunks, task messages, the project's text-search configuration | presign, PUT, finalize over REST and MCP, delete, process, change of configuration | the message precedes the commit; redelivery, or none when a pool process dies; unique index; uncaught failures |
| Idempotency keys and ETags (`api/middleware/idempotency.py`, `api/middleware/etag.py`) | Redis entry per key (sentinel or response), the row's version | replay, reserve, check, handle, store or drop, expiry | retries that race the first attempt, expiring reservations, Redis outages, check in another transaction |
| Conflict detection (`worker/tasks/conflict.py`, `core/skills/conflict_judge.py`, `core/retrieval/conflicts.py`) | `conflict_checked_at`, `memory_links`, daily counters | tick (select, quota, candidates, judge, insert, mark), unlink, annotate | open transaction across LLM calls, primary-key conflicts, quota outside the transaction, newest-first batches |
| Decay and consolidation (`worker/tasks/decay.py`, `worker/tasks/consolidate.py`, `core/skills/decay_policy.py`) | tier, score, importance, accesses, pin | decay tick, nightly consolidation, recall, pin, delete, change of importance | decisions from rows read earlier, batch limits, scores near a threshold |
| Retrieval (`core/services/agentic_retriever.py`, `core/retrieval/*`, `hybrid_search` of memories and of chunks) | none of its own; access counts | search, recall (plan, hops, links, rerank, pack, answer), search of attachments | several reads without a lock, budgets of time and tokens, a planner that fails, a second loop |
| Conversations and summaries (`core/services/session_service.py`, `worker/tasks/summary.py`) | sessions, conversations, messages, summaries | start, end, append, ingest, summarise | get-or-create without a lock, oldest-first batches with failing members |
| Browser sessions (`core/services/auth_service.py`, `core/security/token_denylist.py`, `kortex-web/src/lib/api.ts`, `auth.tsx`) | token pairs, the denylist in Redis, the tabs' shared storage | login, call, refresh with rotation, logout, bootstrap | tabs that exchange one token, lost answers, a denylist that is down |
| Tenancy (`core/services/user_service.py`, `api_key_service.py`, `access_control.py`, `api/deps.py`) | users, roles, keys, organisations | grant, revoke, invite, sign up, mint and revoke keys | a principal is loaded once and acts later |
| Billing (`core/services/billing_service.py`) | plan, status, customer, ring of seen events in one JSON column | checkout, webhook | events late, repeated, out of order, two handlers at once; two subscriptions at once |
| Rate limits (`core/security/rate_limit.py`, `api/middleware/ratelimit.py`) | token bucket in Redis | check | several clocks, expiry, Redis down |
| Memory tool (`core/memory_tool.py`) | memories addressed by a path in their metadata | view, create, str_replace, insert, delete, rename | paths written in several ways, folding of repeats, held files, listings with a limit |
| Export and import (`core/services/export_service.py`) | archives | export, import | reads while the scope changes, lookup and fold apart, links and blobs to rebuild, rollback |
| Import from other tools (`cli/importers.py`, `cli/cmds/import_.py`) | a file of records | parse, post record by record, run again | aliased fields, values that are no text, broken connections, abandoned requests |
| Migrations (`src/alembic/`) | schema, revision, rows | eleven upgrades and downgrades | one transaction with autocommit blocks, runs that die, an old image that goes on writing |
| Wiring of a harness (`cli/cmds/init.py`, `cli/harnesses.py`) | configuration files that hold the user's settings too, their `.bak` files, keys, the canary memory | `kortex init`: project, key, transport, merge and write of one or two files, canary | files read, merged and rewritten in place, commands at once or killed, users who edit |
| SDKs, MCP server, the other commands, chunking, redaction, adapters, settings, console pages | | | not modelled, see the end |

How they interact: the API commits a memory without a vector; the embedding
tick finds it by `embedding IS NULL`; the conflict tick finds it by `embedding
IS NOT NULL AND conflict_checked_at IS NULL`; recall reads all of it and counts
accesses, which feed decay; decay promotes to the mid tier, which feeds
consolidation. There are no messages between these tasks, only columns: each one
reads what the others committed. Attachments are the exception: finalize sends a
Celery message. The memory tool, the ingesting routes and both imports write
through `MemoryService.write` and so meet its folding of repeats. Deletions,
reviews and administrative acts append to the audit log inside the request's
transaction. Every request passes the rate limiter, the idempotency middleware
and `authenticated_principal` first.

## Modules

| Module | Models | State to code |
|---|---|---|
| `EmbedQueue`, `MCEmbedQueue` | the queue columns of `memories`, PATCH as load and flush, `embed_pending` as read and commit, reindex | `row` = columns; `vec` = the text the stored vector was computed from; `tick`, `req` = identity maps of running sessions |
| `AuditChain`, `MCAuditChain` | append, purge and verify at the level of statements and row locks | `state`, `prev`, `at` = rows; `lock` = row locks; `txn` = sessions; `walk` = the verifier; `overlapped` is history. A digest is the id of its row |
| `MemoryStore`, `MCMemoryStore` | requests as sequences of statements: lookup, fold, quota, insert, commit; look, load, decide | `row` = memories, uncommitted ones included; `req` = a service instance with its caches; `trail` = review decisions in the audit log; `met`, `raced` are history |
| `Attachments`, `SafeRetry`, `MCAttachRetry` | finalize, `process_attachment`, re-analysis; the two middlewares around PATCH | `row`, `blob`, `chunks` (one generation per replacement, with the configuration it was stemmed by), `queue` = messages, `fin`, `work` = requests and tasks; `cache` = Redis entries, `att` = requests, `version` = `updated_at` |
| `ConflictLinks`, `MCConflictLinks` | `_detect_batch`, `_parse`, `annotate_conflicts` | `row`, `links`, `used` = quota counters, `tick` = open transactions; `seen`, `granted` and the rows' `steady` are history |
| `Lifecycle`, `MCRecall` (with `Retrieval` and `Wiring`) | `_tick_one_org`, `ExponentialDecayPolicy.evaluate`, `_consolidate_org` | `mem` = rows with age, importance, last access and score as classes; `tick`, `cons` = what was read |
| `Retrieval` | `RetrievalService.search`, `AgenticRetriever.recall`, `AgentLoop`, both `hybrid_search`, RRF, rerank and pack | `status` = review state and deletion of rows; `call` = the locals of one call, budget and usage included; `allowed` is history |
| `Wiring` | `init` and its steps, the merges, `write_merged`, the canary | `disk`, `spare` = files and backups as what a merge tells apart; `wire` = commands in progress; `canary` = the canary memories; `mine`, `torn`, `spoiled`, `cut` are history |
| `Sessions` | `lib/api.ts` against `AuthService.refresh` and the denylist | `life`, `denied` = token pairs and the denylist, `store` = localStorage, `call`, `exch` = promises in flight per tab |
| `Tenancy` | `UserService`, `ApiKeyService`, `SignupService`, `AccessControl`, principals | `role`, `key`, `account`; `req` = a principal loaded and not yet used; `trusted` is history |
| `Billing` | checkout and webhook handlers, read and commit apart | the plan and the `settings["billing"]` record, requests in progress, the living subscriptions and the events of the payment provider |
| `RateLimit`, `MCAccess` (with `Sessions`, `Tenancy` and `Billing`) | the Lua script and the middleware | `bucket` = the Redis hash, in units of 1/window of a token |
| `Migrations` | the eleven migrations statement by statement, alembic's runner | tables, columns, indexes present, the revision, rows with a hold in either column |
| `Conversations`, `MCContent` (with `Migrations`, `MCMemoryTool`, `Archive` and `VendorImport`) | sessions, conversations, messages, the summary task | rows committed and not, requests, ticks |
| `FileStore`, `MemoryTool`, `MCMemoryTool` | what the memory tool promises; how it keeps it with memories | a function from paths to files and the commands asked for; memories with a path, fingerprint and review state, commands between lookup and write |
| `Archive` | export and import | source and target memories, links, attachments; the archive; imports in progress, with what each has looked up, folded and inserted |
| `VendorImport` | four parsers and the command that posts | records as functions from field names, `run` = the command, `server` = requests it handles, `stored` = memories |
| `EmbedQueueProofs`, `AuditChainProofs` | theorems on `EmbedQueue` and `AuditChain` | |
| `AttachRetryProofs` | theorems on `SafeRetry` and `Attachments` | |
| `StoreProofs` | theorems on `MemoryStore` and `VendorImport` | |
| `ConflictProofs` | theorems on `ConflictLinks` | |
| `RecallProofs` | theorems on `Lifecycle`, `Retrieval` and `Wiring` | |
| `AccountProofs` | theorems on `Sessions`, `Tenancy`, `Billing` and `RateLimit` | |
| `ContentProofs` | theorems on `Archive` and `Migrations`, and that `MemoryTool` implements `FileStore` | |

Conventions. One action is one handler, or one statement of it where another
actor can act between two statements. Transactions run at READ COMMITTED, the
default the engine does not change: reads see what is committed, an UPDATE by id
overwrites whatever is there, an insert of an existing key fails. Texts, vectors,
digests and scores are model values or classes. Every bound is a constant whose
name ends in `Budget` or starts with `Max`. Operators marked *Variant* are
plausible faulty forms of the definition after them; they are not part of the
specification and exist so that a run can show that its property notices them.

Some components that share no state are checked in one run, one after the other
(MCAttachRetry, MCRecall, MCAccess, MCContent): the MC module adds a variable `part`
that says which of them a behaviour follows, while the variables of the others rest.
This is one question per part, not a composition; the compositions are within the
modules (console and server, two middlewares and a handler, recall and review, tool
and write path).

`FileStore` is an abstract specification: a store of named texts. A client asks for
a command under some spelling of a path, and one step carries out that command on
the file this spelling names: create writes, str_replace and insert change one line,
rename moves and delete removes, or the request is answered with an error and nothing
happens. Of a directory, delete removes everything while the store has no more files
than `ListLimit`, and some of it beyond. `MemoryTool` implements it (`ToolIsFileStore`,
an `INSTANCE ... WITH` that maps live rows to the files at their normalised paths, with
the lines that views show, and commands between their lookup and their write to
requests) whenever repeated writes are not folded; with folding it does not, which the
run ToolDedup shows. For one agent, with any paths, texts and ids, the refinement is a
theorem (OneAgentHasFiles).

## Runs that pass

| Run | Instance | Shows |
|---|---|---|
| EmbedLive | 2 memories, batch of 1, 2 ticks, a PATCH, a lost tick, a release, a reindex, under fairness | RetryBudget: no overlap of ticks overspends the attempt budget. StaleOnlyByRace: a row has the vector of an old text only after a tick that read before the edit, or an edit loaded before the vector came. EventuallySettled: every live memory is embedded by the current model or parked |
| EmbedSerial | 2 memories, 2 models, 1 tick, 2 PATCHes | ParkedMeansStop, NoLostCount: without overlapping ticks failure counts are exact and parking is final |
| AuditLog | 5 ids, pages of 1, 2 transactions | ChainIntact, RemovalDetected (from the middle), AlarmNeedsPurge: until transactions overlap, the verifier is wrong only when a purge overtakes it. NoDanglingPrev: overlap can fork the chain but never point at a rolled-back row |
| Store | 2 rows, cap of 2: one request and one reviewer at a time, a text and one redacted onto it, forced or not, edits; or 2 clients that write and review one suspicious text, single and in batches, while the review mode changes | TwinIsForced: no duplicate unless forced or by requests that overlapped. SuspiciousHeld: suspicious text is retrievable only after a recorded approval |
| AttachRetry | 3 attempts at one edit, another writer, each fault once; or 2 finalize calls, 2 workers, 2 crashes, a broker failure, a task or pool process that fails, a change of configuration | AtMostOnce, RetryNotRefused, ReplayStable until the first fault; ReplayIsTrue and ReservationEnds through all of them. UnstemmedOnlyByRace: re-analysis misses only what a running task is about to commit. NothingStranded, FinalizedSettles: until a failure is swallowed, a row in processing has somebody on it and gets out |
| ConflictFlow | 2 memories, 2 ticks, edits, one of them held at first; or a queue of 3 memories of 2 organisations for batches of 2, where deleted rows are used again, so users may write newer memories for ever; a quota of 1 a day, one dying tick or repeated verdict, under fairness | PairJudged: of two checked memories one was judged with the other in view. LinkBacked: a link, a note and a demotion in recall have a judgement behind them. EventuallyChecked: a waiting memory is judged, or leaves the queue, once no newer ones are written |
| Recall | one search, recall or search of attachments over 4 memories (one outside the scopes, one pinned, one faded), up to 3 hops, budgets that run out at any point, and one decision of a reviewer or user; or 2 memories of any importance in one decay batch beside the consolidation and users; or two starts of `kortex init` for Claude Code or Codex, one of which may be killed, and a user who saves a file | RecalledWasAllowed: what is returned was in scope and approved at some moment of the call, unless a link led to it. TruncationTold: work a budget cut short is reported, and nothing else is. FadedNeverSummarised. DecaySparesInUse: whoever is deleted while pinned, scoring high or promoted became so during the tick. RerunSafe: the user's settings are in the file, or in its backup while it is rewritten, and no canary stays behind |
| Access | 2 tabs, 3 token pairs, one fault; 3 users, 2 organisations, 1 key bound to either or to none, 3 acts; 2 webhook handlers, 2 plans, 3 events, a ring of 2, up to 2 subscriptions at once; 2 nodes with clocks a second apart, 2 tokens in 3 seconds | SingleUse: a refresh token buys one pair. DroppedOnlyWhenSpent: a loading tab does not log the others out while their tokens are good. TenantsApart: a role or key in an organisation goes back to its founder or a superuser. AppliedOnce: a billing event takes effect once. PlanFollows: in order, a paid plan is one a living subscription pays for, and an organisation that never had two has the plan of the one that lives. WithinRate: no window admits more than a bucket and its refill |
| Content | 2 alembic runs over the images of 3 releases beside an application that writes; 2 requests and a summary tick over 2 conversations, one of which the LLM refuses; 1 agent with 4 paths in 6 spellings, up to 3 files and a listing of 2; 2 memories in an archive, 2 imports of it into a scope with up to 3, deletes at any point; files of one or two records in four formats and all layouts, with blank fields, second aliases and values that are no text, 2 runs of the command, one refusal or broken connection | SchemaMatchesRevision: no statement fails and the schema is that of the revision. HoldCarried: a held memory is found by no search through kkx0009, up or down. IdleSummarised. ToolIsFileStore: the memory tool implements a file store, whose lines are what views show. ImportComplete: a committed import has every memory and link of the archive, except where a row was deleted between lookup and fold. RerunFolds: a repeated import doubles nothing. NothingElseLost: what a parser does not consume survives |

Every property has a variant of a mapped definition that breaks it
(`PROJECT.json`, `mutants`). The modules' type invariants are not runs' properties;
they are part of the inductive invariants below, or are there for the reader.

Many properties are conditional, because the code does not promise more. The
condition is part of the formula and is a history of what went wrong before:

| Condition | Meaning |
|---|---|
| `Calm` (SafeRetry) | no request outlasted its reservation, no process died, Redis answered |
| `NoSilentFailure` (Attachments) | no exception outside the task's `try`, no pool process that died with a task, no refused message |
| `steady` (ConflictLinks) | the memory was neither held for review nor edited |
| `overlapped` (AuditChain) | two transactions that append or purge were under way at once |
| `raced` (MemoryStore) | the row was inserted by a request that had been writing while another was |
| `overlap`, `outages`, `netfaults` (Sessions) | two exchanges of one token between check and burn; Redis or the network failed |
| `raced`, `ordered`, `evicted` (Billing) | two handlers overlapped; events came in the order they were made; the event fell out of the ring |
| `loose` (RateLimit) | Redis failed, or a process with an older clock set the bucket's time back |
| `torn`, `exposed` (Migrations) | a run died after an autocommit block; a hold was written by the old image between kkx0009's two transactions |
| `torn`, `spoiled`, `cut` (Wiring) | a command was killed while writing the file; two commands, or a command and the user, had it in hand, or a command ran on a torn file; a command ended while it had a canary |
| `crossed` (VendorImport, for RerunFolds) | a new run overtook a request of the old one on the server |
| `crossed` (Archive) | the row the import had looked up for the memory was deleted before it folded the memory in |
| `walked` (Retrieval) | a link led to the memory |

The runs go on past these events, so the unconditional properties beside them are
checked through the faults as well. Each condition names a weakness of the code;
most are in the list of disagreements below.

## Runs that find a disagreement

| Run | What happens |
|---|---|
| AuditFork | two overlapping appends read the same head and fork the chain, which the row lock is there to prevent |
| ToolDedup | a file is saved, renamed, and its old name written again with the old text: the write folds into the renamed file and moves it back, so one of two saved files is gone |
| AttachStranded | the pool process of a task is killed, Celery acknowledges the message although it acks late, and the row stays in processing, which finalize does not touch |

`PROJECT.json`, `findings`, quotes the sentences of the repository these refute.

## Disagreements met while modelling, without a run

These follow from the code the modules translate. None has a run of its own, most
because the state they need was left out or because a conditional property already
names them.

Embedding queue
- An edit racing a tick leaves the old text's vector on the row, which then looks
  embedded: `set_embedding` writes by id (`memory_repo.py:330`; the comment at 287
  says "clear it so embed_pending picks it up"). StaleOnlyByRace says this is the
  only way.
- Editing a parked memory clears its vector and leaves it parked
  (`memory_repo.py:288`); a reindex does the same.
- Editing only the title keeps the old vector.

Audit log
- A purge that empties the log restarts at GENESIS (`audit_repo.py:194`), which
  line 83 describes as "complete from its beginning".
- `verify` accepts a log without its newest entries; its docstring (221) says that
  removal from the end is noticed, `docs/operators/audit.md:89` that it is not.
- A purge between two pages makes `verify` report tampering (AlarmNeedsPurge says
  that nothing else does).

Write path and review
- An edit leaves `content_hash` as it was (`memory_repo.py:286`), so a repeat of the
  old text is folded into a memory that no longer says it.
- A write folded into a held memory is answered with `pending_review` false
  (`memory_service.py:320`).
- Two repeats at once lose metadata keys (`memory_repo.py:719`).
- Two reviewers can both decide one memory (`memory_service.py:176`);
  `test_review_queue_e2e.py:247` expects the second to be refused.
- A bulk review counts memories decided before (`routers/review.py:117`).
- An edit between look and approval gets an unread text approved
  (`memory_service.py:180`).
- Two writes pass the plan's cap together (`memory_service.py:130`).
- Switching the review mode is not audited (`routers/projects.py:86`), although
  `docs/operators/audit.md:18` lists the event.

Attachments
- An exception outside the task's `try`, or a broker that refuses the message, leaves
  the row in processing, which finalize does not touch (`tasks/attachments.py:152`,
  `attachment_service.py:251`). So does a pool process that dies with the task (run
  AttachStranded): `celery_app.py:33` acks late, but `task_reject_on_worker_lost` is not
  set. Only when the worker itself is lost does the broker deliver the message again.
- A task stores chunks stemmed by the configuration it read before a change
  (`tasks/attachments.py:99`).
- The task may run before finalize commits and use the old MIME type
  (`attachment_service.py:188`).
- No task removes the blob of a deleted attachment, although
  `attachment_service.py:230` names one.
- An oversize finalize over REST marks the row failed, raises and rolls the mark back.

Retries
- A request that outlasts its reservation of 60 seconds is executed twice
  (`idempotency.py:98`).
- Two edits with the same If-Match both succeed when they overlap (`etag.py:48`).
- GET responses carry no `ETag` although `docs/api/rest.md` describes one.
- The SDKs repeat failed requests and send no idempotency key, so a repeated POST
  relies on the folding of repeats.

Conflicts
- An older memory embedded late is judged as the new one; its verdict demotes the
  newer memory.
- Notes on recall results name deleted and held memories (`memory_repo.py:813`, 736).
- Overlapping ticks judge, and bill, a memory twice (`tasks/conflict.py:87`).
- A repeated row in the judge's answer rolls the whole tick back
  (`conflict_judge.py:220`); a judge that keeps doing so stops the queue.
- A memory approved late is never compared with those judged in between
  (`memory_repo.py:777`).
- A judge whose model fails marks the memory checked.
- Newer memories starve older ones: as many of them as a batch holds, written tick
  after tick, fill it each time (`memory_repo.py:735`). The comment there means it to be
  so for the backfill only, and `tasks/conflict.py:97` says that a memory over the quota
  "stays queued and gets judged once the daily counter rolls over". EventuallyChecked therefore speaks of a
  time when no newer memory is written any more.

Ageing
- A memory pinned or recalled during the tick is deleted by it (`tasks/decay.py:64`).
- `decay_policy.py:3` says "Memories fade unless they are pinned or recently accessed".
  A memory of an importance near 0 is deleted although it was just recalled: the score
  is importance times the rest. DecaySparesInUse is about scores, not about recalls.
- Memories behind the first 500 are never scored (`memory_repo.py:509`).
- Every night summarises the same clusters again (`memory_repo.py:823`).
- Held memories reach the mid tier and so approved summaries (`memory_repo.py:820`).
- The next decay tick undoes the damping of summarised members
  (`tasks/consolidate.py:128`).

Retrieval
- `memory_repo.py:880` says "Quarantined memories are withheld from every retrieval
  path"; a `link_expand` step reads by id, without review status, scope, sensitivity
  or trust.
- `docs/operators/scale.md:119` says "Retrieval planning falls back to plain hybrid
  when that parse fails"; a plan that does not validate is an error, only a failing
  model falls back.
- A plan's `time_filter` has no effect.
- "Pinned memories always rise to the top" (`reranker_pipeline.py`) is undone by the
  blend with the reranker's score.
- `TokenBudget.fit` shortens items, but the untruncated hits are returned.
- The fallback never writes an answer, also when asked to, and does not set
  `budget_exhausted`; the mode tells.
- Candidates are cut to twice the limit before decay is applied.

Sessions
- The audit entry of a failed login is rolled back (`routers/auth.py:36` against
  `docs/operators/audit.md:14`), and `auth.logout` is never written.
- The comment at `auth.py:67` says there is no rotation; the service rotates.
- A loading tab clears the shared tokens on any failure of `whoami`, a network error
  included, and when another tab has rotated them meanwhile.
- A 401 that arrives after an exchange has ended starts a second one.
- Reset tokens can be used again and a reset ends no session.

Billing and rates
- An "updated" event that arrives after "deleted" brings the plan back.
- `create_checkout` does not ask whether a subscription lives. With two, the end of the
  older one sets the plan to free while the newer is paid for
  (`billing_service.py:161`); its id is stored and never compared.
- An API key may be bound to any scope, one of another organisation included
  (`api_key_service.py:37`), where it then has the role of a member
  (`auth_service.py:248`). TenantsApart is about roles granted and keys owned, which
  this does not touch; what a member may read there is outside `Tenancy`.
- A plan switched in the payment provider's portal is overridden by the metadata of
  the old checkout.
- Overlapping checkouts create two customers, and overlapping webhooks lose one of
  two writes to the JSON column, the list of seen events included.
- The list of seen events holds 50; an older one would be applied again.
- `Retry-After` rounds down (`docs/api/rest.md:45`), and a process whose clock is
  behind sets the bucket's time back, so that the same seconds refill it twice.
- The bucket expires a second after it would be full. When clocks differ by more, a
  slow process that makes it anew dates it back by the difference, and a fast one
  gets the rest as a refill. WithinRate is for clocks within one second.

Migrations
- `env.py` does not set `transaction_per_migration`: a run that dies after an
  autocommit block leaves the schema ahead of the revision, and the next one fails on
  `ADD COLUMN`.
- An interrupted `CREATE INDEX CONCURRENTLY` stays behind invalid, and `IF NOT
  EXISTS` skips it next time.
- A memory the old image quarantines between kkx0009's two transactions is released;
  a downgrade of kkx0009 releases rejected memories, one below kkx0008 every hold, even
  if a torn upgrade had already made the new column.

Memory tool
- A rename onto `/memories` itself is accepted.
- A directory with files past the first 1000 of the scope (`memory_repo.py:661`) is
  deleted or renamed in part and the command reports success (`memory_tool.py:342`), and
  one with all of them there "does not exist".
- Overlapping creates make two rows at one path, of which the older is read.
- Rejected files are readable; a create on a held path overwrites the text under
  review; edits bypass the scans of a write.
- `docs/api/memory-tool.md:128` says that a deleted file's row survives for export,
  which lists live rows only.

Conversations
- A summary is never refreshed by later messages; an ended session takes messages.
- As many refused conversations as a batch holds keep all later ones from their
  summary. IdleSummarised assumes fewer.
- Overlapping ingests split the default conversation in two.
- Only the first 200 messages of a conversation are listed.

Export and import
- A second import of an archive with links fails on the links' primary key, so a lost
  answer cannot be retried; forced twins linked to one memory make an archive that
  cannot be imported at all.
- Blobs and queued tasks survive a rolled-back import; blobs that are missing are
  archived empty, and their attachment stays pending.
- An import's counts include what was folded; an export stops at 10 000 memories.
- A memory folds into a row that was deleted since it was found
  (`memory_service.py:310`, `memory_repo.py:716`), and `link` then passes over its links
  without a word. ImportComplete excuses these (`crossed`).
- The export route never commits (`routers/export.py:32`), so the `scope.exported` entry
  that `export_service.py:230` writes "before the bytes leave" and
  `docs/operators/audit.md:17` lists is rolled back after the archive was handed out.
- `importers.py:12` says "never lossy". Lost are values that are no text under names a
  parser consumes and the keys of keyed records, a second alias of a
  field, one of two sets of leftovers when records are folded, records without a text,
  and elements that are no objects. `pinned_hint` is not applied.
- A broken connection ends the import command; a run started while the server still
  works on a request of the old one can store its record twice.

Command line
- `docs/integrations/claude-code.md:39` says "Re-running is a no-op": every run mints a
  new key, so the entry is rewritten, the backup of the user's original is replaced by
  one of the last entry, and the old keys stay valid. The merge of one given entry is
  byte-stable, as `init.py:13` says.
- A command killed while it writes leaves the file empty; the next one takes that for
  `{}`, writes the entry alone and replaces the backup by the empty file
  (`harnesses.py:57`, 241).
- A Codex file that does not parse ends the command with the parser's exception, not
  with the `HarnessError` of `harnesses.py:7`.
- When the settings file is refused the entry has been written and the key minted.
- Commands at once share a canary: the second deletion is answered 404 and reported as
  a failed verification.
- `docs/integrations/codex.md:51` says `--workspace` "mints a workspace-scoped key"; the
  key is always the project's (`init.py:183`).

## Bounds

Two actors of a kind are enough for every race described here: each is between
one actor that read and one that wrote meanwhile. A third matters only for
counting, so AttachRetry has three attempts, and quotas, caps, rings and buckets hold
one or two. EmbedLive's and ConflictFlow's batches are smaller than their queues because starvation
is the question; so is the number of refused conversations next to the summary's batch.
In ConflictFlow a deleted row that nothing names any more may be written again
(`Forget`), which stands for ever newer memories in a finite model.
Fault budgets are one or two: each fault is meant to happen once in every
position, and a second one only repeats the situation. The audit log needs five
ids for a purge, an append and the purge's own entry around a page boundary.
Store has two rows, the least for a twin. Its MC module confines a behaviour to one of two
lanes, since all kinds of requests at once are too many for TLC: what redaction, forcing
and edits do shows with one request, what overlap does with one text; the theorems have
no lanes. MCConflictLinks has two lanes for the same reason: two overlapping ticks over
a pair, or one tick and a stream of newer memories, three in all, the least for a batch
that they fill. The pair, and the two memories that age in Recall, are the least for a
judgement and for a cluster beside a deletion; HDBSCAN's minimum of three members is lowered to one,
and nothing in the model depends on the number. Recall's four memories differ in what
the pipeline tells apart: scope, pin, decay, links and size (the one outside the scopes is
approved, as a review cannot make it visible); budgets and costs are one
to three units so that each step can be the one that finds nothing left. Migrations run
over all eleven revisions; images 8, 9 and 11 are the releases before, of and after the
move of the hold, and one memory carries it. Access has two users besides the
superuser, the least for an admin who lets another in; a member's rank is what a key has
in the scope it is bound to, so roles are granted from admin up. As no definition tells
plans apart, nor users, the first plan bought and the first account are fixed
(`FirstPlan`, `FirstUser`). Three events of two subscriptions
are the least for the end of one beside the other. The tool's files have at most two
lines, of one token each. A listing has two, so three files overfill it; all three then
have one text, and where writes are folded there is one memory (`Small`; the promise is
empty there, and ToolDedup has no such bound). An archive's target has three rows: one that was there, or is folded into, and
two that are inserted. While an import runs, what is in no archive rests, and an
archive with an attachment has one memory (`Packed`). Import files have one record of every shape, and two where folding
is the question. The wiring takes one harness with a file in the repository and a hook and
one with a file in the home directory only, one key per start, and one saved edition of
one file; `--global` and a probe that fails change which file and which entry, and
have one value each.

`CHECK_DEADLOCK FALSE` is set where budgets run out and the bounded system may
stop. Symmetry is used for requests, transactions, clients, tabs and commands in
EmbedSerial, AuditLog, Store, Access and Recall, which check no liveness; no definition tells them apart.

## Fairness

Weak fairness is assumed for what the code's scheduling repeats or finishes:
Celery beat starts the embedding tick every 30 seconds, the conflict tick every
minute and the summary tick every five minutes; a started request or task goes on or
ends; a backoff and a Redis expiry elapse; days pass. Nothing is assumed of
users, operators or faults, and crashes are bounded. ConflictFlow needs days to
pass because a tenant over its quota waits for the next one; that users write newer
memories, or ever stop, is not assumed. No strong
fairness is used. In AttachRetry, ConflictFlow and Content fairness is stated for the parts
or lanes whose actors it is about.

## Proofs

The theorems hold for every value of the constants that meets the named assumptions:
any number of memories, transactions, ticks, tabs, users, handlers, files and so on,
and any fault budget. Each is proved the same way: an inductive invariant that
contains the property, a lemma that Init implies it, one lemma per action (or group
of actions that touch the same conjuncts) that a step keeps it, and a temporal
step that puts them together. What follows names the strengthening, which is where
the reason lies.

### Embedding queue (`EmbedQueueProofs`)

RetryBudget is inductive with TypeOK once it speaks of what ticks hold:
`record_embed_failure` writes the count the tick *read* plus one, so it is not enough
that rows have attempts to spare, every row in a running tick's batch must have been
read with attempts to spare. ParkedStops and CountsKept assume one tick at a time
(`Serial`); their invariant says that a tick's copy of the count is the row's count,
which a second tick would break (and overlapping ticks do break it: the counts of two
failures merge into one). StaleByRace goes through the actions with the types alone:
what gives a row a vector of another text is the commit of a tick that read the text
before an edit, or the flush of an edit that was loaded before the vector came and
so sees no vector to clear.

### Audit log (`AuditChainProofs`)

Until two transactions are under way at once (`overlapped`) the log is one chain (OneChain).
The invariant: created_at grows with the id, so a purge cuts a prefix of the ids; the
rows a transaction sees as head are the newest; an open row is linked to the newest
live one. The lemmas on `Newest` give the meaning of `ORDER BY id DESC LIMIT 1` by
well-foundedness of `<` on the naturals. From the same invariant, a log with a gap
between two survivors is not a chain (MiddleIsMissed). SilentUntilPurged adds the
verifier: until the first purge, what it carries from page to page is the newest
entry up to its cursor, or nothing (WalkInv), so its next comparison is the chain's
own. Without the condition the first theorem is false (NeverForks, unconditional): the run
AuditFork is the counterexample. What overlap leaves is LinksNameEntries: an open row belongs to one
transaction, and its link names GENESIS, an entry that was committed, or one of the
same transaction (RowsApart, LinksNamed), so a rollback takes no entry that another's
link names.

### Retries and attachments (`AttachRetryProofs`)

Until the first fault (`Calm`) an edit is executed at most once (CalmAtMostOnce), no
attempt at an edit that was made is refused (CalmRetryNotRefused) and a stored
response is never replaced (CalmReplayStable). The invariant is itself conditional
on `Calm`: a running request holds its key (Holds), and an attempt that was carried
out either still holds it or its response is stored (Accounted). A second execution,
or a refusal after the edit, would need two holders. Since faults are only ever
counted up, a step into a calm state starts from a calm state (CalmBefore), which
makes the conditional invariant inductive. ReplaysAreTrue is unconditional: a
response in the cache is that of an attempt that was applied (Backed), whatever
failed.

NobodyIsStranded: until a failure is swallowed (an exception outside the `try`, a
refused message, a pool process that died with its task: `NoSilentFailure`), an
attachment in processing, or one whose row a finalize holds
locked and will put into processing, has a message in the queue or a *useful* task
(HelpedInv): one that has not yet deleted the old chunks, or has inserted the new
ones, or has deleted them and nobody has replaced them since. Any other meets the
unique index, ends and helps nobody, which is why the invariant has to tell them apart.
A locked row is not deleted (LockedLive). ChunksFollowTheSetting goes through the
actions: re-analysis and every task write chunks by the configuration they read, so
only a commit with an old one can leave chunks behind.

### Write path and imports (`StoreProofs`)

SuspiciousIsHeld, for any number of clients: a request past the screening carries
`pending` if its text is suspicious and its principal's trust is low (Judged), and of
the rows such a request inserted the ones approved have a decision in the trail
(HeldBack), committed or not. RepeatsAreForced is for any number of clients too, with a
history: two requests that write at once have *met*, and a row a request inserts after
that is `raced`; such rows may be twins. Uncommitted rows belong to requests that are
writing (Owned), so a lookup while nobody else writes sees every row; a request that has
met nobody still misses at the insert what it missed then (Missed), as others' inserts
would have made them meet (Together); hence of two rows with one fingerprint the later
was forced or raced (LaterForced).

RepeatsAreFolded: until a run posts while the server still works on a request of an
older one, the server works on one request at a time, and what that saw when it
looked for the text is still so when it stores it (ImportInv).

ImportLosesNothingElse needs no such condition. It excuses what the parsers themselves
drop: a value that is no text, or that an earlier alias stood before, under a name they
consume, and the key of a keyed record. It is two facts. One is of the
parsers: the texts they consume end up in the body, the title, the kind or the id, and
the fields they do not stay in the metadata (ParsedSurvives). The
other is of the runs (LossInv): every stored row is some record of the file as it was
parsed, and where a text has one record only it is that record, whichever of the
requests in flight stored it; the records a run has got answers for have a row of
their text. A fold keeps the older row, which has the same text.

### Conflicts (`ConflictProofs`)

PairsAreJudged, for any number of overlapping ticks: of two memories of one owner that are
marked or about to be, by the same or by two ticks, one was shown to the judge with the
other. The three parts of PairInv say it for two marked rows (PairsKept), a marked and
one in a tick's hand (PairsMixed) and two in ticks' hands (PairsTaken): the last is
the interleaving, where neither tick has committed and each sees the other's row as a
candidate because candidates are read by vector, not by mark. A deleted row that
nothing names may be written anew, as a memory that has been with nobody. The hypothesis
`Cardinality(Mem) <= MaxCandidates + 1` says that the limit on candidates leaves nobody
out; beyond it the code does not promise this. NotesAreBacked: links, and those a tick
has still to write, rest on a pair it showed (Backed, TickBacked).

### Ageing, recall and wiring (`RecallProofs`)

SummariesDoNotFade is for one decay tick at a time (`Alone`), as two may delete what the
other promoted. A row in a tick's hand has the tier it was read with and is live
(TierAsRead), what was deleted is in the short tier (FadedShort), what was clustered
or summarised is not (SummedOlder). DecayDeletesWhatItRead is a fact of single steps and
holds for overlapping ticks too, and for memories of any importance: what a tick deletes
scored under the threshold when it was read, and so a memory that scores above it at its
deletion was accessed, or made more important, in between. It does not say that a
memory used lately is kept: with an importance near 0 it is not.

RecallsWhatWasAllowed: every id a call holds, in the vector hits, in the fused ranks, in
the loop's observations and in the bundle, was visible at a moment of the call, or a
link led to it (Backed); that a call's history only grows makes this stable under the
reviewers' decisions. CutsAreTold: the flag and the reason to stop follow the cut
through the loop, the fallback and the second loop (Told). The delicate case is a loop
the budget ended that found nothing: the loop starts again, and the invariant has to
say that the budget ends it again before its first step, or the reason would be lost.

RerunsAreSafe: a file no two commands met in is in the hand of one (OneInHand); what
that will write has the user's settings, unless it was merged into a torn file
(HeldText); and from the copy on the backup has them too (Spared). CanaryGone, the
second half, is inductive as it stands: a live canary is one a command is about to
delete, unless a command was cut off.

### Accounts (`AccountProofs`)

NobodyEntersUninvited: trust is a history that only grows (Kept), so a principal that was
loaded with an organisation, or with an admin's rank in one, is backed by it however stale
it is (Sound). A key also has a member's rank in the scope it is bound to, whosever that
is, and nothing backs this; the theorem holds because no act that hands out a role or a
key asks for less than an admin's rank or the principal's own organisation.

RefreshSpentOnce: while Redis has answered, the token that bought a pair is on the
denylist (Burnt); where no two exchanges overlapped, one that has passed the check is
the only one for its token, which has bought nothing yet (Sole); and so a token has
one child (OneChild).
DropsWhatIsSpent: a pair an exchange brings is fresh and not yet stored (Brought), a call
that was refused used a stale token and an exchange that failed a denied one, or a
request was lost (Refused, FailedFor), and while a tab loads, storage holds what its
exchange sent or what another tab wrote since (Loading).

EventsAppliedOnce: a handler that goes on works on an event its copy of the billing
document does not know (Fresh), applied events were sent (Known), and until a document
is overwritten unseen the row's ring has every applied event that has not fallen
out (Remembered). PlanFollowsEvents adds that in order the applied events are the
first so many (InOrder), that the provider tells of subscriptions that live, with the
plan they were bought with, or ends them (AboutTheLiving, StripeLives, FreeWhenDeleted),
and that the row has the last applied event's plan (PlanOfLast). So a paid plan is that of
a subscription living at that event. The converse, that a living subscription has its
plan, is for organisations that never had two at once.

RateKept: tokens in the hash plus what was let through since any second never exceed a
full bucket and the refill up to the last request (PaidFor), so no stretch admits more
(Bounded); a hash that expired would have been full by then (Living), which is where
the second the script adds to the time of a full refill in `PEXPIRE` is used:
`RateInv(late, s)` is inductive for clocks `late - s` to `late` seconds behind Redis', with
`s` at most one.

### Content (`ContentProofs`)

ImportsAreComplete: what an export lists, and what its archive contains, is closed under
links (ScopeInv). An open import has inserted its new texts under ids nobody else has, and
has looked up the others (Fits, Carries, TargetInv). A row it looked up has the memory's
fingerprint for good, but may be deleted until the import's own update locks it; then the
memory is `crossed`, and it is the only kind of gap a commit may leave.

OneAgentHasFiles is the refinement of `FileStore`, for one client (`OneClient`;
overlapping creates make two rows at one path). Three facts carry it. A path names at
most one live row (Tidy), so that the mapped function from paths to texts is well
defined and an update by id is an update at one path. What the command's lookup
found is still what the path names when it writes, as nobody but a reviewer acts in
between, and the write it is about to do is what the client asked for, on the path its
spelling names (Ready). And there are as many live rows as files (Counted), so that a
listing has all of them up to its limit (AllListed). Then the writes are, one by one, a
step of the file store that carries out the request, and the other steps stutter or
answer it with an error, rejected and
unchanged commands included. Where writes are folded the refinement mapping is the empty store:
the promise is not made there.

HoldSurvives is about kkx0009, which moves the hold from `quarantined_at` to
`review_status` while an image that knows one of the two serves requests. The
invariant: from revision 8 on one of the columns is there (Columned), and a memory that
waits is marked in every column there is (Marked), both in what is committed and in
the migration's open transaction. Only between the statement that adds a column and the
UPDATE that carries the hold over does the old column speak alone (MovingUp,
MovingDown); no autocommit block lies between the two, and the change of the table's
columns keeps it locked, so no other session reads or writes the rows meanwhile. The argument does not use `~torn`: a run
that dies after a block leaves one of the states the invariant already covers.

SchemaFollowsRevision is an induction over the statements of the migrations. Tables say
of every object which statement makes it and which takes it away again (Born, Spot,
Fall, Taken, TakenAt, Back); each of the statements of the eleven upgrades and downgrades is
compared with them once (UpTable, DownTable). What the statements before
the i-th leave is then a set (Raised, Lowered) that each statement moves on by its own effect, from the
schema of one revision to that of the next (RaisesTo, LowersTo), and on it no statement
fails, because what it names, is part of or uses is there, and what it drops has no users
left (UpgradeRuns, DowngradeRuns). The invariant (SchemaInv) adds the interruptions: until a run is torn,
a run that has committed nothing leaves the schema of the committed revision, and an
index is built concurrently only after something was committed, so whatever dies in it
leaves the run torn. The model's schema of a revision (`Schemas`) is defined by what
upgrades up to it make and none later takes away, not by running them.

### Assumptions and limits

The named assumptions (`EmbedQueueAssumption`, `AuditChainAssumption`,
`SafeRetryAssumption`, `AttachmentsAssumption`, `MemoryStoreAssumption`,
`MemAssumption`, `BoundAssumption`, `RelationAssumption`, `WiringAssumption`,
 `SessionAssumption`, `TenancyAssumption`, `BillingAssumption`,
`RateAssumption`, `ArchiveAssumption`, `MemoryToolAssumption`, `MigrationAssumption`,
`ImportAssumption`) say that bounds are natural numbers, that sets are sets of what the
module takes them for and that null values are not values; TLC evaluates them in every
run of their module. `MigrationAssumption` says that deployed images are of revision 8 or
later, as older ones know no hold. `ImportAssumption` says that what a file leaves to
read is a list of records in known formats; the list is made with `SelectSeq`, which is
recursive, so that cannot be derived. The hypotheses `Serial`,
`Alone`, `OneClient` and the bound on candidates belong to single theorems and are
instances of what the code meets: one worker process, one agent, few memories.

Only model-checked:

- all liveness properties (EventuallySettled, ReservationEnds, FinalizedSettles,
  EventuallyChecked, IdleSummarised), which need fairness and ENABLED;
- the refinement of `FileStore` with folding, and with several clients, is false.

## Plan

Every safety property a passing run checks is a theorem. What is left is in the model:
Conversations has no safety property of its own yet that a run checks, chunking and the
SDKs' retries are not modelled.

## Not modelled

Model providers, Postgres ranking, the payment provider and the object store are
outside the program: their answers and failures are nondeterministic inputs. Pattern
matching on text (redaction, injection heuristics, importance) is a property of texts
given as constants. Chunking is a pure function of one text. The SDKs and the MCP
server are fronts without state; the MCP server's finalize, which differs from REST's,
is in Attachments. The broker's visibility timeout, after which a message is
delivered again though its task still runs, is not modelled. Settings, telemetry, mail and the console's pages keep no state the
properties speak of. Password reset and e-mail verification are single
requests, and so are the commands other than `kortex init` and the import.
What a key bound to a foreign scope may read there, workspaces and projects, whose roles follow the rules of organisations, sensitivity
levels of roles, token prices, links written by hand, metadata (except what the memory
tool and the imports keep in it), declared MIME types, the ageing of summaries, the
24-hour expiry of stored responses, the expiry date of memories and the limit of 10 000
memories of an export are left out of the
modules they touch.
