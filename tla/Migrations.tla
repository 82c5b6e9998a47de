------------------------------ MODULE Migrations ------------------------------
(***************************************************************************)
(* The eleven schema migrations, run statement by statement by alembic in   *)
(* one transaction that every autocommit block commits half-way, up and     *)
(* down, with processes that die in between, while the application goes on  *)
(* writing memories that wait for a person.                                 *)
(*                                                                         *)
(* A table stands for its columns and indexes unless a later statement      *)
(* names one of them; such columns, indexes and types are objects here.     *)
(***************************************************************************)
EXTENDS Integers, Sequences, SequencesExt, FiniteSets

CONSTANTS Memories,   \* memories the application may write
          Images,     \* revisions there are application images for
          RunBudget   \* bound: alembic runs

VARIABLES db,      \* the committed database: objects, broken indexes, revision, rows
          tx,      \* the same, as the migration's transaction sees it
          job,     \* the alembic run
          image,   \* the deployed application: the revision it was built for
          hold,    \* history: what is known of a memory that was put on hold
          exposed, \* history: memories written while both kinds of hold had a column
          torn,    \* history: a run ended with more committed than its revision says
          alembicRuns

migrationVars == <<db, tx, job, image, hold, exposed, torn, alembicRuns>>

Latest == 11

(* Older images know no hold.                                              *)
ASSUME MigrationAssumption == Images \subseteq 8..Latest

-----------------------------------------------------------------------------
(* What an object is part of (it goes when that is dropped), and the other  *)
(* objects it uses: foreign keys, types, extensions, columns of an          *)
(* expression.                                                              *)

PartOf(o) ==
  CASE o \in {"email_verified"} -> "users"
    [] o \in {"review_mode", "text_search_config"} -> "projects"
    [] o \in {"entry_hash", "prev_hash", "ix_audit_log_org_id_desc",
              "audit_log_append_only"} -> "audit_log"
    [] o \in {"chunk_ts_config", "chunk_tsv", "chunk_tsv_by_config",
              "ix_chunk_tsv_gin", "ix_chunk_hnsw"} -> "attachment_chunks"
    [] o \in {"ix_tsv_gin", "ix_body_trgm", "ix_hnsw", "tsv", "tsv_by_config", "ts_config",
              "conflict_checked_at", "embed_attempts", "embed_error", "embed_failed_at",
              "embed_next_attempt_at", "content_hash", "trust", "pii_flags",
              "quarantined_at", "quarantine_reason", "review_status", "review_reason",
              "reviewed_at", "reviewed_by", "confidence"} -> "memories"
    [] o = "ix_conflict_pending" -> "conflict_checked_at"
    [] o = "ix_embed_failed" -> "embed_failed_at"
    [] o = "ix_content_hash" -> "content_hash"
    [] o = "ix_quarantined" -> "quarantined_at"
    [] o = "ix_review_pending" -> "review_status"
    [] OTHER -> "database"

Uses(o) ==
  CASE o = "workspaces" -> {"orgs"}
    [] o = "projects" -> {"orgs", "workspaces"}
    [] o = "users" -> {"citext"}
    [] o = "memberships" -> {"users", "scope_t", "role_t"}
    [] o = "api_keys" -> {"orgs", "users", "scope_t"}
    [] o = "jwt_revocations" -> {"users"}
    [] o = "audit_log" -> {"orgs", "actor_t"}
    [] o = "sessions" -> {"orgs", "projects", "agent_t"}
    [] o = "conversations" -> {"orgs", "sessions", "vector"}
    [] o = "messages" -> {"orgs", "conversations", "message_role_t"}
    [] o = "memories" -> {"orgs", "users", "scope_t", "memory_source_t", "memory_kind_t",
                          "memory_tier_t", "sensitivity_t", "vector"}
    [] o = "ix_body_trgm" -> {"pg_trgm"}
    [] o = "memory_links" -> {"memories", "link_t"}
    [] o = "attachments" -> {"orgs", "users", "scope_t", "sensitivity_t", "attachment_status_t"}
    [] o = "attachment_chunks" -> {"orgs", "attachments", "vector"}
    [] o = "trust" -> {"memory_trust_t"}
    [] o = "review_status" -> {"review_status_t"}
    [] o = "review_mode" -> {"review_mode_t"}
    [] o = "reviewed_by" -> {"users"}
    [] o = "tsv_by_config" -> {"ts_config"}
    [] o = "chunk_tsv_by_config" -> {"chunk_ts_config"}
    [] o = "audit_log_append_only" -> {"audit_guard"}
    [] OTHER -> {}

-----------------------------------------------------------------------------
(* The statements: "add" and "drop" fail if the object is there or missing,  *)
(* "ensure" and "clear" are the IF [NOT] EXISTS forms, "commit" enters an    *)
(* autocommit block, in which "index" and "unindex" run CONCURRENTLY, and    *)
(* "carry" is an UPDATE of the rows.                                         *)

Stmt(k, names) == [i \in DOMAIN names |-> [k |-> k, o |-> names[i]]]

Carry == Stmt("carry", <<"rows">>)
Commit == Stmt("commit", <<"block">>)

UpTenancy == Stmt("ensure", <<"vector", "pg_trgm", "citext", "uuid_ossp">>)
             \o Stmt("add", <<"scope_t", "role_t", "actor_t", "orgs", "workspaces", "projects">>)
UpAccess == Stmt("add", <<"users", "memberships", "api_keys">>)
UpAudit == Stmt("add", <<"jwt_revocations", "audit_log">>)
Down1 == Stmt("drop", <<"audit_log", "jwt_revocations", "api_keys", "memberships", "users",
                        "projects", "workspaces", "orgs">>)
         \o Stmt("clear", <<"actor_t", "role_t", "scope_t">>)

UpSessions == Stmt("add", <<"agent_t", "message_role_t", "memory_tier_t", "sensitivity_t",
                            "memory_kind_t", "memory_source_t", "link_t", "sessions",
                            "conversations">>)
UpMessages == Stmt("add", <<"messages">>)
UpMemories == Stmt("add", <<"memories", "tsv", "ix_hnsw", "ix_tsv_gin", "ix_body_trgm">>)
UpLinks == Stmt("add", <<"memory_links">>)
Down2 == Stmt("drop", <<"memory_links">>)
         \o Stmt("clear", <<"ix_body_trgm", "ix_tsv_gin", "ix_hnsw">>)
         \o Stmt("drop", <<"memories", "messages", "conversations", "sessions">>)
         \o Stmt("clear", <<"link_t", "memory_source_t", "memory_kind_t", "sensitivity_t",
                            "memory_tier_t", "message_role_t", "agent_t">>)

UpAttachments == Stmt("add", <<"attachment_status_t", "attachments">>)
UpChunks == Stmt("add", <<"attachment_chunks", "chunk_tsv", "ix_chunk_hnsw",
                          "ix_chunk_tsv_gin">>)
Down3 == Stmt("clear", <<"ix_chunk_tsv_gin", "ix_chunk_hnsw">>)
         \o Stmt("drop", <<"attachment_chunks", "attachments">>)
         \o Stmt("clear", <<"attachment_status_t">>)

Up4 == Stmt("add", <<"email_verified">>)
Down4 == Stmt("drop", <<"email_verified">>)

Up5 == Stmt("add", <<"conflict_checked_at">>) \o Commit
       \o Stmt("index", <<"ix_conflict_pending">>)
Down5 == Commit \o Stmt("unindex", <<"ix_conflict_pending">>)
         \o Stmt("drop", <<"conflict_checked_at">>)

Up6 == Stmt("add", <<"embed_attempts", "embed_error", "embed_failed_at",
                     "embed_next_attempt_at">>)
       \o Commit \o Stmt("index", <<"ix_embed_failed">>)
Down6 == Commit \o Stmt("unindex", <<"ix_embed_failed">>)
         \o Stmt("drop", <<"embed_next_attempt_at", "embed_failed_at", "embed_error",
                           "embed_attempts">>)

Up7 == Stmt("add", <<"content_hash">>) \o Commit \o Stmt("index", <<"ix_content_hash">>)
Down7 == Commit \o Stmt("unindex", <<"ix_content_hash">>) \o Stmt("drop", <<"content_hash">>)

Up8 == Stmt("ensure", <<"memory_trust_t">>)
       \o Stmt("add", <<"trust", "pii_flags", "quarantined_at", "quarantine_reason">>)
       \o Commit \o Stmt("index", <<"ix_quarantined">>)
Down8 == Commit \o Stmt("unindex", <<"ix_quarantined">>)
         \o Stmt("drop", <<"quarantine_reason", "quarantined_at", "pii_flags", "trust">>)
         \o Stmt("clear", <<"memory_trust_t">>)

(* Variant: the columns are swapped and the rows are left as they are.      *)
Up9Uncarried == Stmt("ensure", <<"review_status_t", "review_mode_t">>)
       \o Stmt("add", <<"review_status", "review_reason", "reviewed_at", "reviewed_by",
                        "confidence", "review_mode">>)
       \o Commit \o Stmt("index", <<"ix_review_pending">>)
       \o Stmt("unindex", <<"ix_quarantined">>)
       \o Stmt("drop", <<"quarantine_reason", "quarantined_at">>)

Up9 == Stmt("ensure", <<"review_status_t", "review_mode_t">>)
       \o Stmt("add", <<"review_status", "review_reason", "reviewed_at", "reviewed_by",
                        "confidence">>)
       \o Carry \o Stmt("add", <<"review_mode">>)
       \o Commit \o Stmt("index", <<"ix_review_pending">>)
       \o Stmt("unindex", <<"ix_quarantined">>)
       \o Stmt("drop", <<"quarantine_reason", "quarantined_at">>)
Down9 == Stmt("add", <<"quarantined_at", "quarantine_reason">>) \o Carry
         \o Commit \o Stmt("index", <<"ix_quarantined">>)
         \o Stmt("unindex", <<"ix_review_pending">>)
         \o Stmt("drop", <<"review_mode", "confidence", "reviewed_by", "reviewed_at",
                           "review_reason", "review_status">>)
         \o Stmt("clear", <<"review_mode_t", "review_status_t">>)

(* _swap_tsv                                                               *)
SwapTsv(index, old, new) ==
  Stmt("clear", <<index>>) \o Stmt("drop", <<old>>) \o Stmt("add", <<new, index>>)

Up10 == Stmt("add", <<"text_search_config", "ts_config", "chunk_ts_config">>)
        \o SwapTsv("ix_tsv_gin", "tsv", "tsv_by_config")
        \o SwapTsv("ix_chunk_tsv_gin", "chunk_tsv", "chunk_tsv_by_config")

(* Variant: the configuration goes before the column computed from it.      *)
Down10ConfigFirst == Stmt("drop", <<"ts_config", "chunk_ts_config", "text_search_config">>)
        \o SwapTsv("ix_tsv_gin", "tsv_by_config", "tsv")
        \o SwapTsv("ix_chunk_tsv_gin", "chunk_tsv_by_config", "chunk_tsv")

Down10 == SwapTsv("ix_tsv_gin", "tsv_by_config", "tsv")
          \o SwapTsv("ix_chunk_tsv_gin", "chunk_tsv_by_config", "chunk_tsv")
          \o Stmt("drop", <<"ts_config", "chunk_ts_config", "text_search_config">>)

Up11 == Stmt("add", <<"entry_hash", "prev_hash", "ix_audit_log_org_id_desc">>)
        \o Stmt("ensure", <<"audit_guard">>) \o Stmt("add", <<"audit_log_append_only">>)
Down11 == Stmt("clear", <<"audit_log_append_only", "audit_guard">>)
          \o Stmt("drop", <<"ix_audit_log_org_id_desc", "prev_hash", "entry_hash">>)

Upgrade == <<UpTenancy \o UpAccess \o UpAudit,
             UpSessions \o UpMessages \o UpMemories \o UpLinks,
             UpAttachments \o UpChunks, Up4, Up5, Up6, Up7, Up8, Up9, Up10, Up11>>
Downgrade == <<Down1, Down2, Down3, Down4, Down5, Down6, Down7, Down8, Down9, Down10, Down11>>

-----------------------------------------------------------------------------
(* What the ORM's tables declare.                                          *)

OrgModels == {"orgs", "workspaces", "projects", "review_mode_t", "review_mode",
              "text_search_config"}
UserModels == {"users", "memberships", "role_t", "scope_t", "email_verified"}
KeyModels == {"api_keys"}
AuditModels == {"audit_log", "actor_t", "entry_hash", "prev_hash"}
SessionModels == {"sessions", "conversations", "messages", "agent_t", "message_role_t"}
MemoryModels == {"memories", "memory_tier_t", "sensitivity_t", "memory_kind_t",
                 "memory_source_t", "review_status_t", "memory_trust_t", "link_t",
                 "ix_review_pending", "ix_content_hash", "ix_embed_failed",
                 "ix_conflict_pending"}
MemoryColumns == {"ts_config", "tsv_by_config", "trust", "pii_flags", "review_status",
                  "review_reason", "reviewed_at", "reviewed_by", "confidence", "content_hash",
                  "conflict_checked_at", "embed_attempts", "embed_error", "embed_failed_at",
                  "embed_next_attempt_at", "memory_links"}
AttachmentModels == {"attachments", "attachment_chunks", "attachment_status_t",
                     "chunk_ts_config", "chunk_tsv_by_config"}

Models == OrgModels \cup UserModels \cup KeyModels \cup AuditModels \cup SessionModels
          \cup MemoryModels \cup MemoryColumns \cup AttachmentModels

-----------------------------------------------------------------------------
(* The effect of a statement.                                              *)

Objects == {st.o : st \in UNION {ToSet(Upgrade[r]) \cup ToSet(Downgrade[r]) : r \in DOMAIN Upgrade}}

(* The object and all that is part of it.                                  *)
Whole == [o \in Objects |-> {x \in Objects : x = o \/ PartOf(x) = o \/ PartOf(PartOf(x)) = o}]

(* The objects that use a part of it and are none themselves.              *)
Users == [o \in Objects |-> {x \in Objects \ Whole[o] : Uses(x) \cap Whole[o] # {}}]

Fails(s, d) ==
  \/ s.k = "add" /\ s.o \in d.objs
  \/ s.k = "add" /\ ~(Uses(s.o) \cup {PartOf(s.o)} \subseteq d.objs \cup {"database"})
  \/ s.k = "drop" /\ s.o \notin d.objs
  \/ s.k \in {"drop", "clear"} /\ Users[s.o] \cap d.objs # {}

(* The column defaults, and the two UPDATEs of kkx0009.                    *)
RowsAfter(s, rows, upwards) ==
  CASE s.k = "add" /\ s.o = "review_status" ->
         [m \in Memories |-> [rows[m] EXCEPT !.status = "approved"]]
    [] s.k = "drop" /\ s.o = "review_status" ->
         [m \in Memories |-> [rows[m] EXCEPT !.status = "none"]]
    [] s.k = "drop" /\ s.o = "quarantined_at" ->
         [m \in Memories |-> [rows[m] EXCEPT !.quarantined = FALSE]]
    [] s.k = "carry" /\ upwards ->
         [m \in Memories |-> IF rows[m].quarantined THEN [rows[m] EXCEPT !.status = "pending"]
                             ELSE rows[m]]
    [] s.k = "carry" /\ ~upwards ->
         [m \in Memories |-> IF rows[m].status = "pending"
                             THEN [rows[m] EXCEPT !.quarantined = TRUE] ELSE rows[m]]
    [] OTHER -> rows

Effect(s, d, upwards) ==
  [d EXCEPT !.rows = RowsAfter(s, @, upwards),
            !.objs = CASE s.k \in {"add", "ensure", "index"} -> @ \cup {s.o}
                       [] s.k \in {"drop", "clear", "unindex"} -> @ \ Whole[s.o]
                       [] OTHER -> @,
            !.broken = IF s.k \in {"drop", "clear", "unindex"} THEN @ \ Whole[s.o] ELSE @]

Empty == [objs |-> {}, broken |-> {}, rev |-> 0,
          rows |-> [m \in Memories |-> [quarantined |-> FALSE, status |-> "none"]]]

(* Reference: the objects of a revision, the ones an upgrade up to it makes *)
(* and no later one takes away.                                            *)
Makes(r, i, o) == Upgrade[r][i].k \in {"add", "ensure", "index"} /\ Upgrade[r][i].o = o
Takes(r, i, o) == Upgrade[r][i].k \in {"drop", "clear", "unindex"} /\ o \in Whole[Upgrade[r][i].o]

SchemaAt(rev) ==
  {o \in Objects : \E r \in 1..rev : \E i \in DOMAIN Upgrade[r] :
     /\ Makes(r, i, o)
     /\ \A q \in r..rev : \A j \in DOMAIN Upgrade[q] :
          Takes(q, j, o) => q = r /\ j < i}

Schemas == [rev \in 0..Latest |-> SchemaAt(rev)]

(* CREATE EXTENSION has no counterpart in a downgrade.                     *)
Extensions == {"vector", "pg_trgm", "citext", "uuid_ossp"}

-----------------------------------------------------------------------------
Idle == [state |-> "idle", upwards |-> TRUE, pc |-> 1, target |-> 0, open |-> FALSE]

MigrationTypeOK ==
  /\ db.rev \in 0..Latest /\ tx.rev \in 0..Latest
  /\ job.state \in {"idle", "running", "failed"}
  /\ image \in Images
  /\ hold \in [Memories -> {"none", "waiting", "over"}]
  /\ exposed \subseteq Memories
  /\ torn \in BOOLEAN

MigrationInit ==
  /\ \E rev \in 0..Latest : db = [Empty EXCEPT !.objs = Schemas[rev], !.rev = rev]
  /\ tx = db
  /\ job = Idle
  /\ image \in Images
  /\ hold = [m \in Memories |-> "none"]
  /\ exposed = {}
  /\ torn = FALSE
  /\ alembicRuns = 0

Running == job.state = "running"

(* The statements of the migration the run is in, and whether it is done.  *)
Statements == IF job.upwards THEN Upgrade[tx.rev + 1] ELSE Downgrade[tx.rev]
AtTarget == tx.rev = job.target

(* alembic upgrade head, or downgrade to a revision.                       *)
Start(target) ==
  /\ ~Running
  /\ alembicRuns < RunBudget
  /\ target # db.rev
  /\ alembicRuns' = alembicRuns + 1
  /\ tx' = db
  /\ job' = [state |-> "running", upwards |-> target > db.rev, pc |-> 1, target |-> target,
             open |-> FALSE]
  /\ UNCHANGED <<db, image, hold, exposed, torn>>

(* Below kkx0008 nothing can be held.                                      *)
HoldIn(d) ==
  [m \in Memories |-> IF hold[m] = "waiting" /\ d.rev < 8 /\ "quarantined_at" \notin d.objs
                      THEN "over" ELSE hold[m]]

(* One statement.  An autocommit block commits what came before it and     *)
(* each of its statements; after it a new transaction is open.             *)
Execute ==
  /\ Running /\ ~AtTarget /\ job.pc <= Len(Statements)
  /\ LET s == Statements[job.pc]
         next == Effect(s, tx, job.upwards)
     IN  \/ /\ Fails(s, tx)
            /\ job' = [job EXCEPT !.state = "failed"]
            /\ tx' = db
            /\ torn' = (torn \/ job.open)
            /\ UNCHANGED db
         \/ /\ ~Fails(s, tx)
            /\ job' = [job EXCEPT !.pc = @ + 1,
                                  !.open = IF s.k = "commit" THEN job.pc > 1
                                           ELSE @ \/ s.k \in {"index", "unindex"}]
            /\ tx' = next
            /\ db' = IF s.k \in {"commit", "index", "unindex"} THEN next ELSE db
            /\ UNCHANGED torn
  /\ hold' = HoldIn(db')
  /\ UNCHANGED <<image, exposed, alembicRuns>>

(* The migration's end: alembic_version is updated in the open             *)
(* transaction, which the next block or the end of the run commits.        *)
Stamp ==
  /\ Running /\ ~AtTarget /\ job.pc > Len(Statements)
  /\ tx' = [tx EXCEPT !.rev = IF job.upwards THEN @ + 1 ELSE @ - 1]
  /\ job' = [job EXCEPT !.pc = 1]
  /\ UNCHANGED <<db, image, hold, exposed, torn, alembicRuns>>

Finish ==
  /\ Running /\ AtTarget
  /\ db' = tx
  /\ hold' = HoldIn(tx)
  /\ job' = Idle
  /\ UNCHANGED <<tx, image, exposed, torn, alembicRuns>>

(* The process dies, or a statement times out.  An index being built       *)
(* CONCURRENTLY stays behind, unusable.                                    *)
Die ==
  /\ Running
  /\ job' = Idle
  /\ torn' = (torn \/ job.open)
  /\ \/ db' = db
     \/ /\ ~AtTarget /\ job.pc <= Len(Statements)
        /\ Statements[job.pc].k = "index"
        /\ Statements[job.pc].o \notin db.objs
        /\ db' = [db EXCEPT !.objs = @ \cup {Statements[job.pc].o},
                            !.broken = @ \cup {Statements[job.pc].o}]
  /\ tx' = db'
  /\ UNCHANGED <<image, hold, exposed, alembicRuns>>

-----------------------------------------------------------------------------
(* The application, whose statements name every column of its models.       *)

Columns == {o \in Schemas[8] \cup Schemas[Latest] : PartOf(o) = "memories"}
           \ {"tsv", "tsv_by_config", "ix_hnsw", "ix_tsv_gin", "ix_body_trgm"}

Works == "memories" \in db.objs /\ Schemas[image] \cap Columns \subseteq db.objs

(* Rows are locked while the migration has changes of the table open.       *)
Unlocked == tx.objs = db.objs /\ tx.rows = db.rows

SetRow(m, row) ==
  /\ db' = [db EXCEPT !.rows[m] = row]
  /\ tx' = [tx EXCEPT !.rows[m] = row]

(* A suspicious memory is written: held the way the image knows.            *)
Hold(m) ==
  /\ hold[m] = "none" /\ Works /\ Unlocked
  /\ SetRow(m, [quarantined |-> image = 8,
                status |-> IF image > 8 THEN "pending"
                           ELSE IF "review_status" \in db.objs THEN "approved" ELSE "none"])
  /\ hold' = [hold EXCEPT ![m] = "waiting"]
  /\ exposed' = IF {"quarantined_at", "review_status"} \subseteq db.objs
                THEN exposed \cup {m} ELSE exposed
  /\ UNCHANGED <<job, image, torn, alembicRuns>>

(* A person lets it through.                                                *)
Release(m) ==
  /\ hold[m] = "waiting" /\ Works /\ Unlocked
  /\ SetRow(m, IF image = 8 THEN [db.rows[m] EXCEPT !.quarantined = FALSE]
               ELSE [db.rows[m] EXCEPT !.status = "approved"])
  /\ hold' = [hold EXCEPT ![m] = "over"]
  /\ UNCHANGED <<job, image, exposed, torn, alembicRuns>>

Deploy(i) ==
  /\ image # i
  /\ image' = i
  /\ UNCHANGED <<db, tx, job, hold, exposed, torn, alembicRuns>>

MigrationNext ==
  \/ \E target \in 0..Latest : Start(target)
  \/ Execute \/ Stamp \/ Finish \/ Die
  \/ \E m \in Memories : Hold(m) \/ Release(m)
  \/ \E i \in Images : Deploy(i)

MigrationSpec == MigrationInit /\ [][MigrationNext]_migrationVars

-----------------------------------------------------------------------------
(* Properties.                                                             *)

(* Whatever the way up and down, no statement fails and a finished or       *)
(* interrupted run leaves the objects of the revision it recorded, which    *)
(* at head are what the ORM's models need; the exception is a run that      *)
(* ended after an autocommit block had committed part of its work.          *)
SchemaMatchesRevision ==
  (~Running /\ ~torn)
  => /\ job.state # "failed"
     /\ db.objs \ Extensions = Schemas[db.rev] \ Extensions
     /\ db.broken = {}
     /\ db.rev = Latest => Models \subseteq db.objs

(* A memory that waits for a person is found by no search of the deployed   *)
(* application, before, during and after kkx0009 in both directions,        *)
(* unless it was written while both kinds of hold had their column.         *)
HoldCarried ==
  \A m \in Memories \ exposed :
    (hold[m] = "waiting" /\ Works)
    => IF image = 8 THEN db.rows[m].quarantined ELSE db.rows[m].status = "pending"
=============================================================================
