----------------------------- MODULE MemoryStore -----------------------------
(***************************************************************************)
(* The write path of one project's memories: MemoryService.write with its  *)
(* governance (redaction, quarantine, review gating), write-time           *)
(* deduplication and plan quota; batch ingest; edit and deletion; and the  *)
(* review queue.                                                           *)
(*                                                                         *)
(* A request is one transaction at READ COMMITTED.  Each step below is one *)
(* statement (or several that no other actor can tell apart); rows it      *)
(* inserted are "open" until the commit.  A service instance caches the    *)
(* project's review mode and the org's memory count for its whole life.    *)
(* Ids are handed out in the order of created_at.                          *)
(***************************************************************************)
EXTENDS Naturals, FiniteSets

CONSTANTS Clients,     \* requests in flight
          Texts,       \* title + body, as a caller sends it
          Redact,      \* what the PII redaction turns a text into
          Suspicious,  \* stored texts that match an injection heuristic
          Modes,       \* review modes an admin switches between
          Cap,         \* max_memories of the org's plan
          MaxId,       \* bound: memories ever inserted
          NoOne        \* no client: reviewed_by / owner is NULL

ASSUME MemoryStoreAssumption ==
  /\ Redact \in [Texts -> Texts] /\ Suspicious \subseteq Texts
  /\ Modes \subseteq {"off", "low_confidence", "all"} /\ Modes # {}
  /\ Cap \in Nat /\ MaxId \in Nat
  /\ NoOne \notin Clients
  /\ Texts # {} /\ IsFiniteSet(Clients)

Ids == 1..MaxId
NoId == 0
Uncounted == MaxId + Cap + 1       \* _mem_count is None
AnyText == CHOOSE t \in Texts : TRUE

VARIABLES row,    \* the memories
          mode,   \* projects.review_mode
          nextId,
          req,    \* the requests
          trail,  \* review decisions in the audit log: <<id, status, client>>
          met,    \* history: requests whose writes have overlapped another's
          raced   \* history: memories written by such a request

vars == <<row, mode, nextId, req, trail, met, raced>>

Row == [ status  : {"free", "open", "live", "gone"},
         owner   : Clients \cup {NoOne},          \* while open
         text    : Texts,
         hash    : Texts,                         \* content_hash
         review  : {"approved", "pending", "rejected"},
         by      : Clients \cup {NoOne},          \* reviewed_by / reviewed_at
         low     : BOOLEAN,                       \* trust = low
         forced  : BOOLEAN,                       \* history
         edited  : BOOLEAN ]                      \* history

Payload == [ text : Texts, force : BOOLEAN,
             low : BOOLEAN,       \* from a source of low trust
             batch : BOOLEAN ]    \* one item of ingest_git_log

Req == [ pc     : {"idle", "fold", "miss", "granted", "wrote", "reading", "deciding"},
         pay    : Payload,
         review : {"approved", "pending"},        \* decide_review's answer
         mode   : Modes \cup {"unread"},          \* _project_settings
         count  : 0..Uncounted,                   \* _mem_count
         id     : 0..MaxId,                       \* the row found or reviewed
         accept : BOOLEAN ]

TypeOK ==
  /\ row \in [Ids -> Row]
  /\ mode \in Modes
  /\ nextId \in 1..(MaxId + 1)
  /\ req \in [Clients -> Req]
  /\ trail \subseteq (Ids \X {"approved", "rejected"} \X Clients)
  /\ met \subseteq Clients /\ raced \subseteq Ids

NoPayload == [ text |-> AnyText, force |-> FALSE, low |-> FALSE, batch |-> FALSE ]
IdleReq == [ pc |-> "idle", pay |-> NoPayload, review |-> "approved", mode |-> "unread",
             count |-> Uncounted, id |-> NoId, accept |-> FALSE ]
FreeRow == [ status |-> "free", owner |-> NoOne, text |-> AnyText, hash |-> AnyText,
             review |-> "approved", by |-> NoOne, low |-> FALSE,
             forced |-> FALSE, edited |-> FALSE ]

Init ==
  /\ row = [i \in Ids |-> FreeRow]
  /\ mode \in Modes
  /\ nextId = 1
  /\ req = [c \in Clients |-> IdleReq]
  /\ trail = {} /\ met = {} /\ raced = {}

Live(i) == row[i].status = "live"
LiveIds == {i \in Ids : Live(i)}

(* What a transaction sees: committed rows and its own.                    *)
Visible(c) == {i \in Ids : Live(i) \/ (row[i].status = "open" /\ row[i].owner = c)}

Writing(c) == req[c].pc \in {"fold", "miss", "granted", "wrote"}
Rivals(c) == {d \in Clients \ {c} : Writing(d)}

Least(S) == CHOOSE i \in S : \A j \in S : i <= j

-----------------------------------------------------------------------------
(* MemoryService.write.  Mutated forms of a definition are written just    *)
(* before it.                                                              *)

(* content_hash is taken from the text that will be stored.  Texts are     *)
(* taken up to normalize_content (NFKC and runs of whitespace), so that    *)
(* SHA-256 tells apart exactly the texts that are different here.          *)
FingerprintOfPayload(t) == t

Fingerprint(t) == Redact[t]

(* should_quarantine and decide_review.                                    *)
DecideReviewModeFirst(m, p, unsure) ==
  IF m = "off" THEN "approved"
  ELSE IF p.low /\ Redact[p.text] \in Suspicious THEN "pending"
  ELSE IF m = "all" THEN "pending"
  ELSE IF m = "low_confidence" /\ unsure THEN "pending"
  ELSE "approved"

DecideReview(m, p, unsure) ==
  IF \/ p.low /\ Redact[p.text] \in Suspicious
     \/ m = "all"
     \/ m = "low_confidence" /\ unsure
  THEN "pending" ELSE "approved"

(* find_by_content_hash: the oldest one the transaction sees.              *)
FindByContentHash(c, t) ==
  LET M == {i \in Visible(c) : row[i].hash = Fingerprint(t)}
  IN  IF M = {} THEN NoId ELSE Least(M)

(* Up to and including the lookup.  The first write of a request reads the *)
(* project; a batch (ingest_git_log) comes here once per commit and goes   *)
(* by what it read the first time.  "unsure" is a confidence below the     *)
(* threshold.                                                              *)
WriteLookup(c, p, unsure) ==
  LET found == IF p.force THEN NoId ELSE FindByContentHash(c, p.text)
      m == IF req[c].mode = "unread" THEN mode ELSE req[c].mode IN
  /\ \/ req[c].pc = "idle"
     \/ req[c].pc = "wrote" /\ req[c].pay.batch /\ p.batch
  /\ found # NoId \/ nextId <= MaxId
  /\ req' = [req EXCEPT
       ![c].pc = IF found = NoId THEN "miss" ELSE "fold",
       ![c].pay = p,
       ![c].review = DecideReview(m, p, unsure),
       ![c].mode = IF p.batch THEN m ELSE "unread",
       ![c].id = found]
  /\ met' = IF Rivals(c) = {} THEN met ELSE met \cup {c} \cup Rivals(c)
  /\ UNCHANGED <<row, mode, nextId, trail, raced>>

(* record_duplicate bumps the access count and merges metadata, which      *)
(* nothing here depends on.  A single write commits at once; a batch goes  *)
(* on to its next item.                                                    *)
WriteFold(c) ==
  /\ req[c].pc = "fold"
  /\ req' = IF req[c].pay.batch THEN [req EXCEPT ![c].pc = "wrote"]
            ELSE [req EXCEPT ![c] = IdleReq]
  /\ met' = IF req[c].pay.batch THEN met ELSE met \ {c}
  /\ UNCHANGED <<row, mode, nextId, trail, raced>>

CountForOrg(c) == Cardinality(Visible(c))

(* The number _enforce_memory_quota compares with the cap: counted once,   *)
(* then tracked locally.                                                   *)
QuotaCount(c) == IF req[c].count = Uncounted THEN CountForOrg(c) ELSE req[c].count

EnforceQuota(c) ==
  /\ req[c].pc = "miss"
  /\ QuotaCount(c) < Cap
  /\ req' = [req EXCEPT ![c].pc = "granted", ![c].count = QuotaCount(c) + 1]
  /\ UNCHANGED <<row, mode, nextId, trail, met, raced>>

(* QuotaExceededError: the request answers 402 and rolls back.             *)
Undo(c) ==
  [i \in Ids |-> IF row[i].status = "open" /\ row[i].owner = c
                 THEN [FreeRow EXCEPT !.status = "gone"] ELSE row[i]]

QuotaExceeded(c) ==
  /\ req[c].pc = "miss"
  /\ QuotaCount(c) >= Cap
  /\ row' = Undo(c)
  /\ req' = [req EXCEPT ![c] = IdleReq]
  /\ met' = met \ {c}
  /\ UNCHANGED <<mode, nextId, trail, raced>>

(* MemoryRepository.create.                                                *)
WriteInsert(c) ==
  LET p == req[c].pay IN
  /\ req[c].pc = "granted"
  /\ nextId <= MaxId
  /\ row' = [row EXCEPT ![nextId] =
       [ status |-> "open", owner |-> c, text |-> Redact[p.text],
         hash |-> Fingerprint(p.text), review |-> req[c].review, by |-> NoOne,
         low |-> p.low, forced |-> p.force, edited |-> FALSE ]]
  /\ nextId' = nextId + 1
  /\ req' = [req EXCEPT ![c].pc = "wrote", ![c].review = "approved",
                        ![c].pay = [NoPayload EXCEPT !.batch = p.batch]]
  /\ raced' = IF c \in met THEN raced \cup {nextId} ELSE raced
  /\ UNCHANGED <<mode, trail, met>>

Commit(c) ==
  /\ req[c].pc = "wrote"
  /\ row' = [i \in Ids |-> IF row[i].status = "open" /\ row[i].owner = c
                           THEN [row[i] EXCEPT !.status = "live", !.owner = NoOne]
                           ELSE row[i]]
  /\ req' = [req EXCEPT ![c] = IdleReq]
  /\ met' = met \ {c}
  /\ UNCHANGED <<mode, nextId, trail, raced>>

(* The inline embedder raises, the process dies, the client is refused.    *)
Fail(c) ==
  /\ req[c].pc # "idle"
  /\ row' = Undo(c)
  /\ req' = [req EXCEPT ![c] = IdleReq]
  /\ met' = met \ {c}
  /\ UNCHANGED <<mode, nextId, trail, raced>>

-----------------------------------------------------------------------------
(* Edit, deletion, review mode.  Each is one short transaction.            *)

(* update_fields with a text: neither content_hash nor review_status       *)
(* follows.                                                                *)
Update(i, t) ==
  /\ Live(i)
  /\ row[i].text # t
  /\ row' = [row EXCEPT ![i].text = t, ![i].edited = TRUE]
  /\ UNCHANGED <<mode, nextId, req, trail, met, raced>>

(* soft_delete.  The row keeps its columns, but nothing in this module     *)
(* reads those of a deleted row, so the model forgets them.                *)
Delete(i) ==
  /\ Live(i)
  /\ row' = [row EXCEPT ![i] = [FreeRow EXCEPT !.status = "gone"]]
  /\ UNCHANGED <<mode, nextId, req, trail, met, raced>>

SetReviewMode(m) ==
  /\ mode # m
  /\ mode' = m
  /\ UNCHANGED <<row, nextId, req, trail, met, raced>>

-----------------------------------------------------------------------------
(* The review queue.                                                       *)

(* GET /v1/review shows the reviewer a held memory.                        *)
ReviewRead(c, i) ==
  /\ req[c].pc = "idle"
  /\ Live(i) /\ row[i].review = "pending"
  /\ req' = [req EXCEPT ![c].pc = "reading", ![c].id = i]
  /\ UNCHANGED <<row, mode, nextId, trail, met, raced>>

(* MemoryService.review: load, and return as it is what is gone or already *)
(* decided ...                                                             *)
ReviewLoad(c, accept) ==
  LET i == req[c].id IN
  /\ req[c].pc = "reading"
  /\ req' = IF Live(i) /\ row[i].review = "pending"
            THEN [req EXCEPT ![c].pc = "deciding", ![c].accept = accept]
            ELSE [req EXCEPT ![c] = IdleReq]
  /\ UNCHANGED <<row, mode, nextId, trail, met, raced>>

Verdict(accept) == IF accept THEN "approved" ELSE "rejected"

(* ... or set_review_status and the audit entry, in one commit.  The       *)
(* reviewer's page still shows the memory: a second click is possible.     *)
ReviewCommit(c) ==
  LET i == req[c].id
      v == Verdict(req[c].accept) IN
  /\ req[c].pc = "deciding"
  /\ row' = [row EXCEPT ![i].review = v, ![i].by = c]
  /\ trail' = trail \cup {<<i, v, c>>}
  /\ req' = [req EXCEPT ![c].pc = "reading"]
  /\ UNCHANGED <<mode, nextId, met, raced>>

(* POST /v1/review/bulk: review, id by id, in one commit.                  *)
BulkReview(c, S, accept) ==
  LET held == {i \in S : Live(i) /\ row[i].review = "pending"}
      v == Verdict(accept) IN
  /\ req[c].pc = "idle"
  /\ S # {} /\ S \subseteq LiveIds
  /\ row' = [i \in Ids |-> IF i \in held THEN [row[i] EXCEPT !.review = v, !.by = c]
                           ELSE row[i]]
  /\ trail' = trail \cup {<<i, v, c>> : i \in held}
  /\ UNCHANGED <<mode, nextId, req, met, raced>>

-----------------------------------------------------------------------------
(* What callers send: a REST or MCP write, or a commit of a git log, which *)
(* is tool output (low trust) without a confidence.                        *)
Writes ==
  {p \in Payload : p.batch => ~p.force /\ p.low}

Next ==
  \/ \E c \in Clients, p \in Writes, unsure \in BOOLEAN :
       (p.batch => ~unsure) /\ WriteLookup(c, p, unsure)
  \/ \E c \in Clients : WriteFold(c)
  \/ \E c \in Clients : EnforceQuota(c)
  \/ \E c \in Clients : QuotaExceeded(c)
  \/ \E c \in Clients : WriteInsert(c)
  \/ \E c \in Clients : Commit(c)
  \/ \E c \in Clients : Fail(c)
  \/ \E i \in Ids, t \in Texts : Update(i, t)
  \/ \E i \in Ids : Delete(i)
  \/ \E m \in Modes : SetReviewMode(m)
  \/ \E c \in Clients, i \in Ids : ReviewRead(c, i)
  \/ \E c \in Clients, a \in BOOLEAN : ReviewLoad(c, a)
  \/ \E c \in Clients : ReviewCommit(c)
  \/ \E c \in Clients, S \in SUBSET Ids, a \in BOOLEAN : BulkReview(c, S, a)

Spec == Init /\ [][Next]_vars

-----------------------------------------------------------------------------
(* Properties.                                                             *)

(* Deduplication: a memory that repeats the stored text of an older live   *)
(* one was forced, or its request overlapped another write before it was   *)
(* inserted; also when one of the two was redacted into that text, and     *)
(* however edits, deletions and reviews come between.                      *)
TwinIsForced ==
  \A i, j \in LiveIds :
    (i < j /\ row[i].text = row[j].text /\ ~row[i].edited /\ ~row[j].edited)
    => row[j].forced \/ j \in raced

(* "Turning off a quality control must not turn off a security one"        *)
(* (decide_review): low-trust text that reads as instructions is           *)
(* retrievable only after a recorded approval, whatever the review mode    *)
(* was, is or becomes, and whoever writes it again.                        *)
SuspiciousHeld ==
  \A i \in LiveIds :
    (row[i].low /\ ~row[i].edited /\ row[i].text \in Suspicious /\ row[i].review = "approved")
    => \E c \in Clients : <<i, "approved", c>> \in trail

=============================================================================
