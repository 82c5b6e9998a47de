---------------------------- MODULE ConflictLinks ----------------------------
(****************************************************************************)
(* Conflict detection: the minutely task that shows every embedded, not yet *)
(* judged memory and its nearest neighbours to the judge, writes the        *)
(* verdicts as links and marks the memory checked; and the read side that   *)
(* turns links into notes on recall results.                                *)
(*                                                                          *)
(* A tick is one transaction at READ COMMITTED that stays open across the   *)
(* judge's calls, so writers, reviewers and further ticks run inside it.    *)
(* The daily quota is a Redis counter outside that transaction.  Embedding  *)
(* itself is module EmbedQueue; here a memory has a vector or has none.     *)
(* All memories of one owner are of one scope and kind and similar enough   *)
(* to be compared.                                                          *)
(****************************************************************************)
EXTENDS Integers, FiniteSets, Sequences, SequencesExt

CONSTANTS Mem,           \* bound: memories at a time, numbered as they were created
          Owner,         \* the organisation of each memory
          Tick,          \* runs of the task that may overlap
          BatchSize,     \* conflict_batch_size
          MaxCandidates, \* conflict_max_candidates
          DailyQuota,    \* conflict_daily_quota_per_org, 0 for no limit
          Relation,      \* relations the judge tells apart besides none
          FaultBudget    \* bound: ticks that die, answers that repeat a row

ASSUME MemAssumption == Mem \subseteq Nat /\ IsFiniteSet(Mem)
ASSUME BoundAssumption == /\ BatchSize \in Nat \ {0}
                          /\ MaxCandidates \in Nat \ {0}
                          /\ DailyQuota \in Nat /\ FaultBudget \in Nat
ASSUME RelationAssumption == Relation \subseteq {"supersedes", "contradicts"}

VARIABLES row,     \* the memories table
          links,   \* committed conflict links, <<from, to, relation>>
          used,    \* the quota counter of each organisation today
          tick,    \* the running ticks
          seen,    \* pairs <<m, n>>: a committed tick showed n when it judged m
          faults   \* consumed of FaultBudget
vars == <<row, links, used, tick, seen, faults>>

Org == {Owner[m] : m \in Mem}
Row == [state : {"absent", "live", "deleted"},
        review : {"approved", "pending", "rejected"},
        vec : BOOLEAN, checked : BOOLEAN,
        steady : BOOLEAN]    \* history: neither held nor edited so far
Idle == [pc |-> "idle", queue |-> {}, out |-> <<>>,
         done |-> {}, wrote |-> {}, shown |-> {}]

Absent == [state |-> "absent", review |-> "approved", vec |-> FALSE, checked |-> FALSE,
           steady |-> TRUE]

Init == /\ row = [m \in Mem |-> Absent]
        /\ links = {}
        /\ used = [o \in Org |-> 0]
        /\ tick = [w \in Tick |-> Idle]
        /\ seen = {}
        /\ faults = 0

----------------------------------------------------------------------------
(* What the API and the embedding worker do to the rows.                    *)

Live(m) == row[m].state = "live"
Recallable(m) == Live(m) /\ row[m].review = "approved"

others == <<links, used, tick, seen, faults>>

Write(m, held) == /\ row[m].state = "absent"
                  /\ \A n \in Mem : n < m => row[n].state # "absent"
                  /\ row' = [row EXCEPT ![m].state = "live", ![m].steady = ~held,
                                ![m].review = IF held THEN "pending" ELSE "approved"]
                  /\ UNCHANGED others

Embed(m) == /\ Live(m) /\ ~row[m].vec
            /\ row' = [row EXCEPT ![m].vec = TRUE]
            /\ UNCHANGED others

\* A new body clears the vector; the conflict mark stays.
EditBody(m) == /\ Live(m) /\ row[m].vec
               /\ row' = [row EXCEPT ![m].vec = FALSE, ![m].steady = FALSE]
               /\ UNCHANGED others

Review(m) == /\ Live(m) /\ row[m].review = "pending"
             /\ \E d \in {"approved", "rejected"} : row' = [row EXCEPT ![m].review = d]
             /\ UNCHANGED others

\* The other columns stay, but only the conflict mark is looked at again.
Delete(m) == /\ Live(m)
             /\ row' = [row EXCEPT ![m].state = "deleted", ![m].review = "approved",
                                   ![m].vec = FALSE, ![m].steady = FALSE]
             /\ UNCHANGED others

\* Bound: memories never stop coming.  A deleted one that no link and no running
\* tick names is in no answer of any query again; if it is the newest, its
\* number goes to the next memory, which is then newer than all there are.
Named(m) == \/ \E l \in links : m \in {l[1], l[2]}
            \/ \E w \in Tick : \/ m \in tick[w].queue \cup tick[w].done
                               \/ \E p \in tick[w].shown : m \in {p[1], p[2]}
Forget(m) == /\ row[m].state = "deleted" /\ ~Named(m)
             /\ \A n \in Mem : n > m => row[n].state = "absent"
             /\ row' = [row EXCEPT ![m] = Absent]
             /\ seen' = {p \in seen : m \notin {p[1], p[2]}}
             /\ UNCHANGED <<links, used, tick, faults>>

----------------------------------------------------------------------------
(* The task.                                                                *)

PendingCheck == {m \in Mem : Live(m) /\ row[m].vec /\ ~row[m].checked}

\* The newest ones; they are judged newest first.
Batch == {m \in PendingCheck : Cardinality({n \in PendingCheck : n > m}) < BatchSize}

TickStart(w) == /\ tick[w].pc = "idle" /\ PendingCheck # {}
                /\ tick' = [tick EXCEPT ![w].pc = "run", ![w].queue = Batch]
                /\ UNCHANGED <<row, links, used, seen, faults>>

\* check_daily_quota: the counter is raised also by a check it refuses, above the
\* limit, where it tells no more and is capped here; no limit, no counter.
WithinQuota(o) == DailyQuota = 0 \/ used[o] < DailyQuota
Raised(o) == IF DailyQuota > 0 /\ WithinQuota(o) THEN used[o] + 1 ELSE used[o]

\* The neighbours that may be shown for m; which of them are nearest is open.
\* Variant: only memories that were judged themselves are compared with.
EligibleChecked(m) == {n \in Mem \ {m} : /\ Recallable(n) /\ row[n].vec /\ row[n].checked
                                         /\ Owner[n] = Owner[m]}
Eligible(m) == {n \in Mem \ {m} : Recallable(n) /\ row[n].vec /\ Owner[n] = Owner[m]}
Candidates(m) == LET k == Cardinality(Eligible(m))
                 IN kSubset(IF k < MaxCandidates THEN k ELSE MaxCandidates, Eligible(m))

\* An answer relates each candidate to m in at most one way; a failing model
\* gives the empty answer, and a row the model repeats survives _parse.
Answers(m, near, repeat) ==
    {LET rows == SetToSeq({<<m, n, f[n]>> : n \in {x \in near : f[x] # "none"}})
     IN IF repeat /\ rows # <<>> THEN Append(rows, rows[1]) ELSE rows :
        f \in [near -> Relation \cup {"none"}]}

JudgeNext(w, repeat) ==
    /\ tick[w].pc = "run" /\ tick[w].queue # {} /\ tick[w].out = <<>>
    /\ LET m == Max(tick[w].queue)
           o == Owner[m]
       IN /\ used' = [used EXCEPT ![o] = Raised(o)]
          /\ IF WithinQuota(o)
             THEN \E near \in Candidates(m) : \E out \in Answers(m, near, repeat) :
                    tick' = [tick EXCEPT ![w].queue = @ \ {m}, ![w].out = out,
                               ![w].done = @ \cup {m},
                               ![w].shown = @ \cup {<<m, n>> : n \in near}]
             ELSE tick' = [tick EXCEPT ![w].queue = @ \ {m}]
    /\ repeat => faults < FaultBudget
    /\ faults' = IF repeat THEN faults + 1 ELSE faults
    /\ UNCHANGED <<row, links, seen>>

\* The flush of one link.  A key another tick has inserted and not committed
\* makes it wait; a key that exists raises, and the session rolls back.
InsertLink(w) ==
    /\ tick[w].out # <<>>
    /\ LET k == Head(tick[w].out)
       IN /\ \A v \in Tick \ {w} : k \notin tick[v].wrote
          /\ tick' = [tick EXCEPT ![w] = IF k \in links \cup tick[w].wrote THEN Idle
                         ELSE [tick[w] EXCEPT !.out = Tail(@), !.wrote = @ \cup {k}]]
    /\ UNCHANGED <<row, links, used, seen, faults>>

\* Variant: the links of a dying tick stay.
TickAbortKeepsLinks(w) == /\ faults < FaultBudget /\ tick[w].pc = "run"
                          /\ links' = links \cup tick[w].wrote
                          /\ tick' = [tick EXCEPT ![w] = Idle]
                          /\ faults' = faults + 1
                          /\ UNCHANGED <<row, used, seen>>

\* mark_conflict_checked and the commit of everything the tick wrote.
TickCommit(w) ==
    /\ tick[w].pc = "run" /\ tick[w].queue = {} /\ tick[w].out = <<>>
    /\ links' = links \cup tick[w].wrote
    /\ row' = [m \in Mem |-> IF m \in tick[w].done THEN [row[m] EXCEPT !.checked = TRUE]
                             ELSE row[m]]
    /\ seen' = seen \cup tick[w].shown
    /\ tick' = [tick EXCEPT ![w] = Idle]
    /\ UNCHANGED <<used, faults>>

\* The worker dies or the tick is a deadlock's victim.
TickAbort(w) == /\ faults < FaultBudget /\ tick[w].pc = "run"
                /\ tick' = [tick EXCEPT ![w] = Idle]
                /\ faults' = faults + 1
                /\ UNCHANGED <<row, links, used, seen>>

\* Variant: the counter is never reset.
NewDayKeepsCount == /\ \E o \in Org : used[o] > 0
                    /\ UNCHANGED <<row, links, used, tick, seen, faults>>

\* The counter's key carries the UTC day.
NewDay == /\ \E o \in Org : used[o] > 0
          /\ used' = [o \in Org |-> 0]
          /\ UNCHANGED <<row, links, tick, seen, faults>>

\* DELETE /v1/memories/{id}/links/{to}: the user removes a link.
Unlink == \E l \in links : /\ Live(l[1]) /\ Live(l[2])
                           /\ links' = links \ {l}
                           /\ UNCHANGED <<row, used, tick, seen, faults>>

----------------------------------------------------------------------------
(* The read side: annotate_conflicts over a page of hits.                   *)

\* describe(): list_by_ids finds every row of the organisation.
Described(m) == row[m].state # "absent"
Notes(page) ==
    {<<l[1], l[2], l[3]>> : l \in {k \in links : k[1] \in page /\ Described(k[2])}}
      \cup {<<l[2], l[1], IF l[3] = "supersedes" THEN "superseded_by" ELSE l[3]>> :
              l \in {k \in links : k[2] \in page /\ Described(k[1])}}
Demoted(page) == {n[1] : n \in {k \in Notes(page) : k[3] = "superseded_by" /\ k[2] \in page}}
Hits == {m \in Mem : Recallable(m)}

----------------------------------------------------------------------------
TickStep(w) == TickStart(w) \/ JudgeNext(w, FALSE) \/ InsertLink(w) \/ TickCommit(w)

Next == \/ \E m \in Mem, held \in BOOLEAN : Write(m, held)
        \/ \E m \in Mem : Embed(m) \/ EditBody(m) \/ Review(m) \/ Delete(m) \/ Forget(m)
        \/ \E w \in Tick : TickStep(w) \/ JudgeNext(w, TRUE) \/ TickAbort(w)
        \/ NewDay
        \/ Unlink

Spec == Init /\ [][Next]_vars

\* Beat starts the task every minute, a running task goes on, days pass.
Fairness == (\A w \in Tick : WF_vars(TickStep(w))) /\ WF_vars(NewDay)
LiveSpec == Spec /\ Fairness
----------------------------------------------------------------------------
(* Properties.                                                              *)

\* Types of all variables; links relate two memories of one organisation.
TypeOK == /\ row \in [Mem -> Row]
          /\ \A l \in links : /\ l[1] \in Mem /\ l[2] \in Mem \ {l[1]}
                              /\ Owner[l[1]] = Owner[l[2]] /\ l[3] \in Relation
          /\ used \in [Org -> 0..DailyQuota]
          /\ \A w \in Tick : /\ tick[w].pc \in {"idle", "run"}
                             /\ tick[w].queue \subseteq Mem
                             /\ tick[w].done \subseteq Mem

\* Of two live memories of an organisation that are both marked checked, and
\* were neither held for review nor edited, one was shown to the judge when the
\* other was judged, whatever ticks overlapped or died and however the quota
\* spread them over days (list_conflict_candidates, mark_conflict_checked).
PairJudged == \A a, b \in Mem :
    (/\ a # b /\ Owner[a] = Owner[b]
     /\ Live(a) /\ Live(b) /\ row[a].steady /\ row[b].steady
     /\ row[a].checked /\ row[b].checked)
      => (<<a, b>> \in seen \/ <<b, a>> \in seen)

\* What recall says of a hit rests on a judgement that was committed: a note
\* names two memories one of which was judged with the other in view, and a hit
\* is only sorted last for a memory that was judged against it (links.link and
\* mark_conflict_checked share the tick's transaction; annotate_conflicts).
Judged(a, b) == row[a].checked /\ <<a, b>> \in seen
LinkBacked ==
    /\ \A n \in Notes(Hits) : Judged(n[1], n[2]) \/ Judged(n[2], n[1])
    /\ \A m \in Demoted(Hits) : \E n \in Hits : Judged(n, m)

\* "A fresh contradiction is worth surfacing before a year-old one"
\* (list_pending_conflict_check), but not for ever: once no newer memory is
\* written any more, a memory that waits is judged, or deleted or edited first,
\* whoever's memories fill the batch, with the day's quota used up by others of
\* its organisation and after ticks that died or rolled back.
WriteNewer(m) == \E n \in Mem : n > m /\ row[n].state = "absent" /\ row'[n].state = "live"
EventuallyChecked ==
    \A m \in Mem : <>[][~WriteNewer(m)]_vars
                    => ((m \in PendingCheck) ~> (m \notin PendingCheck))

=============================================================================
