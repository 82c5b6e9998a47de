------------------------------- MODULE Retrieval -------------------------------
(***************************************************************************)
(* One search or recall, or one search of attachments, from the request to *)
(* the bundle, while reviewers, users and workers go on with the rows it   *)
(* reads: whether to plan, the planner's steps, hybrid search read by      *)
(* read, the walk over links, reranking, packing into the token budget,    *)
(* and the answer.                                                         *)
(*                                                                         *)
(* What the embedder, the text index and the reranker make of a text is    *)
(* left open: a ranking is any sequence of the rows its query may see, a   *)
(* row without a vector or a match is missing from it.                     *)
(***************************************************************************)
EXTENDS Integers, Sequences, SequencesExt, FiniteSets, FiniteSetsExt, Functions

CONSTANTS Memos,        \* memories of the organisation, or chunks of its attachments
          Outside,      \* those outside the request's scopes, sensitivity or trust
          PinnedMemos, FadedMemos,   \* pinned ones, ones with decay_score 0 (others: 1)
          Tokens,       \* estimate_tokens of each memory
          Linked,       \* related and derived_from links, as pairs
          Superseding,  \* supersedes links: <<newer, older>>
          Plans,        \* plans the planner may return
          RrfK, SearchLimit, MaxHops, MaxPool, HopReserve,
          PlanMillis, PlanTokens,    \* what a round trip to a model needs
          MaxTokens, PerItemMax,     \* the bundle's budget
          Budgets,      \* latency and tokens a caller allows, 0 is unlimited
          Spent,        \* tokens one call of a model may use
          Decisions     \* bound: what others do to the memories meanwhile

VARIABLES status,   \* approved, pending, rejected, deleted; of a chunk also replaced
          decisions,
          call,     \* the search or recall
          counted,  \* memories whose access_count the call raised
          allowed   \* history: memories it might have read under all filters

retrievalVars == <<status, decisions, call, counted, allowed>>

\* The filters of a search.  Nobody reviews a chunk: its attachment may be deleted,
\* or processed again, which replaces its chunks.
Visible == {m \in Memos \ Outside : status[m] = "approved"}
Existing == {m \in Memos : status[m] # "deleted"}

NoHits == [m \in {} |-> 0]
NoCall == [at |-> "idle", op |-> "none", synth |-> FALSE, cap |-> 0, tokenCap |-> 0,
           elapsed |-> 0, spent |-> 0, mode |-> "hybrid", plan |-> <<>>, step |-> 1,
           hops |-> 0, again |-> FALSE, vector |-> <<>>, fused |-> NoHits, seen |-> NoHits,
           walked |-> {}, stopped |-> "none", exhausted |-> FALSE, answered |-> FALSE,
           bundle |-> <<>>, cut |-> FALSE]

Running == call.at \notin {"idle", "done", "failed"}

RetrievalInit ==
  /\ status \in [Memos -> {"approved", "pending"}]
  /\ decisions = 0
  /\ call = NoCall
  /\ counted = {}
  /\ allowed = Visible

Continue(c) == call' = c /\ UNCHANGED <<status, decisions, counted, allowed>>

-----------------------------------------------------------------------------
(* RecallBudget.  A step takes any time; it is counted up to the cap, and  *)
(* without a cap it is not.                                                *)

Passing(c) == c.elapsed .. c.cap
HasHeadroom(c, need) == c.cap = 0 \/ c.cap - c.elapsed >= need
AffordsTokens(c, need) == c.tokenCap = 0 \/ c.tokenCap - c.spent >= need
AffordsModel(c) == HasHeadroom(c, PlanMillis) /\ AffordsTokens(c, PlanTokens)

Search ==
  /\ call.at = "idle"
  /\ Continue([call EXCEPT !.at = "rank", !.op = "search"])

SearchAttachments ==
  /\ call.at = "idle" /\ \A m \in Memos : status[m] = "approved"
  /\ Continue([call EXCEPT !.at = "rank", !.op = "chunks"])

\* _fallback_hybrid: one search, packed, without a plan or an answer
Fallback(c) == [c EXCEPT !.at = "rank", !.mode = "hybrid"]

\* should_plan: without a planner or the means to use it, plain hybrid search
Recall(synth, cap, tokenCap, planner) ==
  LET c == [call EXCEPT !.op = "recall", !.synth = synth, !.cap = cap, !.tokenCap = tokenCap]
  IN /\ call.at = "idle"
     /\ Continue(IF planner /\ AffordsModel(c)
                 THEN [c EXCEPT !.at = "plan", !.mode = "agentic"]
                 ELSE Fallback([c EXCEPT !.cut = planner]))

\* RecallUsage.record: what a call of a model took
Used(c, time, tokens) == [c EXCEPT !.elapsed = time, !.spent = @ + tokens]

\* _plan: an empty plan becomes one semantic step; LlmError falls back.
\* A plan that does not validate raises past recall, as other errors do.
Planned ==
  /\ call.at = "plan"
  /\ \E e \in Passing(call) :
       \/ \E p \in Plans, t \in Spent :
            Continue([Used(call, e, t) EXCEPT
                        !.at = "loop", !.plan = IF p = <<>> THEN <<"semantic">> ELSE p])
       \/ Continue(Fallback([call EXCEPT !.elapsed = e]))

Fail ==
  /\ Running
  /\ Continue([NoCall EXCEPT !.at = "failed"])

-----------------------------------------------------------------------------
(* hybrid_search.  Two statements rank ids under the filters of scope,     *)
(* sensitivity, trust and review; flags and texts are read after, by id.   *)

Rankings(S) == {s \in SeqOf(S, Cardinality(S)) : IsInjective(s)}

\* rrf_fuse, in millionths
Million == 1000000
RrfScore(s, m) ==
  IF m \in Range(s) THEN Million \div (RrfK + (CHOOSE i \in DOMAIN s : s[i] = m)) ELSE 0
RrfFuse(vector, bm25) ==
  [m \in Range(vector) \cup Range(bm25) |-> RrfScore(vector, m) + RrfScore(bm25, m)]

Step == IF call.mode = "agentic" THEN call.plan[call.step] ELSE "semantic"

\* The vector statement.  No vector for a keyword step or when the embedder fails.
Rank ==
  /\ call.at = "rank"
  /\ \E vector \in (IF Step = "keyword" THEN {<<>>} ELSE Rankings(Visible)) :
       Continue([call EXCEPT !.at = "text", !.vector = vector])

\* Variant: the text statement does not look at the review.
RankTextUnreviewed ==
  /\ call.at = "text"
  /\ \E bm25 \in Rankings(Existing \ Outside) :
       Continue([call EXCEPT !.at = "fetch", !.vector = <<>>,
                             !.fused = RrfFuse(call.vector, bm25)])

\* The text statement, which sees what was committed since.
RankText ==
  /\ call.at = "text"
  /\ \E bm25 \in Rankings(Visible) :
       Continue([call EXCEPT !.at = "fetch", !.vector = <<>>,
                             !.fused = RrfFuse(call.vector, bm25)])

\* Best first; equal scores in the order of ids.
Outranks(scores, m, n) == scores[m] > scores[n] \/ (scores[m] = scores[n] /\ m < n)
Best(scores, limit) ==
  {m \in DOMAIN scores :
     Cardinality({n \in DOMAIN scores : Outranks(scores, n, m)}) < limit}

\* The floor of pinned memories, twice the limit of them, then the factor
\* 0.5 + 0.5 * decay_score (doubled here) and the limit.
HybridHits(fused, limit) ==
  LET floored == [m \in DOMAIN fused |->
                    IF m \in PinnedMemos THEN Max({fused[m], Million}) ELSE fused[m]]
      scored == [m \in Best(floored, 2 * limit) |->
                   IF m \in FadedMemos THEN floored[m] ELSE 2 * floored[m]]
  IN Restrict(scored, Best(scored, limit))

\* _ingest: the better score of a memory found twice
Ingest(seen, hits) ==
  [m \in DOMAIN seen \cup DOMAIN hits |->
     Max({IF m \in DOMAIN seen THEN seen[m] ELSE 0} \cup {hits[n] : n \in DOMAIN hits \cap {m}})]

\* hybrid_search of chunks, ranked as above: it drops chunks replaced since, and has
\* no floor and no decay.
ChunkHits(fused, limit) ==
  LET rows == {m \in Best(fused, 2 * limit) : status[m] # "replaced"}
  IN Restrict(fused, Best(Restrict(fused, rows), limit))

Fetch ==
  /\ call.at = "fetch"
  /\ LET hits == IF call.op = "chunks" THEN ChunkHits(call.fused, SearchLimit)
                 ELSE HybridHits(call.fused, SearchLimit)
     IN \E e \in Passing(call) :
          Continue([call EXCEPT !.fused = NoHits, !.elapsed = e,
                                !.at = IF call.mode = "agentic" THEN "loop" ELSE "pack",
                                !.step = @ + 1, !.seen = Ingest(@, hits)])

-----------------------------------------------------------------------------
(* AgentLoop.run and _expand_links.                                        *)

Neighbours(S) == {m \in Memos : \E n \in S : {<<m, n>>, <<n, m>>} \cap Linked # {}}

\* What a walk adds, one or two links far: get_by_id asks for deletion only.
Expansion(S) == (Neighbours(S) \cap Existing) \ S
Walk ==
  LET one == Expansion(DOMAIN call.seen)
  IN IF Step = "expand" THEN one ELSE one \cup Expansion(DOMAIN call.seen \cup one)

\* Why the loop ends before its next step, "" if it does not.
StopReason ==
  IF call.step > Len(call.plan) THEN "exhausted"
  ELSE IF ~HasHeadroom(call, HopReserve) THEN "budget_exhausted"
  ELSE IF call.hops >= MaxHops THEN "max_hops"
  ELSE IF Cardinality(DOMAIN call.seen) >= MaxPool THEN "max_candidates"
  ELSE IF Step = "stop" THEN "stop" ELSE ""

\* A loop that found nothing is followed by another with one semantic step,
\* whose result replaces its own.
\* Variant: the second loop is made without the budget.
LoopEndUncapped ==
  /\ call.at = "loop" /\ StopReason # ""
  /\ LET c == [call EXCEPT !.stopped = StopReason,
                           !.cut = @ \/ StopReason = "budget_exhausted"]
     IN Continue(IF DOMAIN c.seen = {} /\ ~c.again
                 THEN [c EXCEPT !.again = TRUE, !.plan = <<"semantic">>, !.step = 1, !.hops = 0,
                                !.cap = 0, !.elapsed = 0]
                 ELSE [c EXCEPT !.at = "pack"])

LoopEnd ==
  /\ call.at = "loop" /\ StopReason # ""
  /\ LET c == [call EXCEPT !.stopped = StopReason,
                           !.cut = @ \/ StopReason = "budget_exhausted"]
     IN Continue(IF DOMAIN c.seen = {} /\ ~c.again
                 THEN [c EXCEPT !.again = TRUE, !.plan = <<"semantic">>, !.step = 1, !.hops = 0]
                 ELSE [c EXCEPT !.at = "pack"])

\* A time filter is taken and has no effect.
Hop ==
  /\ call.at = "loop" /\ StopReason = ""
  /\ LET c == [call EXCEPT !.hops = @ + 1]
     IN Continue(CASE Step \in {"semantic", "keyword"} -> [c EXCEPT !.at = "rank"]
                   [] Step = "time" -> [c EXCEPT !.step = @ + 1]
                   [] OTHER -> [c EXCEPT !.step = @ + 1, !.walked = @ \cup Walk,
                                         !.seen = Ingest(@, [m \in Walk |-> 0])])

-----------------------------------------------------------------------------
(* rerank_and_pack, annotate_conflicts, demote_superseded.                 *)

\* A reranker that finds a memory fitting outweighs the prior score, which
\* has three tenths of the blend.
Reranked(good, m, n) ==
  \/ m \in good /\ n \notin good
  \/ (m \in good <=> n \in good) /\ Outranks(call.seen, m, n)

\* TokenBudget.fit: best first, whatever there is still room for.
Fit(kept, good) ==
  LET tokens(m) == Min({Tokens[m], PerItemMax})
  IN \A m \in DOMAIN call.seen :
       m \in kept <=> tokens(m) + MapThenSumSet(tokens, {n \in kept : Reranked(good, n, m)})
                      <= MaxTokens

\* The kept hits in their order, those that another of them supersedes at the end.
DemoteSuperseded(kept, good) ==
  LET stale == {m \in kept : call.op # "chunks" /\ \E n \in kept : <<n, m>> \in Superseding}
  IN {s \in [1..Cardinality(kept) -> kept] : \A i, j \in DOMAIN s : i < j =>
        \/ s[i] \notin stale /\ s[j] \in stale
        \/ (s[i] \in stale <=> s[j] \in stale) /\ Reranked(good, s[i], s[j])}

Pack ==
  /\ call.at = "pack"
  /\ \E good \in (IF call.op = "recall" THEN SUBSET DOMAIN call.seen ELSE {{}}),
        kept \in SUBSET DOMAIN call.seen :
       /\ IF call.op = "recall" THEN Fit(kept, good) ELSE kept = DOMAIN call.seen
       /\ \E ordered \in DemoteSuperseded(kept, good) :
            Continue([call EXCEPT !.bundle = ordered, !.seen = NoHits,
                                  !.plan = <<>>, !.step = 1, !.hops = 0,   \* not read again
                                  !.at = IF call.mode = "agentic" /\ call.synth
                                         THEN "synthesize" ELSE "record"])

\* skipped for the budget, answered, or LlmError
Synthesize ==
  /\ call.at = "synthesize"
  /\ IF ~AffordsModel(call)
     THEN Continue([call EXCEPT !.at = "record", !.exhausted = TRUE, !.cut = TRUE])
     ELSE \E e \in Passing(call) :
            \/ \E t \in Spent :
                 Continue([Used(call, e, t) EXCEPT !.at = "record", !.answered = TRUE])
            \/ Continue([call EXCEPT !.at = "record", !.elapsed = e])

\* record_access (not of chunks), the usage and the commit
Record ==
  /\ call.at = "record"
  /\ call' = [call EXCEPT !.at = "done",
                          !.exhausted = @ \/ call.stopped = "budget_exhausted"]
  /\ counted' = IF call.op = "chunks" THEN counted ELSE counted \cup Range(call.bundle)
  /\ UNCHANGED <<status, decisions, allowed>>

-----------------------------------------------------------------------------
(* Everybody else: reviewers decide, users delete, workers process again.  *)

Decide(m, verdict) ==
  /\ Running /\ decisions < Decisions
  /\ \/ status[m] = "pending" /\ verdict \in {"approved", "rejected"}
     \/ status[m] \notin {"deleted", "replaced"} /\ verdict = "deleted"
     \/ call.op = "chunks" /\ status[m] = "approved" /\ verdict = "replaced"
  /\ status' = [status EXCEPT ![m] = verdict]
  /\ decisions' = decisions + 1
  /\ allowed' = allowed \cup Visible'
  /\ UNCHANGED <<call, counted>>

RetrievalNext ==
  \/ Search \/ SearchAttachments
  \/ \E synth, planner \in BOOLEAN, b \in Budgets : Recall(synth, b[1], b[2], planner)
  \/ Planned \/ Rank \/ RankText \/ Fetch \/ LoopEnd \/ Hop \/ Pack \/ Synthesize \/ Record \/ Fail
  \/ \E m \in Memos, verdict \in {"approved", "rejected", "deleted", "replaced"} :
       Decide(m, verdict)

RetrievalSpec == RetrievalInit /\ [][RetrievalNext]_retrievalVars

-----------------------------------------------------------------------------
(* Properties.                                                             *)

Answered == call.at = "done"

\* What a search or recall returns was, at some moment since it began, inside
\* the request's scopes, sensitivity and trust and approved, although reviews
\* and deletions overtake it between its reads; only what a link_expand step
\* walked to may be otherwise.
RecalledWasAllowed ==
  Answered => \A m \in Range(call.bundle) : m \in allowed \/ m \in call.walked

\* "True when a cap cut the work short, so a caller can tell a fast answer from
\* a truncated one" (budget.py:95): when a budget kept a plan from being made, a
\* step from being taken, in the first loop or the second, or an answer from
\* being written, usage says so, by budget_exhausted or by the mode, and
\* budget_exhausted is not set otherwise.
TruncationTold ==
  Answered => /\ call.cut => call.exhausted \/ call.mode = "hybrid"
              /\ call.exhausted => call.cut
=============================================================================
