------------------------------ MODULE Lifecycle ------------------------------
(****************************************************************************)
(* The ageing of memories: the decay tick that scores, promotes, archives   *)
(* and soft-deletes the memories of one organisation, and the nightly       *)
(* consolidation that summarises clusters of mid-tier memories, beside the  *)
(* users who recall, pin and delete them.                                   *)
(*                                                                          *)
(* Times and scores are kept as far as the policy's conditions tell them    *)
(* apart: a memory is new, past the promotion age, or past the age of       *)
(* deletion or archival of its tier; its importance reaches 0.4 or not; its *)
(* score, importance times recency times (1 + bias of the accesses), is     *)
(* above or below the cut-off of its tier.  An importance near 0 stays      *)
(* below it whatever the recency.  A tick decides from the rows it read and *)
(* writes by id, both in one transaction at READ COMMITTED, so users commit *)
(* in between.                                                              *)
(****************************************************************************)
EXTENDS Naturals, FiniteSets

CONSTANTS Mem,          \* memories of the organisation, ids in creation order
          Tick,         \* decay ticks that may overlap, scheduled or forced
          BatchSize,    \* rows iter_for_decay returns
          MinCluster    \* HDBSCAN's min_cluster_size

ASSUME MemAssumption == Mem \subseteq Nat /\ IsFiniteSet(Mem)
ASSUME BoundAssumption == BatchSize \in Nat \ {0} /\ MinCluster \in Nat \ {0}

VARIABLES mem,    \* the memories table
          tick,   \* decay ticks: the rows each one read and will move
          cons,   \* the consolidation: the cluster it waits on
          summed  \* memories that went into a summary
vars == <<mem, tick, cons, summed>>

Tier == {"short", "mid", "long"}
Row == [state : {"absent", "live", "deleted", "faded"}, tier : Tier,
        age : {"new", "day", "old"}, important : BOOLEAN, fresh : BOOLEAN,
        used : {"never", "before", "now"}, pinned : BOOLEAN]
None == <<>>

\* A row with the score it may have: it is looked at once the age limit is passed,
\* and 0.4 is above every cut-off, so an important memory is below it only when
\* some time has gone by since its last access.
Rescored(r) == {[r EXCEPT !.fresh = f] :
                  f \in {g \in BOOLEAN : r.age # "old" \/ (r.important /\ r.used = "now") => g}}

Init == /\ mem = [m \in Mem |-> [state |-> "absent", tier |-> "short", age |-> "new",
                                 important |-> TRUE, fresh |-> TRUE, used |-> "never",
                                 pinned |-> FALSE]]
        /\ tick = [t \in Tick |-> None]
        /\ cons = {}
        /\ summed = {}

Live(m) == mem[m].state = "live"

----------------------------------------------------------------------------
(* Users and time.                                                          *)

Change(m, r) == /\ mem' = [mem EXCEPT ![m] = r]
                /\ UNCHANGED <<tick, cons, summed>>

Create(m) == /\ mem[m].state = "absent"
             /\ \A n \in Mem : n < m => mem[n].state # "absent"
             /\ \E i \in BOOLEAN : Change(m, [mem[m] EXCEPT !.state = "live", !.important = i])

\* record_access, and record_duplicate for a repeated write: the count and the
\* anchor of the score move.  The score can only rise, and does so above the
\* cut-off unless the importance is too small for that.
Access(m) == /\ Live(m)
             /\ \E r \in Rescored([mem[m] EXCEPT !.used = "now"]) :
                  (mem[m].fresh => r.fresh) /\ Change(m, r)

\* A PATCH of the importance (update_fields).
Reweigh(m) == /\ Live(m)
              /\ \E i \in BOOLEAN : \E r \in Rescored([mem[m] EXCEPT !.important = i]) : Change(m, r)

SetPinned(m) == /\ Live(m)
                /\ \E p \in BOOLEAN : Change(m, [mem[m] EXCEPT !.pinned = p])

\* A row that is gone keeps its columns, but only its tier is looked at again.
Gone(r, s) == [r EXCEPT !.state = s, !.age = "new", !.important = TRUE, !.fresh = TRUE,
                        !.used = "never", !.pinned = FALSE]
Delete(m) == Live(m) /\ Change(m, Gone(mem[m], "deleted"))

\* Time passes for a memory: its last access is no longer recent, it crosses an
\* age limit, or its score the cut-off.
Later(r) == [r EXCEPT !.used = IF @ = "now" THEN "before" ELSE @]
Older(a) == IF a = "new" THEN "day" ELSE "old"
Pass(m) == /\ Live(m)
           /\ \E a \in {mem[m].age, Older(mem[m].age)} :
                \E r \in Rescored([Later(mem[m]) EXCEPT !.age = a]) :
                  (r.fresh => mem[m].fresh) /\ Change(m, r)

\* The organisation's median of the accesses moves, and with it every score.
MedianMoves(m) == Live(m) /\ \E r \in Rescored(mem[m]) : Change(m, r)

----------------------------------------------------------------------------
(* The decay tick.                                                          *)

\* Variant: any old memory is deleted once it is past the age limit.
DecisionByAge(m, r) == IF r.age = "old" /\ r.tier = "short" THEN "delete" ELSE "keep"
\* ExponentialDecayPolicy.evaluate on the row read, and the branch
\* _tick_one_org takes on the decision: deletion before archival before
\* promotion.
Decision(m, r) ==
    LET spent == r.age = "old" /\ ~r.fresh
    IN CASE ~r.pinned /\ spent /\ r.tier = "short" -> "delete"
         [] ~r.pinned /\ spent /\ r.tier = "mid" -> "archive"
         [] ~r.pinned /\ ~spent /\ r.tier = "short" /\ r.age # "new" /\ r.important
            /\ r.used # "never" -> "promote"
         [] OTHER -> "keep"

\* The first of them in the order of ids.
ForDecay == LET due == {m \in Mem : Live(m) /\ ~mem[m].pinned}
            IN {m \in due : Cardinality({n \in due : n < m}) < BatchSize}

\* The rows the tick will do more with than write their score, which is not kept
\* here: every one is evaluated as it was read, at the time the tick began.
ToMove == {m \in ForDecay : Decision(m, mem[m]) # "keep"}

DecayRead(t) == /\ tick[t] = None /\ ToMove # {}
                /\ tick' = [tick EXCEPT ![t] = [m \in ToMove |-> mem[m]]]
                /\ UNCHANGED <<mem, cons, summed>>

\* soft_delete and apply_decay write by id: what changed since is not looked
\* at.  A promoted memory is held against the age limit and the cut-off of its
\* new tier.
Decayed(r, d) ==
    CASE d = "delete" -> {Gone(r, "faded")}
      [] d = "archive" -> {[r EXCEPT !.tier = "long"]}
      [] d = "promote" -> UNION {Rescored([r EXCEPT !.tier = "mid", !.age = a]) : a \in {r.age, "day"}}
      [] OTHER -> {r}

DecayWrite(t) ==
    /\ tick[t] # None
    /\ LET rows == [m \in DOMAIN tick[t] |-> Decayed(mem[m], Decision(m, tick[t][m]))]
       IN \E new \in [DOMAIN tick[t] -> UNION {rows[m] : m \in DOMAIN tick[t]}] :
            /\ \A m \in DOMAIN tick[t] : new[m] \in rows[m]
            /\ mem' = [m \in Mem |-> IF m \in DOMAIN tick[t] THEN new[m] ELSE mem[m]]
    /\ tick' = [tick EXCEPT ![t] = None]
    /\ UNCHANGED <<cons, summed>>

----------------------------------------------------------------------------
(* The consolidation.                                                       *)

\* Variant: the clusters are looked for in every tier.
ForConsolidationAnyTier == {m \in Mem : Live(m) /\ ~mem[m].pinned}
ForConsolidation == {m \in Mem : Live(m) /\ ~mem[m].pinned /\ mem[m].tier = "mid"}

\* The clusterer may find a cluster among the candidates or only noise.
ConsRead == /\ cons = {}
            /\ \E c \in SUBSET ForConsolidation : Cardinality(c) >= MinCluster /\ cons' = c
            /\ UNCHANGED <<mem, tick, summed>>

\* The summary and its derived_from links, in a second transaction after the
\* model answered.  The halved decay_score of the members lasts until the next
\* tick recomputes it and decides nothing.
ConsWrite == /\ cons # {}
             /\ summed' = summed \cup cons
             /\ cons' = {}
             /\ UNCHANGED <<mem, tick>>

\* The model fails or answers with nothing: the cluster is skipped.
ConsSkip == /\ cons # {} /\ cons' = {}
            /\ UNCHANGED <<mem, tick, summed>>

----------------------------------------------------------------------------
Next == \/ \E m \in Mem : Create(m) \/ Access(m) \/ Reweigh(m) \/ SetPinned(m) \/ Delete(m)
        \/ \E m \in Mem : Pass(m) \/ MedianMoves(m)
        \/ \E t \in Tick : DecayRead(t) \/ DecayWrite(t)
        \/ ConsRead \/ ConsWrite \/ ConsSkip

Spec == Init /\ [][Next]_vars

----------------------------------------------------------------------------
(* Properties.                                                              *)

\* Types of all variables.
TypeOK == /\ mem \in [Mem -> Row]
          /\ \A t \in Tick : DOMAIN tick[t] \subseteq Mem
          /\ cons \subseteq Mem /\ summed \subseteq Mem

\* "Pinned bypasses decay entirely" and "Hard-delete short>7d with decay<0.05"
\* (evaluate): a memory that is deleted by a tick although it is pinned, scores
\* above the cut-off or is out of the short tier by then became so while the tick
\* was running.
DecaySparesInUse == [][\A m \in Mem :
    (Live(m) /\ mem'[m].state = "faded" /\ (mem[m].pinned \/ mem[m].fresh \/ mem[m].tier # "short"))
      => \E t \in Tick : /\ m \in DOMAIN tick[t]
                         /\ ~tick[t][m].pinned /\ ~tick[t][m].fresh /\ tick[t][m].tier = "short"]_vars

\* As long as ticks do not overlap, what decay deleted had never been promoted,
\* so neither a summary nor a cluster that waits for its summary contains it,
\* although the consolidation works on rows it read earlier (should_hard_delete
\* needs the short tier, list_for_consolidation the mid tier).
FadedNeverSummarised ==
    \A m \in Mem : mem[m].state = "faded" => m \notin cons \cup summed

=============================================================================
