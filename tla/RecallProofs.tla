---------------------------- MODULE RecallProofs ----------------------------
(***************************************************************************)
(* How memories are found, how they age, and how a harness is wired: for   *)
(* any memories, links, plans and budgets, any ticks that do not overlap,  *)
(* and any commands, files and faults.                                     *)
(*                                                                         *)
(* Ageing.  A memory that consolidation summarised does not fade because   *)
(* it had left the short tier when it was read (SummedOlder), fading       *)
(* begins in that tier (FadedShort), and while a tick runs nobody else     *)
(* moves what it read (TierAsRead): with two ticks at once that is false.  *)
(*                                                                         *)
(* Recall.  What a call has in hand was Backed at every read, although the *)
(* rows change between them.  A cap is told (CapTold) because a loop the   *)
(* budget ended, and that found nothing, is followed by one that the       *)
(* budget ends before its first step (EndedAgain): the last reason to stop *)
(* is the one that is recorded.                                            *)
(*                                                                         *)
(* Wiring.  A file in which no two commands met is in the hand of one      *)
(* (OneInHand).  That one writes the user's settings as it read them       *)
(* (HeldText), and not before a copy of them was made (Spared).            *)
(***************************************************************************)
EXTENDS Lifecycle, Retrieval, Wiring, TLAPS, FiniteSetTheorems

-----------------------------------------------------------------------------
(* The ageing of memories.                                                 *)

AgeTyped ==
  /\ mem \in [Mem -> Row]
  /\ tick \in [Tick -> UNION {[S -> Row] : S \in SUBSET Mem}]
  /\ cons \subseteq Mem /\ summed \subseteq Mem

(* One tick at a time.                                                     *)
Alone == \A t, u \in Tick : t = u

(* While a tick runs nobody else changes the tier of what it read, or      *)
(* lets it fade.                                                           *)
TierAsRead ==
  \A t \in Tick : \A m \in DOMAIN tick[t] :
    mem[m].tier = tick[t][m].tier /\ mem[m].state # "faded"

FadedShort == \A m \in Mem : mem[m].state = "faded" => mem[m].tier = "short"
SummedOlder == \A m \in cons \cup summed : mem[m].tier # "short"

AgeInv == AgeTyped /\ TierAsRead /\ FadedShort /\ SummedOlder

LEMMA NoneEmpty == DOMAIN None = {} /\ None \in UNION {[S -> Row] : S \in SUBSET Mem}
<1>1. DOMAIN None = {}
  BY DEF None
<1>2. None \in [{} -> Row]
  BY DEF None
<1> QED
  BY <1>1, <1>2

LEMMA RescoredRow ==
  ASSUME NEW r \in Row, NEW n \in Rescored(r)
  PROVE  n \in Row /\ n.state = r.state /\ n.tier = r.tier
BY DEF Rescored, Row

LEMMA DecisionsExclude ==
  ASSUME NEW m, NEW r \in Row
  PROVE  /\ Decision(m, r) \in {"keep", "delete", "archive", "promote"}
         /\ Decision(m, r) = "delete" => r.tier = "short" /\ ~r.pinned /\ ~r.fresh
  BY DEF Decision, Row

(* What apply_decay and soft_delete make of a row r, from the row q read.  *)
LEMMA DecayedRow ==
  ASSUME NEW m, NEW q \in Row, NEW r \in Row, NEW n \in Decayed(r, Decision(m, q))
  PROVE  /\ n \in Row
         /\ n.state = "faded" /\ r.state # "faded" => q.tier = "short" /\ ~q.pinned /\ ~q.fresh
         /\ n.state = "faded" /\ r.state # "faded" => n.tier = r.tier
         /\ n.tier = "short" => r.tier = "short"
<1> DEFINE d == Decision(m, q)
<1>1. d \in {"keep", "delete", "archive", "promote"}
      /\ (d = "delete" => q.tier = "short" /\ ~q.pinned /\ ~q.fresh)
  BY DecisionsExclude
<1> HIDE DEF d
<1>2. CASE d = "delete"
  <2>1. n = Gone(r, "faded")
    BY <1>2 DEF Decayed, d
  <2> QED
    BY <1>1, <1>2, <2>1 DEF Gone, Row
<1>3. CASE d = "archive"
  <2>1. n = [r EXCEPT !.tier = "long"]
    BY <1>3 DEF Decayed, d
  <2> QED
    BY <2>1 DEF Row, Tier
<1>4. CASE d = "promote"
  <2>1. PICK a \in {r.age, "day"} : n \in Rescored([r EXCEPT !.tier = "mid", !.age = a])
    BY <1>4 DEF Decayed, d
  <2> DEFINE q2 == [r EXCEPT !.tier = "mid", !.age = a]
  <2>2. q2 \in Row /\ q2.tier = "mid" /\ q2.state = r.state
    BY <2>1 DEF Row, Tier
  <2> QED
    BY <2>1, <2>2, RescoredRow
<1>5. CASE d = "keep"
  <2>1. n = r
    BY <1>5 DEF Decayed, d
  <2> QED
    BY <2>1
<1> QED
  BY <1>1, <1>2, <1>3, <1>4, <1>5

(* What a user or the clock does to a memory.                              *)
ByHand(m) == \/ Create(m) \/ Access(m) \/ Reweigh(m) \/ SetPinned(m) \/ Delete(m)
             \/ Pass(m) \/ MedianMoves(m)

LEMMA ChangedRow ==
  ASSUME AgeTyped, NEW m \in Mem, ByHand(m)
  PROVE  \E r \in Row : /\ mem' = [mem EXCEPT ![m] = r] /\ UNCHANGED <<tick, cons, summed>>
                        /\ r.state # "faded" /\ r.tier = mem[m].tier /\ mem[m].state # "faded"
<1>0. mem[m] \in Row
  BY DEF AgeTyped
<1>1. CASE Create(m)
  <2>1. PICK i \in BOOLEAN : Change(m, [mem[m] EXCEPT !.state = "live", !.important = i])
    BY <1>1 DEF Create
  <2> DEFINE r == [mem[m] EXCEPT !.state = "live", !.important = i]
  <2>2. r \in Row /\ r.state # "faded" /\ r.tier = mem[m].tier
    BY <1>0 DEF Row
  <2> QED
    BY <1>1, <2>1, <2>2 DEF Create, Change
<1>2. CASE Access(m)
  <2> DEFINE q == [mem[m] EXCEPT !.used = "now"]
  <2>1. q \in Row /\ q.tier = mem[m].tier /\ q.state = mem[m].state
    BY <1>0 DEF Row
  <2>2. PICK r \in Rescored(q) : Change(m, r)
    BY <1>2 DEF Access
  <2>3. Live(m)
    BY <1>2 DEF Access
  <2> HIDE DEF q
  <2>4. r \in Row /\ r.state = q.state /\ r.tier = q.tier
    BY <2>1, RescoredRow
  <2> QED
    BY <2>1, <2>2, <2>3, <2>4 DEF Change, Live
<1>6. CASE Reweigh(m)
  <2>1. PICK i \in BOOLEAN : \E r \in Rescored([mem[m] EXCEPT !.important = i]) : Change(m, r)
    BY <1>6 DEF Reweigh
  <2> DEFINE q == [mem[m] EXCEPT !.important = i]
  <2>2. q \in Row /\ q.tier = mem[m].tier /\ q.state = mem[m].state /\ Live(m)
    BY <1>0, <1>6 DEF Row, Reweigh
  <2>3. PICK r \in Rescored(q) : Change(m, r)
    BY <2>1
  <2> HIDE DEF q
  <2>4. r \in Row /\ r.state = q.state /\ r.tier = q.tier
    BY <2>2, RescoredRow
  <2> QED
    BY <2>2, <2>3, <2>4 DEF Change, Live
<1>7. CASE MedianMoves(m)
  BY <1>0, <1>7, RescoredRow DEF MedianMoves, Change, Live
<1>3. CASE SetPinned(m)
  <2>1. PICK p \in BOOLEAN : Change(m, [mem[m] EXCEPT !.pinned = p]) /\ Live(m)
    BY <1>3 DEF SetPinned
  <2> DEFINE r == [mem[m] EXCEPT !.pinned = p]
  <2>2. r \in Row /\ r.state # "faded" /\ r.tier = mem[m].tier
    BY <1>0, <2>1 DEF Row, Live
  <2> QED
    BY <2>1, <2>2 DEF Change, Live
<1>4. CASE Delete(m)
  <2> DEFINE r == Gone(mem[m], "deleted")
  <2>1. r \in Row /\ r.state # "faded" /\ r.tier = mem[m].tier
    BY <1>0 DEF Row, Gone
  <2> QED
    BY <1>4, <2>1 DEF Delete, Change, Live
<1>5. CASE Pass(m)
  <2>1. PICK a \in {mem[m].age, Older(mem[m].age)} :
          \E r \in Rescored([Later(mem[m]) EXCEPT !.age = a]) : Change(m, r)
    BY <1>5 DEF Pass
  <2> DEFINE q == [Later(mem[m]) EXCEPT !.age = a]
  <2>2. a \in {"new", "day", "old"}
    BY <1>0 DEF Row, Older
  <2>3. q \in Row /\ q.tier = mem[m].tier /\ q.state = mem[m].state /\ Live(m)
    BY <1>0, <1>5, <2>2 DEF Row, Later, Pass
  <2>4. PICK r \in Rescored(q) : Change(m, r)
    BY <2>1
  <2> HIDE DEF q
  <2>5. r \in Row /\ r.state = q.state /\ r.tier = q.tier
    BY <2>3, RescoredRow
  <2> QED
    BY <2>3, <2>4, <2>5 DEF Change, Live
<1> QED
  BY <1>1, <1>2, <1>3, <1>4, <1>5, <1>6, <1>7 DEF ByHand

(* The tick writes, for each row it read, one that the decision allows.    *)
LEMMA WrittenRows ==
  ASSUME AgeTyped, NEW t \in Tick, DecayWrite(t)
  PROVE  /\ tick[t] \in [DOMAIN tick[t] -> Row] /\ DOMAIN tick[t] \subseteq Mem
         /\ \A m \in DOMAIN tick[t] : mem'[m] \in Decayed(mem[m], Decision(m, tick[t][m]))
         /\ \A m \in Mem \ DOMAIN tick[t] : mem'[m] = mem[m]
         /\ mem' = [m \in Mem |-> mem'[m]]
<1>1. PICK S \in SUBSET Mem : tick[t] \in [S -> Row]
  BY DEF AgeTyped
<1>2. DOMAIN tick[t] = S
  BY <1>1
<1> DEFINE rows == [m \in DOMAIN tick[t] |-> Decayed(mem[m], Decision(m, tick[t][m]))]
<1>3. PICK new \in [DOMAIN tick[t] -> UNION {rows[m] : m \in DOMAIN tick[t]}] :
        /\ \A m \in DOMAIN tick[t] : new[m] \in rows[m]
        /\ mem' = [m \in Mem |-> IF m \in DOMAIN tick[t] THEN new[m] ELSE mem[m]]
  BY DEF DecayWrite
<1>4. \A m \in DOMAIN tick[t] : mem'[m] \in Decayed(mem[m], Decision(m, tick[t][m]))
  <2> TAKE m \in DOMAIN tick[t]
  <2>1. rows[m] = Decayed(mem[m], Decision(m, tick[t][m]))
    OBVIOUS
  <2>2. mem'[m] = new[m]
    BY <1>1, <1>2, <1>3
  <2> QED
    BY <1>3, <2>1, <2>2
<1> HIDE DEF rows
<1> QED
  BY <1>1, <1>2, <1>3, <1>4

LEMMA AgeTypes == AgeTyped /\ [Next]_vars => AgeTyped'
<1> SUFFICES ASSUME AgeTyped, [Next]_vars PROVE AgeTyped'
  OBVIOUS
<1>1. ASSUME NEW m \in Mem, ByHand(m)
      PROVE  AgeTyped'
  BY <1>1, ChangedRow DEF AgeTyped
<1>2. ASSUME NEW t \in Tick, DecayRead(t) PROVE AgeTyped'
  <2>1. ToMove \in SUBSET Mem
    BY DEF ToMove, ForDecay
  <2>2. [m \in ToMove |-> mem[m]] \in [ToMove -> Row]
    BY <2>1 DEF AgeTyped
  <2>3. tick' = [tick EXCEPT ![t] = [m \in ToMove |-> mem[m]]] /\ UNCHANGED <<mem, cons, summed>>
    BY <1>2 DEF DecayRead
  <2> QED
    BY <2>1, <2>2, <2>3 DEF AgeTyped
<1>3. ASSUME NEW t \in Tick, DecayWrite(t) PROVE AgeTyped'
  <2>1. \A m \in DOMAIN tick[t] : tick[t][m] \in Row /\ m \in Mem
    BY <1>3, WrittenRows
  <2>2. \A m \in Mem : mem[m] \in Row
    BY DEF AgeTyped
  <2>3. \A m \in Mem : mem'[m] \in Row
    BY <1>3, <2>1, <2>2, WrittenRows, DecayedRow
  <2>4. mem' \in [Mem -> Row]
    BY <1>3, <2>3, WrittenRows
  <2>5. tick' = [tick EXCEPT ![t] = None] /\ UNCHANGED <<cons, summed>>
    BY <1>3 DEF DecayWrite
  <2> QED
    BY <2>4, <2>5, NoneEmpty DEF AgeTyped
<1>4. CASE ConsRead \/ ConsWrite \/ ConsSkip
  BY <1>4 DEF AgeTyped, ConsRead, ConsWrite, ConsSkip, ForConsolidation
<1>5. CASE UNCHANGED vars
  BY <1>5 DEF vars, AgeTyped
<1> QED
  BY <1>1, <1>2, <1>3, <1>4, <1>5 DEF Next, ByHand

LEMMA InitAgeTyped == Init => AgeTyped
  BY NoneEmpty DEF Init, AgeTyped, Row, Tier

(* A tick that runs alone finds the tiers as it read them.                 *)
LEMMA AgeStep == Alone /\ AgeInv /\ [Next]_vars => AgeInv'
<1> SUFFICES ASSUME Alone, AgeInv, [Next]_vars PROVE AgeInv'
  OBVIOUS
<1>0. AgeTyped /\ AgeTyped'
  BY AgeTypes DEF AgeInv
<1>1. ASSUME NEW m \in Mem, ByHand(m)
      PROVE  AgeInv'
  <2>1. PICK r \in Row : /\ mem' = [mem EXCEPT ![m] = r] /\ UNCHANGED <<tick, cons, summed>>
                         /\ r.state # "faded" /\ r.tier = mem[m].tier
    BY <1>0, <1>1, ChangedRow
  <2>2. /\ \A n \in Mem : mem'[n].tier = mem[n].tier
        /\ \A n \in Mem : mem'[n].state = "faded" => mem[n].state = "faded"
    BY <1>0, <2>1 DEF AgeTyped
  <2>3. \A t \in Tick : DOMAIN tick[t] \subseteq Mem
    BY <1>0 DEF AgeTyped
  <2> QED
    BY <1>0, <2>1, <2>2, <2>3 DEF AgeInv, AgeTyped, TierAsRead, FadedShort, SummedOlder
<1>2. ASSUME NEW t \in Tick, DecayRead(t) PROVE AgeInv'
  <2>1. /\ tick' = [tick EXCEPT ![t] = [m \in ToMove |-> mem[m]]] /\ UNCHANGED <<mem, cons, summed>>
        /\ \A m \in ToMove : mem[m].state # "faded"
    BY <1>2 DEF DecayRead, ToMove, ForDecay, Live
  <2>2. TierAsRead'
    BY <1>0, <2>1 DEF AgeInv, AgeTyped, TierAsRead
  <2> QED
    BY <1>0, <2>1, <2>2 DEF AgeInv, FadedShort, SummedOlder
<1>3. ASSUME NEW t \in Tick, DecayWrite(t) PROVE AgeInv'
  <2>1. tick' = [tick EXCEPT ![t] = None] /\ UNCHANGED <<cons, summed>>
    BY <1>3 DEF DecayWrite
  <2>2. \A u \in Tick : DOMAIN tick'[u] = {}
    BY <1>0, <2>1, NoneEmpty DEF Alone, AgeTyped
  <2>3. ASSUME NEW m \in Mem
        PROVE  /\ mem'[m].state = "faded" => mem'[m].tier = "short"
               /\ mem[m].tier # "short" => mem'[m].tier # "short"
    <3>1. CASE m \notin DOMAIN tick[t]
      BY <1>0, <1>3, <3>1, WrittenRows DEF AgeInv, FadedShort
    <3>2. CASE m \in DOMAIN tick[t]
      <4>1. /\ tick[t][m] \in Row /\ mem[m] \in Row
            /\ mem'[m] \in Decayed(mem[m], Decision(m, tick[t][m]))
        BY <1>0, <1>3, <3>2, WrittenRows DEF AgeTyped
      <4>2. mem[m].tier = tick[t][m].tier /\ mem[m].state # "faded"
        BY <3>2 DEF AgeInv, TierAsRead
      <4> QED
        BY <4>1, <4>2, DecayedRow
    <3> QED
      BY <3>1, <3>2
  <2>4. TierAsRead'
    BY <2>2 DEF TierAsRead
  <2> QED
    BY <1>0, <2>1, <2>3, <2>4 DEF AgeInv, AgeTyped, FadedShort, SummedOlder
<1>4. CASE ConsRead \/ ConsWrite \/ ConsSkip
  <2>1. UNCHANGED <<mem, tick>>
    BY <1>4 DEF ConsRead, ConsWrite, ConsSkip
  <2>2. \A m \in cons' \cup summed' : m \in cons \cup summed \/ mem[m].tier = "mid"
    BY <1>4 DEF ConsRead, ConsWrite, ConsSkip, ForConsolidation
  <2> QED
    BY <1>0, <2>1, <2>2 DEF AgeInv, TierAsRead, FadedShort, SummedOlder
<1>5. CASE UNCHANGED vars
  BY <1>0, <1>5 DEF vars, AgeInv, TierAsRead, FadedShort, SummedOlder
<1> QED
  BY <1>1, <1>2, <1>3, <1>4, <1>5 DEF Next, ByHand

(* FadedNeverSummarised: what decay deleted is in no summary, nor in a     *)
(* cluster that waits for one, as long as ticks do not overlap             *)
(* (should_hard_delete, list_for_consolidation).                           *)
THEOREM SummariesDoNotFade == Alone => (Spec => []FadedNeverSummarised)
<1> SUFFICES ASSUME Alone PROVE Spec => []FadedNeverSummarised
  OBVIOUS
<1>1. Init => AgeInv
  <2>1. Init => TierAsRead /\ FadedShort /\ SummedOlder
    BY NoneEmpty DEF Init, TierAsRead, FadedShort, SummedOlder
  <2> QED
    BY <2>1, InitAgeTyped DEF AgeInv
<1>2. AgeInv /\ [Next]_vars => AgeInv'
  BY AgeStep
<1>3. AgeInv => FadedNeverSummarised
  BY DEF AgeInv, FadedShort, SummedOlder, FadedNeverSummarised
<1> QED
  BY <1>1, <1>2, <1>3, PTL DEF Spec

(* DecaySparesInUse: a tick deletes what is pinned, scores above the       *)
(* cut-off or is out of the short tier only if it read it otherwise,       *)
(* whatever the importance; ticks may overlap here                         *)
(* (ExponentialDecayPolicy.evaluate, _tick_one_org).                       *)
THEOREM DecayDeletesWhatItRead == Spec => DecaySparesInUse
<1>1. Init => AgeTyped
  BY InitAgeTyped
<1>2. AgeTyped /\ [Next]_vars => AgeTyped'
  BY AgeTypes
<1> DEFINE Spares ==
      \A m \in Mem :
        (Live(m) /\ mem'[m].state = "faded" /\ (mem[m].pinned \/ mem[m].fresh \/ mem[m].tier # "short"))
        => \E t \in Tick : /\ m \in DOMAIN tick[t]
                           /\ ~tick[t][m].pinned /\ ~tick[t][m].fresh /\ tick[t][m].tier = "short"
<1>3. AgeTyped /\ [Next]_vars => [Spares]_vars
  <2> SUFFICES ASSUME AgeTyped, Next, NEW m \in Mem, Live(m), mem'[m].state = "faded"
               PROVE  \E t \in Tick : /\ m \in DOMAIN tick[t]
                                      /\ ~tick[t][m].pinned /\ ~tick[t][m].fresh
                                      /\ tick[t][m].tier = "short"
    OBVIOUS
  <2>1. PICK t \in Tick : DecayWrite(t)
    <3>1. ASSUME NEW n \in Mem, ByHand(n)
          PROVE  FALSE
      <4>1. PICK r \in Row : mem' = [mem EXCEPT ![n] = r] /\ r.state # "faded"
        BY <3>1, ChangedRow
      <4> QED
        BY <4>1 DEF AgeTyped, Live
    <3>2. \A t \in Tick : DecayRead(t) => mem' = mem
      BY DEF DecayRead
    <3>3. ConsRead \/ ConsWrite \/ ConsSkip => mem' = mem
      BY DEF ConsRead, ConsWrite, ConsSkip
    <3> QED
      BY <3>1, <3>2, <3>3 DEF Next, ByHand, Live
  <2>2. m \in DOMAIN tick[t]
    BY <2>1, WrittenRows DEF Live
  <2>3. tick[t][m] \in Row /\ mem[m] \in Row /\ mem'[m] \in Decayed(mem[m], Decision(m, tick[t][m]))
    BY <2>1, <2>2, WrittenRows DEF AgeTyped
  <2> QED
    BY <2>2, <2>3, DecayedRow DEF Live
<1> QED
  BY <1>1, <1>2, <1>3, PTL DEF Spec, DecaySparesInUse

-----------------------------------------------------------------------------
(* Searches and recalls.                                                   *)

CallFields ==
  {"at", "op", "synth", "cap", "tokenCap", "elapsed", "spent", "mode", "plan", "step", "hops",
   "again", "vector", "fused", "seen", "walked", "stopped", "exhausted", "answered", "bundle",
   "cut"}

(* Whatever a call has in hand was visible at some moment, or walked to.   *)
Backed ==
  /\ DOMAIN call = CallFields
  /\ Visible \subseteq allowed
  /\ Range(call.vector) \subseteq allowed
  /\ DOMAIN call.fused \subseteq allowed
  /\ DOMAIN call.seen \subseteq allowed \cup call.walked
  /\ Range(call.bundle) \subseteq allowed \cup call.walked

LEMMA NothingInHand ==
  /\ DOMAIN NoCall = CallFields
  /\ Range(NoCall.vector) = {} /\ Range(NoCall.bundle) = {}
  /\ DOMAIN NoCall.fused = {} /\ DOMAIN NoCall.seen = {} /\ DOMAIN NoHits = {}
  BY DEF NoCall, CallFields, NoHits, Range

(* A call that goes on with what it has.                                   *)
LEMMA BackedKept ==
  ASSUME Backed, NEW c, Continue(c), DOMAIN c = CallFields,
         c.vector = call.vector, c.fused = call.fused, c.seen = call.seen, c.walked = call.walked,
         c.bundle = call.bundle
  PROVE  Backed'
  BY DEF Backed, Continue, Visible

LEMMA RankingsInside == \A S : \A s \in Rankings(S) : Range(s) \subseteq S
  BY DEF Rankings, SeqOf, Range

LEMMA HitsInside ==
  ASSUME NEW fused, NEW limit
  PROVE  /\ DOMAIN HybridHits(fused, limit) \subseteq DOMAIN fused
         /\ DOMAIN ChunkHits(fused, limit) \subseteq DOMAIN fused
  BY DEF HybridHits, ChunkHits, Best, Restrict

LEMMA FusedInside ==
  ASSUME NEW v, NEW b
  PROVE  DOMAIN RrfFuse(v, b) = Range(v) \cup Range(b)
  BY DEF RrfFuse

LEMMA Ingested ==
  ASSUME NEW seen, NEW hits
  PROVE  DOMAIN Ingest(seen, hits) = DOMAIN seen \cup DOMAIN hits
  BY DEF Ingest

LEMMA DemotedInside ==
  ASSUME NEW kept, NEW good, NEW s \in DemoteSuperseded(kept, good)
  PROVE  Range(s) \subseteq kept
  BY DEF DemoteSuperseded, Range

LEMMA BackedStep == Backed /\ [RetrievalNext]_retrievalVars => Backed'
<1> SUFFICES ASSUME Backed, [RetrievalNext]_retrievalVars PROVE Backed'
  OBVIOUS
<1>0. DOMAIN call = CallFields
  BY DEF Backed
<1>1. CASE Search \/ SearchAttachments
  BY <1>0, <1>1, BackedKept DEF Search, SearchAttachments, CallFields
<1>2. ASSUME NEW synth, NEW planner, NEW cap, NEW tokenCap, Recall(synth, cap, tokenCap, planner)
      PROVE  Backed'
  <2> DEFINE c == [call EXCEPT !.op = "recall", !.synth = synth, !.cap = cap, !.tokenCap = tokenCap]
             d == IF planner /\ AffordsModel(c) THEN [c EXCEPT !.at = "plan", !.mode = "agentic"]
                                                ELSE Fallback([c EXCEPT !.cut = planner])
  <2>1. Continue(d)
    BY <1>2 DEF Recall
  <2>2. /\ DOMAIN c = CallFields /\ c.vector = call.vector /\ c.fused = call.fused
        /\ c.seen = call.seen /\ c.walked = call.walked /\ c.bundle = call.bundle
    BY <1>0 DEF CallFields
  <2> HIDE DEF c
  <2>3. /\ DOMAIN d = CallFields /\ d.vector = c.vector /\ d.fused = c.fused
        /\ d.seen = c.seen /\ d.walked = c.walked /\ d.bundle = c.bundle
    BY <2>2 DEF CallFields, Fallback
  <2> HIDE DEF d
  <2> QED
    BY <2>1, <2>2, <2>3, BackedKept
<1>3. CASE Planned
  BY <1>0, <1>3, BackedKept DEF Planned, Used, Fallback, CallFields
<1>4. CASE Rank
  <2>1. PICK vector \in (IF Step = "keyword" THEN {<<>>} ELSE Rankings(Visible)) :
          Continue([call EXCEPT !.at = "text", !.vector = vector])
    BY <1>4 DEF Rank
  <2>2. Range(vector) \subseteq allowed
    <3>1. Range(<<>>) = {}
      BY DEF Range
    <3> QED
      BY <2>1, <3>1, RankingsInside DEF Backed
  <2> DEFINE c == [call EXCEPT !.at = "text", !.vector = vector]
  <2>3. /\ DOMAIN c = CallFields /\ c.vector = vector /\ c.fused = call.fused
        /\ c.seen = call.seen /\ c.walked = call.walked /\ c.bundle = call.bundle
    BY <1>0 DEF CallFields
  <2> HIDE DEF c
  <2> QED
    BY <2>1, <2>2, <2>3 DEF c, Backed, Continue, Visible
<1>5. CASE RankText
  <2>1. PICK bm25 \in Rankings(Visible) :
          Continue([call EXCEPT !.at = "fetch", !.vector = <<>>,
                                !.fused = RrfFuse(call.vector, bm25)])
    BY <1>5 DEF RankText
  <2>2. DOMAIN RrfFuse(call.vector, bm25) \subseteq allowed /\ Range(<<>>) = {}
    <3>1. Range(bm25) \subseteq Visible
      BY RankingsInside
    <3>2. DOMAIN RrfFuse(call.vector, bm25) = Range(call.vector) \cup Range(bm25)
      BY FusedInside
    <3>3. Range(<<>>) = {}
      BY DEF Range
    <3> QED
      BY <3>1, <3>2, <3>3 DEF Backed
  <2> DEFINE c == [call EXCEPT !.at = "fetch", !.vector = <<>>, !.fused = RrfFuse(call.vector, bm25)]
  <2>3. /\ DOMAIN c = CallFields /\ c.vector = <<>> /\ c.fused = RrfFuse(call.vector, bm25)
        /\ c.seen = call.seen /\ c.walked = call.walked /\ c.bundle = call.bundle
    BY <1>0 DEF CallFields
  <2> HIDE DEF c
  <2> QED
    BY <2>1, <2>2, <2>3 DEF c, Backed, Continue, Visible
<1>6. CASE Fetch
  <2> DEFINE hits == IF call.op = "chunks" THEN ChunkHits(call.fused, SearchLimit)
                                           ELSE HybridHits(call.fused, SearchLimit)
  <2>1. PICK e \in Passing(call) :
          Continue([call EXCEPT !.fused = NoHits, !.elapsed = e,
                                !.at = IF call.mode = "agentic" THEN "loop" ELSE "pack",
                                !.step = @ + 1, !.seen = Ingest(@, hits)])
    BY <1>6 DEF Fetch
  <2>2. DOMAIN hits \subseteq allowed
    BY HitsInside DEF Backed
  <2> HIDE DEF hits
  <2> DEFINE c == [call EXCEPT !.fused = NoHits, !.elapsed = e,
                               !.at = IF call.mode = "agentic" THEN "loop" ELSE "pack",
                               !.step = @ + 1, !.seen = Ingest(@, hits)]
  <2>3. /\ DOMAIN c = CallFields /\ c.vector = call.vector /\ c.fused = NoHits
        /\ c.seen = Ingest(call.seen, hits) /\ c.walked = call.walked /\ c.bundle = call.bundle
    BY <1>0 DEF CallFields
  <2> HIDE DEF c
  <2>5. DOMAIN Ingest(call.seen, hits) = DOMAIN call.seen \cup DOMAIN hits
    BY Ingested
  <2>6. DOMAIN call.seen \subseteq allowed \cup call.walked
    BY DEF Backed
  <2>4. DOMAIN c.seen \subseteq allowed \cup call.walked
    BY <2>2, <2>3, <2>5, <2>6
  <2> QED
    BY <2>1, <2>3, <2>4, NothingInHand DEF c, Backed, Continue, Visible
<1>7. CASE LoopEnd
  <2> DEFINE c == [call EXCEPT !.stopped = StopReason, !.cut = @ \/ StopReason = "budget_exhausted"]
             d == IF DOMAIN c.seen = {} /\ ~c.again
                  THEN [c EXCEPT !.again = TRUE, !.plan = <<"semantic">>, !.step = 1, !.hops = 0]
                  ELSE [c EXCEPT !.at = "pack"]
  <2>1. Continue(d)
    BY <1>7 DEF LoopEnd
  <2>2. /\ DOMAIN c = CallFields /\ c.vector = call.vector /\ c.fused = call.fused
        /\ c.seen = call.seen /\ c.walked = call.walked /\ c.bundle = call.bundle
    BY <1>0 DEF CallFields
  <2> HIDE DEF c
  <2>3. /\ DOMAIN d = CallFields /\ d.vector = c.vector /\ d.fused = c.fused
        /\ d.seen = c.seen /\ d.walked = c.walked /\ d.bundle = c.bundle
    BY <2>2 DEF CallFields
  <2> HIDE DEF d
  <2> QED
    BY <2>1, <2>2, <2>3, BackedKept
<1>8. CASE Hop
  <2> DEFINE c == [call EXCEPT !.hops = @ + 1]
             found == [m \in Walk |-> 0]
  <2>2. /\ DOMAIN c = CallFields /\ c.vector = call.vector /\ c.fused = call.fused
        /\ c.seen = call.seen /\ c.walked = call.walked /\ c.bundle = call.bundle
    BY <1>0 DEF CallFields
  <2>3. \/ Continue([c EXCEPT !.at = "rank"])
        \/ Continue([c EXCEPT !.step = @ + 1])
        \/ Continue([c EXCEPT !.step = @ + 1, !.walked = @ \cup Walk, !.seen = Ingest(@, found)])
    BY <1>8 DEF Hop
  <2> HIDE DEF c, found
  <2>4. CASE Continue([c EXCEPT !.at = "rank"]) \/ Continue([c EXCEPT !.step = @ + 1])
    BY <2>2, <2>4, BackedKept DEF CallFields
  <2>5. CASE Continue([c EXCEPT !.step = @ + 1, !.walked = @ \cup Walk, !.seen = Ingest(@, found)])
    <3> DEFINE d == [c EXCEPT !.step = @ + 1, !.walked = @ \cup Walk, !.seen = Ingest(@, found)]
    <3>1. /\ DOMAIN d = CallFields /\ d.vector = call.vector /\ d.fused = call.fused
          /\ d.seen = Ingest(call.seen, found) /\ d.walked = call.walked \cup Walk
          /\ d.bundle = call.bundle
      BY <2>2 DEF CallFields
    <3> HIDE DEF d
    <3>2. DOMAIN d.seen = DOMAIN call.seen \cup Walk
      <4>1. DOMAIN Ingest(call.seen, found) = DOMAIN call.seen \cup DOMAIN found
        BY Ingested
      <4>2. DOMAIN found = Walk
        BY DEF found
      <4> QED
        BY <3>1, <4>1, <4>2
    <3> QED
      BY <2>5, <3>1, <3>2 DEF d, Backed, Continue, Visible
  <2> QED
    BY <2>3, <2>4, <2>5
<1>9. CASE Pack
  <2>0. PICK kept, good :
          /\ kept \in SUBSET DOMAIN call.seen
          /\ \E ordered \in DemoteSuperseded(kept, good) :
            Continue([call EXCEPT !.bundle = ordered, !.seen = NoHits,
                                  !.plan = <<>>, !.step = 1, !.hops = 0,
                                  !.at = IF call.mode = "agentic" /\ call.synth
                                         THEN "synthesize" ELSE "record"])
    BY <1>9 DEF Pack
  <2>1. PICK ordered \in DemoteSuperseded(kept, good) :
          Continue([call EXCEPT !.bundle = ordered, !.seen = NoHits,
                                !.plan = <<>>, !.step = 1, !.hops = 0,
                                !.at = IF call.mode = "agentic" /\ call.synth
                                       THEN "synthesize" ELSE "record"])
    BY <2>0
  <2>2. Range(ordered) \subseteq allowed \cup call.walked
    <3>1. kept \subseteq DOMAIN call.seen
      BY <2>0
    <3> QED
      BY <3>1, DemotedInside DEF Backed
  <2> DEFINE c == [call EXCEPT !.bundle = ordered, !.seen = NoHits, !.plan = <<>>, !.step = 1,
                               !.hops = 0, !.at = IF call.mode = "agentic" /\ call.synth
                                                  THEN "synthesize" ELSE "record"]
  <2>3. /\ DOMAIN c = CallFields /\ c.vector = call.vector /\ c.fused = call.fused
        /\ c.seen = NoHits /\ c.walked = call.walked /\ c.bundle = ordered
    BY <1>0 DEF CallFields
  <2> HIDE DEF c
  <2> QED
    BY <2>1, <2>2, <2>3, NothingInHand DEF c, Backed, Continue, Visible
<1>10. CASE Synthesize
  BY <1>0, <1>10, BackedKept DEF Synthesize, Used, CallFields
<1>11. CASE Record
  <2> DEFINE c == [call EXCEPT !.at = "done", !.exhausted = @ \/ call.stopped = "budget_exhausted"]
  <2>1. call' = c /\ UNCHANGED <<status, allowed>>
    BY <1>11 DEF Record
  <2>2. /\ DOMAIN c = CallFields /\ c.vector = call.vector /\ c.fused = call.fused
        /\ c.seen = call.seen /\ c.walked = call.walked /\ c.bundle = call.bundle
    BY <1>0 DEF CallFields
  <2> HIDE DEF c
  <2> QED
    BY <2>1, <2>2 DEF Backed, Visible
<1>12. CASE Fail
  <2> DEFINE c == [NoCall EXCEPT !.at = "failed"]
  <2>1. Continue(c)
    BY <1>12 DEF Fail
  <2>2. /\ DOMAIN c = CallFields /\ c.vector = NoCall.vector /\ c.fused = NoCall.fused
        /\ c.seen = NoCall.seen /\ c.bundle = NoCall.bundle
    BY NothingInHand DEF CallFields
  <2> HIDE DEF c
  <2> QED
    BY <2>1, <2>2, NothingInHand DEF Backed, Continue, Visible
<1>13. ASSUME NEW m, NEW verdict, Decide(m, verdict) PROVE Backed'
  BY <1>13 DEF Decide, Backed
<1>14. CASE UNCHANGED retrievalVars
  BY <1>14 DEF retrievalVars, Backed, Visible
<1> QED
  BY <1>1, <1>2, <1>3, <1>4, <1>5, <1>6, <1>7, <1>8, <1>9, <1>10, <1>11, <1>12, <1>13, <1>14
  DEF RetrievalNext

(* RecalledWasAllowed: a search or recall returns only what its filters    *)
(* let through at some moment since it began, or a link led to             *)
(* (hybrid_search, _expand_links).                                         *)
THEOREM RecallsWhatWasAllowed == RetrievalSpec => []RecalledWasAllowed
<1>1. RetrievalInit => Backed
  BY NothingInHand DEF RetrievalInit, Backed
<1>2. Backed => RecalledWasAllowed
  BY DEF Backed, RecalledWasAllowed
<1> QED
  BY <1>1, <1>2, BackedStep, PTL DEF RetrievalSpec

-----------------------------------------------------------------------------
(* What a cap does to a call.  A loop that the budget ended and that found *)
(* nothing is followed by one that the budget ends before its first step:  *)
(* the reason to stop survives into the second loop.                       *)

Told(c) ==
  /\ DOMAIN c = CallFields
  /\ c.exhausted \/ c.stopped = "budget_exhausted" => c.cut
  /\ c.cut => c.mode = "hybrid" \/ c.exhausted \/ c.stopped = "budget_exhausted"
  /\ c.at = "done" /\ c.stopped = "budget_exhausted" => c.exhausted
  /\ c.at \in {"idle", "plan"} => ~c.cut
  /\ c.at \in {"rank", "text", "fetch"} /\ c.mode = "agentic" => ~c.cut
  /\ c.at = "loop" /\ c.cut =>
       c.again /\ c.step = 1 /\ c.plan = <<"semantic">> /\ ~HasHeadroom(c, HopReserve)

CapTold == Told(call)

LEMMA ToldFirst == Told(NoCall) /\ Told([NoCall EXCEPT !.at = "failed"])
  BY DEF Told, NoCall, CallFields

(* A call whose caps do not matter any more goes on.                       *)
LEMMA ToldKept ==
  ASSUME Told(call), NEW c, DOMAIN c = CallFields,
         c.cut <=> call.cut, c.exhausted <=> call.exhausted,
         c.stopped = call.stopped, c.mode = call.mode,
         \/ c.at \in {"pack", "synthesize", "record"}
         \/ c.at \in {"plan", "rank", "text", "fetch", "loop"} /\ ~call.cut
         \/ c.at \in {"rank", "text", "fetch"} /\ call.mode # "agentic"
  PROVE  Told(c)
  BY DEF Told

(* The second loop after one the budget ended takes no step.               *)
LEMMA EndedAgain ==
  ASSUME Told(call), call.at = "loop", call.cut
  PROVE  StopReason = "budget_exhausted"
<1>1. call.step = 1 /\ call.plan = <<"semantic">> /\ ~HasHeadroom(call, HopReserve)
  BY DEF Told
<1>2. Len(<<"semantic">>) = 1
  OBVIOUS
<1>3. ~(call.step > Len(call.plan))
  BY <1>1, <1>2
<1> QED
  BY <1>1, <1>3 DEF StopReason

LEMMA ToldLoopEnd == Told(call) /\ LoopEnd => Told(call')
<1> SUFFICES ASSUME Told(call), LoopEnd PROVE Told(call')
  OBVIOUS
<1> DEFINE c == [call EXCEPT !.stopped = StopReason, !.cut = @ \/ StopReason = "budget_exhausted"]
           again == [c EXCEPT !.again = TRUE, !.plan = <<"semantic">>, !.step = 1, !.hops = 0]
           end == [c EXCEPT !.at = "pack"]
<1>0. DOMAIN call = CallFields /\ call.at = "loop"
  BY DEF Told, LoopEnd
<1>1. \/ call' = again /\ ~c.again
      \/ call' = end
  BY DEF LoopEnd, Continue
<1>2. /\ DOMAIN c = CallFields /\ c.at = "loop" /\ c.mode = call.mode /\ c.again = call.again
      /\ c.stopped = StopReason /\ c.cut = (call.cut \/ StopReason = "budget_exhausted")
      /\ c.exhausted = call.exhausted /\ c.cap = call.cap /\ c.elapsed = call.elapsed
  BY <1>0 DEF CallFields
<1> HIDE DEF c
<1>3. /\ DOMAIN again = CallFields /\ again.at = "loop" /\ again.mode = c.mode /\ again.again = TRUE
      /\ again.stopped = c.stopped /\ again.cut = c.cut /\ again.exhausted = c.exhausted
      /\ again.cap = c.cap /\ again.elapsed = c.elapsed
      /\ again.plan = <<"semantic">> /\ again.step = 1
  BY <1>2 DEF CallFields
<1>4. /\ DOMAIN end = CallFields /\ end.at = "pack" /\ end.mode = c.mode
      /\ end.stopped = c.stopped /\ end.cut = c.cut /\ end.exhausted = c.exhausted
  BY <1>2 DEF CallFields
<1> HIDE DEF again, end
<1>5. call.cut => StopReason = "budget_exhausted"
  BY <1>0, EndedAgain
<1>6. call.exhausted => call.cut
  BY DEF Told
<1>7. c.cut <=> StopReason = "budget_exhausted"
  BY <1>2, <1>5
<1>8. CASE call' = again /\ ~c.again
  <2>1. ~call.cut
    BY <1>0, <1>2, <1>8 DEF Told
  <2>2. StopReason = "budget_exhausted" => ~HasHeadroom(call, HopReserve)
    BY DEF StopReason
  <2>3. HasHeadroom(again, HopReserve) <=> HasHeadroom(call, HopReserve)
    BY <1>2, <1>3 DEF HasHeadroom
  <2> QED
    BY <1>2, <1>3, <1>5, <1>6, <1>7, <1>8, <2>2, <2>3 DEF Told
<1>9. CASE call' = end
  BY <1>2, <1>4, <1>5, <1>6, <1>7, <1>9 DEF Told
<1> QED
  BY <1>1, <1>8, <1>9

LEMMA ToldStep == Told(call) /\ [RetrievalNext]_retrievalVars => Told(call')
<1> SUFFICES ASSUME Told(call), [RetrievalNext]_retrievalVars PROVE Told(call')
  OBVIOUS
<1>0. DOMAIN call = CallFields
  BY DEF Told
<1>1. CASE Search \/ SearchAttachments
  <2> DEFINE c(op) == [call EXCEPT !.at = "rank", !.op = op]
  <2>1. PICK op : call' = c(op) /\ call.at = "idle"
    BY <1>1 DEF Search, SearchAttachments, Continue
  <2>2. ~call.cut
    BY <2>1 DEF Told
  <2>3. /\ DOMAIN c(op) = CallFields /\ c(op).at = "rank" /\ c(op).cut = call.cut
        /\ c(op).exhausted = call.exhausted /\ c(op).stopped = call.stopped
        /\ c(op).mode = call.mode
    BY <1>0 DEF CallFields
  <2> HIDE DEF c
  <2> QED
    BY <2>1, <2>2, <2>3, ToldKept
<1>2. ASSUME NEW synth, NEW planner \in BOOLEAN, NEW cap, NEW tokenCap,
             Recall(synth, cap, tokenCap, planner)
      PROVE  Told(call')
  <2> DEFINE c == [call EXCEPT !.op = "recall", !.synth = synth, !.cap = cap, !.tokenCap = tokenCap]
             plan == [c EXCEPT !.at = "plan", !.mode = "agentic"]
             hybrid == Fallback([c EXCEPT !.cut = planner])
  <2>1. call.at = "idle" /\ (call' = plan \/ call' = hybrid)
    BY <1>2 DEF Recall, Continue
  <2>2. /\ DOMAIN c = CallFields /\ c.cut = call.cut /\ c.exhausted = call.exhausted
        /\ c.stopped = call.stopped
    BY <1>0 DEF CallFields
  <2> HIDE DEF c
  <2>3. /\ DOMAIN plan = CallFields /\ plan.at = "plan" /\ plan.cut = c.cut
        /\ plan.exhausted = c.exhausted /\ plan.stopped = c.stopped
    BY <2>2 DEF CallFields
  <2>4. /\ DOMAIN hybrid = CallFields /\ hybrid.at = "rank" /\ hybrid.cut = planner
        /\ hybrid.exhausted = c.exhausted /\ hybrid.stopped = c.stopped
        /\ hybrid.mode = "hybrid"
    BY <2>2 DEF CallFields, Fallback
  <2> HIDE DEF plan, hybrid
  <2>5. ~call.cut /\ ~call.exhausted /\ call.stopped # "budget_exhausted"
    BY <2>1 DEF Told
  <2>6. CASE call' = plan
    BY <2>2, <2>3, <2>5, <2>6 DEF Told
  <2>7. CASE call' = hybrid
    BY <2>2, <2>4, <2>5, <2>7 DEF Told
  <2> QED
    BY <2>1, <2>6, <2>7
<1>3. CASE Planned
  <2> DEFINE loop(e, t, p) == [Used(call, e, t) EXCEPT !.at = "loop", !.plan = p]
             hybrid(e) == Fallback([call EXCEPT !.elapsed = e])
  <2>1. \/ \E e, t, p : call' = loop(e, t, p)
        \/ \E e : call' = hybrid(e)
    BY <1>3 DEF Planned, Continue
  <2>2. ~call.cut
    BY <1>3 DEF Planned, Told
  <2>3. ASSUME NEW e, NEW t, NEW p, call' = loop(e, t, p) PROVE Told(call')
    <3>1. /\ DOMAIN loop(e, t, p) = CallFields /\ loop(e, t, p).at = "loop"
          /\ loop(e, t, p).cut = call.cut /\ loop(e, t, p).exhausted = call.exhausted
          /\ loop(e, t, p).stopped = call.stopped /\ loop(e, t, p).mode = call.mode
      BY <1>0 DEF CallFields, Used
    <3> HIDE DEF loop
    <3> QED
      BY <2>2, <2>3, <3>1, ToldKept
  <2>4. ASSUME NEW e, call' = hybrid(e) PROVE Told(call')
    <3>1. /\ DOMAIN hybrid(e) = CallFields /\ hybrid(e).at = "rank" /\ hybrid(e).mode = "hybrid"
          /\ hybrid(e).cut = call.cut /\ hybrid(e).exhausted = call.exhausted
          /\ hybrid(e).stopped = call.stopped
      BY <1>0 DEF CallFields, Fallback
    <3> HIDE DEF hybrid
    <3> QED
      BY <2>2, <2>4, <3>1 DEF Told
  <2> QED
    BY <2>1, <2>3, <2>4
<1>4. CASE Rank
  <2> DEFINE c(v) == [call EXCEPT !.at = "text", !.vector = v]
  <2>1. PICK v : call' = c(v) /\ call.at = "rank"
    BY <1>4 DEF Rank, Continue
  <2>2. call.mode # "agentic" \/ ~call.cut
    BY <2>1 DEF Told
  <2>3. /\ DOMAIN c(v) = CallFields /\ c(v).at = "text" /\ c(v).cut = call.cut
        /\ c(v).exhausted = call.exhausted /\ c(v).stopped = call.stopped
        /\ c(v).mode = call.mode
    BY <1>0 DEF CallFields
  <2> HIDE DEF c
  <2> QED
    BY <2>1, <2>2, <2>3, ToldKept
<1>5. CASE RankText
  <2> DEFINE c(b) == [call EXCEPT !.at = "fetch", !.vector = <<>>, !.fused = RrfFuse(call.vector, b)]
  <2>1. PICK b : call' = c(b) /\ call.at = "text"
    BY <1>5 DEF RankText, Continue
  <2>2. call.mode # "agentic" \/ ~call.cut
    BY <2>1 DEF Told
  <2>3. /\ DOMAIN c(b) = CallFields /\ c(b).at = "fetch" /\ c(b).cut = call.cut
        /\ c(b).exhausted = call.exhausted /\ c(b).stopped = call.stopped
        /\ c(b).mode = call.mode
    BY <1>0 DEF CallFields
  <2> HIDE DEF c
  <2> QED
    BY <2>1, <2>2, <2>3, ToldKept
<1>6. CASE Fetch
  <2> DEFINE c(e, hits) == [call EXCEPT !.fused = NoHits, !.elapsed = e,
                               !.at = IF call.mode = "agentic" THEN "loop" ELSE "pack",
                               !.step = @ + 1, !.seen = Ingest(@, hits)]
  <2>1. PICK e, hits : call' = c(e, hits)
    BY <1>6 DEF Fetch, Continue
  <2>2. call.mode # "agentic" \/ ~call.cut
    BY <1>6 DEF Fetch, Told
  <2>3. /\ DOMAIN c(e, hits) = CallFields
        /\ c(e, hits).at = (IF call.mode = "agentic" THEN "loop" ELSE "pack")
        /\ c(e, hits).cut = call.cut
        /\ c(e, hits).exhausted = call.exhausted /\ c(e, hits).stopped = call.stopped
        /\ c(e, hits).mode = call.mode
    BY <1>0 DEF CallFields
  <2> HIDE DEF c
  <2> QED
    BY <2>1, <2>2, <2>3, ToldKept
<1>7. CASE LoopEnd
  BY <1>7, ToldLoopEnd
<1>8. CASE Hop
  <2> DEFINE c == [call EXCEPT !.hops = @ + 1]
             found == [m \in Walk |-> 0]
  <2>1. ~call.cut
    BY <1>8, EndedAgain DEF Hop
  <2>2. /\ DOMAIN c = CallFields /\ c.at = "loop" /\ c.cut = call.cut
        /\ c.exhausted = call.exhausted /\ c.stopped = call.stopped /\ c.mode = call.mode
    BY <1>0, <1>8 DEF CallFields, Hop
  <2>3. \/ call' = [c EXCEPT !.at = "rank"]
        \/ call' = [c EXCEPT !.step = @ + 1]
        \/ call' = [c EXCEPT !.step = @ + 1, !.walked = @ \cup Walk, !.seen = Ingest(@, found)]
    BY <1>8 DEF Hop, Continue
  <2> HIDE DEF c, found
  <2>4. /\ DOMAIN call' = CallFields /\ call'.at \in {"rank", "loop"} /\ call'.cut = c.cut
        /\ call'.exhausted = c.exhausted /\ call'.stopped = c.stopped /\ call'.mode = c.mode
    BY <2>2, <2>3 DEF CallFields
  <2> QED
    BY <2>1, <2>2, <2>4, ToldKept
<1>9. CASE Pack
  <2> DEFINE c(ordered) == [call EXCEPT !.bundle = ordered, !.seen = NoHits, !.plan = <<>>,
                              !.step = 1, !.hops = 0,
                              !.at = IF call.mode = "agentic" /\ call.synth
                                     THEN "synthesize" ELSE "record"]
  <2>1. PICK ordered : call' = c(ordered)
    BY <1>9 DEF Pack, Continue
  <2>2. /\ DOMAIN c(ordered) = CallFields /\ c(ordered).at \in {"synthesize", "record"}
        /\ c(ordered).cut = call.cut
        /\ c(ordered).exhausted = call.exhausted /\ c(ordered).stopped = call.stopped
        /\ c(ordered).mode = call.mode
    BY <1>0 DEF CallFields
  <2> HIDE DEF c
  <2> QED
    BY <2>1, <2>2, ToldKept
<1>10. CASE Synthesize
  <2> DEFINE skipped == [call EXCEPT !.at = "record", !.exhausted = TRUE, !.cut = TRUE]
             answered(e, t) == [Used(call, e, t) EXCEPT !.at = "record", !.answered = TRUE]
             failed(e) == [call EXCEPT !.at = "record", !.elapsed = e]
  <2>1. \/ call' = skipped
        \/ \E e, t : call' = answered(e, t)
        \/ \E e : call' = failed(e)
    BY <1>10 DEF Synthesize, Continue
  <2>2. CASE call' = skipped
    <3>1. /\ DOMAIN skipped = CallFields /\ skipped.at = "record" /\ skipped.exhausted = TRUE
          /\ skipped.cut = TRUE
      BY <1>0 DEF CallFields
    <3> HIDE DEF skipped
    <3> QED
      BY <2>2, <3>1 DEF Told
  <2>3. ASSUME NEW e, NEW t, call' = answered(e, t) PROVE Told(call')
    <3>1. /\ DOMAIN answered(e, t) = CallFields /\ answered(e, t).at = "record"
          /\ answered(e, t).cut = call.cut /\ answered(e, t).exhausted = call.exhausted
          /\ answered(e, t).stopped = call.stopped /\ answered(e, t).mode = call.mode
      BY <1>0 DEF CallFields, Used
    <3> HIDE DEF answered
    <3> QED
      BY <2>3, <3>1, ToldKept
  <2>4. ASSUME NEW e, call' = failed(e) PROVE Told(call')
    <3>1. /\ DOMAIN failed(e) = CallFields /\ failed(e).at = "record"
          /\ failed(e).cut = call.cut /\ failed(e).exhausted = call.exhausted
          /\ failed(e).stopped = call.stopped /\ failed(e).mode = call.mode
      BY <1>0 DEF CallFields
    <3> HIDE DEF failed
    <3> QED
      BY <2>4, <3>1, ToldKept
  <2> QED
    BY <2>1, <2>2, <2>3, <2>4
<1>11. CASE Record
  <2> DEFINE c == [call EXCEPT !.at = "done", !.exhausted = @ \/ call.stopped = "budget_exhausted"]
  <2>1. call' = c
    BY <1>11 DEF Record
  <2>2. /\ DOMAIN c = CallFields /\ c.at = "done" /\ c.cut = call.cut
        /\ c.exhausted = (call.exhausted \/ call.stopped = "budget_exhausted")
        /\ c.stopped = call.stopped /\ c.mode = call.mode
    BY <1>0 DEF CallFields
  <2> HIDE DEF c
  <2> QED
    BY <2>1, <2>2 DEF Told
<1>12. CASE Fail
  BY <1>12, ToldFirst DEF Fail, Continue
<1>13. CASE UNCHANGED call
  BY <1>13
<1>14. ASSUME NEW synth \in BOOLEAN, NEW planner \in BOOLEAN, NEW b \in Budgets,
              Recall(synth, b[1], b[2], planner)
       PROVE  Told(call')
  BY <1>2, <1>14
<1>15. \/ \E synth, planner \in BOOLEAN, b \in Budgets : Recall(synth, b[1], b[2], planner)
       \/ Search \/ SearchAttachments \/ Planned \/ Rank \/ RankText \/ Fetch \/ LoopEnd \/ Hop
       \/ Pack \/ Synthesize \/ Record \/ Fail
       \/ UNCHANGED call
  BY DEF RetrievalNext, retrievalVars, Decide
<1> QED
  BY <1>1, <1>2, <1>3, <1>4, <1>5, <1>6, <1>7, <1>8, <1>9, <1>10, <1>11, <1>12, <1>13, <1>14, <1>15

(* TruncationTold: a call a cap cut short says so, by budget_exhausted or  *)
(* by its mode, and no other says it (RecallBudget, AgentLoop.run,         *)
(* recall).                                                                *)
THEOREM CutsAreTold == RetrievalSpec => []TruncationTold
<1>1. RetrievalInit => CapTold
  BY ToldFirst DEF RetrievalInit, CapTold
<1>2. CapTold /\ [RetrievalNext]_retrievalVars => CapTold'
  BY ToldStep DEF CapTold
<1>3. CapTold => TruncationTold
  BY DEF CapTold, Told, TruncationTold, Answered
<1> QED
  BY <1>1, <1>2, <1>3, PTL DEF RetrievalSpec

-----------------------------------------------------------------------------
(* The wiring of a harness.                                                *)

FileText == [there : BOOLEAN, shape : {"blank", "object", "odd", "broken"}, own : Nat,
             tidy : BOOLEAN, key : Nat, via : {"", "sse", "stdio"}, hook : BOOLEAN]
FileWork == [at : {"project", "key", "config", "hook", "backup", "truncate", "write"},
             harness : Harnesses, path : ConfigFiles, hooks : BOOLEAN, key : Nat, text : FileText]
CanaryWork == [at : {"lookup", "insert", "delete"}, memory : Nat]
Work == {Off} \cup FileWork \cup CanaryWork

WiringTyped ==
  /\ disk \in [ConfigFiles -> FileText] /\ spare \in [ConfigFiles -> FileText]
  /\ wire \in [Commands -> Work]
  /\ keys \in Nat /\ canary \in [made : Nat, live : SUBSET Nat]
  /\ mine \in [ConfigFiles -> Nat] /\ torn \subseteq ConfigFiles /\ spoiled \subseteq ConfigFiles
  /\ cut \in BOOLEAN

InFile == {"backup", "truncate", "write"}

(* A file that was never there has nothing of the user's in it.            *)
Absent == \A p \in ConfigFiles : ~disk[p].there => disk[p].own = 0 /\ spare[p].own = 0 /\ mine[p] = 0

(* A file no two commands met in is in the hand of one.                    *)
OneInHand ==
  \A c, d \in Commands :
    (wire[c].at \in InFile /\ wire[d].at \in InFile /\ wire[c].path = wire[d].path
     /\ wire[c].path \notin spoiled)
    => c = d

(* What a command will write has the user's settings in it, unless it was  *)
(* merged into a torn file; once the copy was made there is one.           *)
HeldText ==
  \A c \in Commands : wire[c].at \in InFile =>
    /\ wire[c].text.there
    /\ wire[c].path \notin spoiled \cup torn => wire[c].text.own = mine[wire[c].path]
Spared ==
  \A c \in Commands :
    wire[c].at \in {"truncate", "write"} /\ wire[c].path \notin spoiled
    => wire[c].path \notin torn /\ spare[wire[c].path].own = mine[wire[c].path]

FilesInv == Absent /\ OneInHand /\ HeldText /\ Spared /\ SettingsKept
WiringInv == WiringTyped /\ FilesInv /\ CanaryGone

LEMMA MissingText == Missing \in FileText /\ Truncated \in FileText /\ Truncated.there
                     /\ ~Missing.there /\ Missing.own = 0
  BY DEF Missing, Truncated, FileText

LEMMA HookIsFile == HookPath \in ConfigFiles
  BY DEF ConfigFiles

LEMMA WorkKinds ==
  ASSUME NEW w \in Work
  PROVE  /\ w.at \in {"project", "key", "config", "hook"} \cup InFile => w \in FileWork
         /\ w.at \in {"lookup", "insert", "delete"} => w \in CanaryWork
         /\ w.at = "off" => w = Off
         /\ w = Off => w.at = "off"
  BY DEF Work, FileWork, CanaryWork, Off, InFile

LEMMA Moved ==
  ASSUME WiringTyped, NEW c \in Commands, NEW r, wire' = [wire EXCEPT ![c] = r]
  PROVE  /\ wire'[c] = r /\ \A d \in Commands : d # c => wire'[d] = wire[d]
         /\ r \in Work => wire' \in [Commands -> Work]
  BY DEF WiringTyped

LEMMA GoneTo ==
  ASSUME WiringTyped, NEW c \in Commands, NEW at, GoTo(c, at),
         \/ at \in {"key", "truncate", "write"} /\ wire[c] \in FileWork
         \/ at = "delete" /\ wire[c] \in CanaryWork
  PROVE  \E r \in Work : /\ wire' = [wire EXCEPT ![c] = r] /\ r.at = at
                         /\ wire[c] \in FileWork => r \in FileWork /\ r.path = wire[c].path
                                                    /\ r.text = wire[c].text
                         /\ wire[c] \in CanaryWork => r.memory = wire[c].memory
<1> DEFINE r == [wire[c] EXCEPT !.at = at]
<1>1. wire' = [wire EXCEPT ![c] = r]
  BY DEF GoTo
<1>2. CASE at \in {"key", "truncate", "write"} /\ wire[c] \in FileWork
  <2>1. r \in FileWork /\ r.at = at /\ r.path = wire[c].path /\ r.text = wire[c].text
    BY <1>2 DEF FileWork
  <2>2. wire[c] \notin CanaryWork
    BY <1>2 DEF FileWork, CanaryWork
  <2> QED
    BY <1>1, <2>1, <2>2 DEF Work
<1>3. CASE at = "delete" /\ wire[c] \in CanaryWork
  <2>1. r \in CanaryWork /\ r.at = at /\ r.memory = wire[c].memory
    BY <1>3 DEF CanaryWork
  <2>2. wire[c] \notin FileWork
    BY <1>3 DEF FileWork, CanaryWork
  <2> QED
    BY <1>1, <2>1, <2>2 DEF Work
<1> QED
  BY <1>2, <1>3

LEMMA NextFiled ==
  ASSUME WiringTyped, NEW c \in Commands, wire[c] \in FileWork, NextFile(c)
  PROVE  \E r \in Work : wire' = [wire EXCEPT ![c] = r] /\ r.at \in {"hook", "lookup"}
<1>1. CASE wire[c].hooks /\ wire[c].path # HookPath
  <2> DEFINE r == [wire[c] EXCEPT !.at = "hook", !.text = Missing]
  <2>1. r \in FileWork /\ r.at = "hook"
    BY MissingText DEF FileWork
  <2>2. wire' = [wire EXCEPT ![c] = r]
    BY <1>1 DEF NextFile
  <2> QED
    BY <2>1, <2>2 DEF Work
<1>2. CASE ~(wire[c].hooks /\ wire[c].path # HookPath)
  <2> DEFINE r == [at |-> "lookup", memory |-> 0]
  <2>1. r \in CanaryWork /\ r.at = "lookup"
    BY DEF CanaryWork
  <2>2. wire' = [wire EXCEPT ![c] = r]
    BY <1>2 DEF NextFile
  <2> QED
    BY <2>1, <2>2 DEF Work
<1> QED
  BY <1>1, <1>2

-----------------------------------------------------------------------------
(* What the steps do to the files.                                         *)

(* A command that goes on, or ends, with no file in hand.                  *)
LEMMA FilesQuiet ==
  ASSUME WiringTyped, FilesInv, NEW c \in Commands, NEW r,
         wire' = [wire EXCEPT ![c] = r], r.at \notin InFile, wire[c].at # "write",
         spoiled \subseteq spoiled', UNCHANGED <<disk, spare, mine, torn>>
  PROVE  FilesInv'
<1>1. /\ wire'[c] = r /\ \A d \in Commands : d # c => wire'[d] = wire[d]
  BY Moved
<1>2. \A d \in Commands : wire'[d].at \in InFile => d # c /\ wire'[d] = wire[d]
  BY <1>1
<1>3. Absent' /\ OneInHand' /\ HeldText' /\ Spared'
  BY <1>2 DEF FilesInv, Absent, OneInHand, HeldText, Spared, InFile
<1>4. \A p \in ConfigFiles : (\E d \in Commands : wire'[d].at = "write" /\ wire'[d].path = p)
                             <=> (\E d \in Commands : wire[d].at = "write" /\ wire[d].path = p)
  BY <1>1 DEF InFile
<1>5. SettingsKept'
  BY <1>4 DEF FilesInv, SettingsKept
<1> QED
  BY <1>3, <1>5 DEF FilesInv

(* A command takes p in hand.                                              *)
LEMMA FilesRead ==
  ASSUME WiringTyped, FilesInv, NEW c \in Commands, NEW p \in ConfigFiles, NEW r \in FileWork,
         wire' = [wire EXCEPT ![c] = r], wire[c].at \notin InFile,
         r.at = "backup", r.path = p, r.text.there, r.text.own = disk[p].own,
         spoiled' = Disturbed(p, c), UNCHANGED <<disk, spare, mine, torn>>
  PROVE  FilesInv'
<1>1. /\ wire'[c] = r /\ \A d \in Commands : d # c => wire'[d] = wire[d]
  BY Moved
<1>2. /\ spoiled \subseteq spoiled'
      /\ p \notin spoiled' => \A d \in Commands \ {c} : ~(wire[d].at \in InFile /\ wire[d].path = p)
  BY DEF Disturbed, InHand, InFile
<1>3. Absent' /\ OneInHand' /\ Spared'
  BY <1>1, <1>2 DEF FilesInv, Absent, OneInHand, Spared, InFile
<1>4. \A q \in ConfigFiles : (\E d \in Commands : wire'[d].at = "write" /\ wire'[d].path = q)
                             <=> (\E d \in Commands : wire[d].at = "write" /\ wire[d].path = q)
  BY <1>1 DEF InFile
<1>5. SettingsKept'
  BY <1>2, <1>4 DEF FilesInv, SettingsKept
<1>6. p \notin spoiled' \cup torn' => r.text.own = mine[p]
  <2>1. p \notin spoiled' => ~\E d \in Commands : wire[d].at = "write" /\ wire[d].path = p
    BY <1>2 DEF InFile
  <2> QED
    BY <1>2, <2>1 DEF FilesInv, SettingsKept
<1>7. HeldText'
  BY <1>1, <1>2, <1>6 DEF FilesInv, HeldText
<1> QED
  BY <1>3, <1>5, <1>7 DEF FilesInv

(* A command that has p in hand goes on with it, or lays it down.          *)
LEMMA FilesBackup ==
  ASSUME WiringTyped, FilesInv, NEW c \in Commands, Backup(c)
  PROVE  FilesInv' /\ \E r \in Work : wire' = [wire EXCEPT ![c] = r]
<1> DEFINE p == wire[c].path
<1>1. wire[c] \in FileWork /\ wire[c].at = "backup" /\ p \in ConfigFiles
  <2>1. wire[c].at = "backup" /\ wire[c] \in Work
    BY DEF Backup, WiringTyped
  <2>2. wire[c] \in FileWork
    BY <2>1, WorkKinds DEF InFile
  <2> QED
    BY <2>1, <2>2 DEF FileWork
<1>2. UNCHANGED <<disk, mine, torn>> /\ spoiled \subseteq spoiled' /\ (p \notin spoiled' => p \notin torn)
  BY DEF Backup
<1>3. p \notin spoiled' => disk[p].own = mine[p]
  <2>1. p \notin spoiled' => ~\E d \in Commands : wire[d].at = "write" /\ wire[d].path = p
    BY <1>1, <1>2 DEF FilesInv, OneInHand, InFile
  <2> QED
    BY <1>1, <1>2, <2>1 DEF FilesInv, SettingsKept
<1>4. CASE disk[p] = wire[c].text
  <2>1. PICK r \in Work : wire' = [wire EXCEPT ![c] = r] /\ r.at \in {"hook", "lookup"}
    BY <1>1, <1>4, NextFiled DEF Backup
  <2>2. spare' = spare
    BY <1>4 DEF Backup
  <2>3. /\ wire'[c] = r /\ \A d \in Commands : d # c => wire'[d] = wire[d]
    BY <2>1, Moved
  <2>4. \A d \in Commands : wire'[d].at \in InFile => d # c /\ wire'[d] = wire[d]
    BY <2>1, <2>3 DEF InFile
  <2>5. Absent' /\ OneInHand' /\ HeldText' /\ Spared'
    BY <1>2, <2>2, <2>4 DEF FilesInv, Absent, OneInHand, HeldText, Spared, InFile
  <2>6. \A q \in ConfigFiles : (\E d \in Commands : wire'[d].at = "write" /\ wire'[d].path = q)
                               <=> (\E d \in Commands : wire[d].at = "write" /\ wire[d].path = q)
    BY <1>1, <2>1, <2>3
  <2>7. SettingsKept'
    BY <1>2, <2>2, <2>6 DEF FilesInv, SettingsKept
  <2> QED
    BY <2>1, <2>5, <2>7 DEF FilesInv
<1>5. CASE disk[p] # wire[c].text
  <2>1. PICK r \in Work : /\ wire' = [wire EXCEPT ![c] = r] /\ r.at = "truncate"
                          /\ r \in FileWork /\ r.path = p /\ r.text = wire[c].text
    <3>1. GoTo(c, "truncate")
      BY <1>5 DEF Backup
    <3> QED
      BY <1>1, <3>1, GoneTo
  <2>2. spare' = IF disk[p].there THEN [spare EXCEPT ![p] = disk[p]] ELSE spare
    BY <1>5 DEF Backup
  <2>3. /\ wire'[c] = r /\ \A d \in Commands : d # c => wire'[d] = wire[d]
    BY <2>1, Moved
  <2>4. /\ p \notin spoiled' => spare'[p].own = mine[p]
        /\ \A q \in ConfigFiles : q # p => spare'[q] = spare[q]
        /\ ~disk[p].there => spare' = spare
    BY <1>1, <1>3, <2>2 DEF FilesInv, Absent, WiringTyped
  <2>5. \A d \in Commands : wire[d].at \in InFile /\ wire[d].path = p /\ p \notin spoiled' => d = c
    BY <1>1, <1>2 DEF FilesInv, OneInHand, InFile
  <2>6. Absent'
    BY <1>2, <2>4 DEF FilesInv, Absent
  <2>7. OneInHand' /\ HeldText'
    <3>1. \A d \in Commands : wire'[d].at \in InFile =>
            /\ wire[d].at \in InFile /\ wire'[d].path = wire[d].path /\ wire'[d].text = wire[d].text
      BY <1>1, <2>1, <2>3 DEF InFile
    <3>2. OneInHand'
      BY <1>2, <3>1 DEF FilesInv, OneInHand
    <3>3. HeldText'
      BY <1>2, <3>1 DEF FilesInv, HeldText
    <3> QED
      BY <3>2, <3>3
  <2>8. Spared'
    <3> SUFFICES ASSUME NEW d \in Commands, wire'[d].at \in {"truncate", "write"},
                        wire'[d].path \notin spoiled'
                 PROVE  wire'[d].path \notin torn /\ spare'[wire'[d].path].own = mine[wire'[d].path]
      BY <1>2 DEF Spared
    <3>1. CASE d = c
      BY <1>2, <2>1, <2>3, <2>4, <3>1
    <3>2. CASE d # c
      <4>1. wire'[d] = wire[d] /\ wire[d] \in Work /\ wire[d].at \in InFile
        BY <2>3, <3>2 DEF WiringTyped, InFile
      <4>2. wire[d].path \in ConfigFiles /\ wire[d].path # p
        BY <2>5, <3>2, <4>1, WorkKinds DEF FileWork
      <4> QED
        BY <1>2, <2>4, <4>1, <4>2 DEF FilesInv, Spared
    <3> QED
      BY <3>1, <3>2
  <2>9. SettingsKept'
    <3> SUFFICES ASSUME NEW q \in ConfigFiles, q \notin spoiled'
                 PROVE  IF q \in torn \/ \E d \in Commands : wire'[d].at = "write" /\ wire'[d].path = q
                        THEN spare'[q].own = mine[q] ELSE disk[q].own = mine[q]
      BY <1>2 DEF SettingsKept
    <3>1. (\E d \in Commands : wire'[d].at = "write" /\ wire'[d].path = q)
          <=> (\E d \in Commands : wire[d].at = "write" /\ wire[d].path = q)
      BY <1>1, <2>1, <2>3
    <3>2. q = p => spare'[q].own = mine[q] /\ disk[q].own = mine[q]
      BY <1>3, <2>4
    <3>3. q # p => spare'[q] = spare[q]
      BY <2>4
    <3> QED
      BY <1>2, <3>1, <3>2, <3>3 DEF FilesInv, SettingsKept
  <2> QED
    BY <2>1, <2>6, <2>7, <2>8, <2>9 DEF FilesInv
<1> QED
  BY <1>4, <1>5

LEMMA FilesTruncate ==
  ASSUME WiringTyped, FilesInv, NEW c \in Commands, Truncate(c)
  PROVE  FilesInv' /\ disk' \in [ConfigFiles -> FileText] /\ \E r \in Work : wire' = [wire EXCEPT ![c] = r]
<1> DEFINE p == wire[c].path
<1>1. wire[c] \in FileWork /\ wire[c].at = "truncate" /\ p \in ConfigFiles
  <2>1. wire[c].at = "truncate" /\ wire[c] \in Work
    BY DEF Truncate, WiringTyped
  <2>2. wire[c] \in FileWork
    BY <2>1, WorkKinds DEF InFile
  <2> QED
    BY <2>1, <2>2 DEF FileWork
<1>2. /\ disk' = [disk EXCEPT ![p] = Truncated] /\ spoiled' = Disturbed(p, c)
      /\ UNCHANGED <<spare, mine, torn>>
  BY DEF Truncate
<1>3. /\ spoiled \subseteq spoiled'
      /\ p \notin spoiled' => \A d \in Commands \ {c} : ~(wire[d].at \in InFile /\ wire[d].path = p)
  BY <1>2 DEF Disturbed, InHand, InFile
<1>4. PICK r \in Work : /\ wire' = [wire EXCEPT ![c] = r] /\ r.at = "write"
                        /\ r \in FileWork /\ r.path = p /\ r.text = wire[c].text
  <2>1. GoTo(c, "write")
    BY DEF Truncate
  <2> QED
    BY <1>1, <2>1, GoneTo
<1>5. /\ wire'[c] = r /\ \A d \in Commands : d # c => wire'[d] = wire[d]
  BY <1>4, Moved
<1>6. \A d \in Commands : wire'[d].at \in InFile =>
        /\ wire[d].at \in InFile /\ wire'[d].path = wire[d].path /\ wire'[d].text = wire[d].text
        /\ wire'[d].at \in {"truncate", "write"} => wire[d].at \in {"truncate", "write"}
  BY <1>1, <1>4, <1>5 DEF InFile
<1>7. disk' \in [ConfigFiles -> FileText]
      /\ (\A q \in ConfigFiles : q # p => disk'[q] = disk[q]) /\ disk'[p].there
  BY <1>1, <1>2, MissingText DEF WiringTyped
<1>8. Absent' /\ OneInHand'
  BY <1>2, <1>3, <1>6, <1>7 DEF FilesInv, Absent, OneInHand
<1>9. HeldText'
  BY <1>2, <1>3, <1>6 DEF FilesInv, HeldText
<1>10. Spared'
  BY <1>2, <1>3, <1>6 DEF FilesInv, Spared, InFile
<1>11. SettingsKept'
  <2> SUFFICES ASSUME NEW q \in ConfigFiles, q \notin spoiled'
               PROVE  IF q \in torn \/ \E d \in Commands : wire'[d].at = "write" /\ wire'[d].path = q
                      THEN spare[q].own = mine[q] ELSE disk'[q].own = mine[q]
    BY <1>2 DEF SettingsKept
  <2>1. CASE q = p
    BY <1>1, <1>3, <1>4, <1>5, <2>1 DEF FilesInv, Spared
  <2>2. CASE q # p
    <3>1. (\E d \in Commands : wire'[d].at = "write" /\ wire'[d].path = q)
          <=> (\E d \in Commands : wire[d].at = "write" /\ wire[d].path = q)
      BY <1>1, <1>4, <1>5, <2>2
    <3> QED
      BY <1>3, <1>7, <2>2, <3>1 DEF FilesInv, SettingsKept
  <2> QED
    BY <2>1, <2>2
<1> QED
  BY <1>4, <1>7, <1>8, <1>9, <1>10, <1>11 DEF FilesInv

LEMMA FilesWrite ==
  ASSUME WiringTyped, FilesInv, NEW c \in Commands, WriteText(c)
  PROVE  FilesInv' /\ disk' \in [ConfigFiles -> FileText] /\ \E r \in Work : wire' = [wire EXCEPT ![c] = r]
<1> DEFINE p == wire[c].path
<1>1. wire[c] \in FileWork /\ wire[c].at = "write" /\ p \in ConfigFiles /\ wire[c].text \in FileText
  <2>1. wire[c].at = "write" /\ wire[c] \in Work
    BY DEF WriteText, WiringTyped
  <2>2. wire[c] \in FileWork
    BY <2>1, WorkKinds DEF InFile
  <2> QED
    BY <2>1, <2>2 DEF FileWork
<1>2. /\ disk' = [disk EXCEPT ![p] = wire[c].text] /\ spoiled' = Disturbed(p, c)
      /\ UNCHANGED <<spare, mine, torn>>
  BY DEF WriteText
<1>3. /\ spoiled \subseteq spoiled'
      /\ p \notin spoiled' => \A d \in Commands \ {c} : ~(wire[d].at \in InFile /\ wire[d].path = p)
  BY <1>2 DEF Disturbed, InHand, InFile
<1>4. PICK r \in Work : wire' = [wire EXCEPT ![c] = r] /\ r.at \in {"hook", "lookup"}
  BY <1>1, NextFiled DEF WriteText
<1>5. /\ wire'[c] = r /\ \A d \in Commands : d # c => wire'[d] = wire[d]
  BY <1>4, Moved
<1>6. \A d \in Commands : wire'[d].at \in InFile => d # c /\ wire'[d] = wire[d]
  BY <1>4, <1>5 DEF InFile
<1>7. disk' \in [ConfigFiles -> FileText]
      /\ (\A q \in ConfigFiles : q # p => disk'[q] = disk[q])
      /\ disk'[p] = wire[c].text /\ disk'[p].there
  BY <1>1, <1>2 DEF WiringTyped, FilesInv, HeldText, InFile
<1>8. Absent' /\ OneInHand'
  BY <1>2, <1>3, <1>6, <1>7 DEF FilesInv, Absent, OneInHand
<1>9. HeldText'
  BY <1>2, <1>3, <1>6 DEF FilesInv, HeldText
<1>10. Spared'
  BY <1>2, <1>3, <1>6 DEF FilesInv, Spared, InFile
<1>11. SettingsKept'
  <2> SUFFICES ASSUME NEW q \in ConfigFiles, q \notin spoiled'
               PROVE  IF q \in torn \/ \E d \in Commands : wire'[d].at = "write" /\ wire'[d].path = q
                      THEN spare[q].own = mine[q] ELSE disk'[q].own = mine[q]
    BY <1>2 DEF SettingsKept
  <2>1. CASE q = p
    <3>1. p \notin torn /\ wire[c].text.own = mine[p]
      BY <1>1, <1>3, <2>1 DEF FilesInv, Spared, HeldText, InFile
    <3>2. ~\E d \in Commands : wire'[d].at = "write" /\ wire'[d].path = p
      BY <1>3, <1>6, <2>1 DEF InFile
    <3> QED
      BY <1>7, <2>1, <3>1, <3>2
  <2>2. CASE q # p
    <3>1. (\E d \in Commands : wire'[d].at = "write" /\ wire'[d].path = q)
          <=> (\E d \in Commands : wire[d].at = "write" /\ wire[d].path = q)
      BY <1>1, <1>4, <1>5, <2>2
    <3> QED
      BY <1>3, <1>7, <2>2, <3>1 DEF FilesInv, SettingsKept
  <2> QED
    BY <2>1, <2>2
<1> QED
  BY <1>4, <1>7, <1>8, <1>9, <1>10, <1>11 DEF FilesInv

(* A command that is killed while it writes leaves a torn file.            *)
LEMMA FilesKill ==
  ASSUME WiringTyped, FilesInv, NEW c \in Commands, KillInit(c)
  PROVE  FilesInv' /\ disk' \in [ConfigFiles -> FileText] /\ torn' \subseteq ConfigFiles
<1> DEFINE p == wire[c].path
<1>1. wire' = [wire EXCEPT ![c] = Off] /\ UNCHANGED <<spare, mine, spoiled>>
  BY DEF KillInit, InitEnds
<1>2. /\ wire'[c] = Off /\ \A d \in Commands : d # c => wire'[d] = wire[d]
  BY <1>1, Moved
<1>3. CASE wire[c].at # "write"
  <2>1. UNCHANGED <<disk, torn>>
    BY <1>3 DEF KillInit
  <2>2. Off.at \notin InFile
    BY DEF Off, InFile
  <2> QED
    BY <1>1, <1>3, <2>1, <2>2, FilesQuiet DEF WiringTyped
<1>4. CASE wire[c].at = "write"
  <2>1. p \in ConfigFiles
    BY <1>4, WorkKinds DEF WiringTyped, FileWork, InFile
  <2>2. PICK shape \in {"blank", "broken"} : disk' = [disk EXCEPT ![p].shape = shape]
    BY <1>4 DEF KillInit
  <2>3. torn' = torn \cup {p}
    BY <1>4 DEF KillInit
  <2>4. /\ disk' \in [ConfigFiles -> FileText]
        /\ \A q \in ConfigFiles : disk'[q].there = disk[q].there /\ disk'[q].own = disk[q].own
    <3> DEFINE x == [disk[p] EXCEPT !.shape = shape]
    <3>1. disk' = [disk EXCEPT ![p] = x] /\ disk[p] \in FileText
      BY <2>1, <2>2 DEF WiringTyped
    <3>2. x \in FileText /\ x.there = disk[p].there /\ x.own = disk[p].own
      BY <2>2, <3>1 DEF FileText
    <3> HIDE DEF x
    <3> QED
      BY <2>1, <3>1, <3>2 DEF WiringTyped
  <2>5. \A d \in Commands : wire'[d].at \in InFile => d # c /\ wire'[d] = wire[d]
    BY <1>2 DEF InFile, Off
  <2>6. \A d \in Commands : d # c /\ wire[d].at \in InFile /\ wire[d].path = p => p \in spoiled
    BY <1>4 DEF FilesInv, OneInHand, InFile
  <2>7. Absent' /\ OneInHand' /\ HeldText' /\ Spared'
    BY <1>1, <2>3, <2>4, <2>5, <2>6 DEF FilesInv, Absent, OneInHand, HeldText, Spared, InFile
  <2>8. SettingsKept'
    <3> SUFFICES ASSUME NEW q \in ConfigFiles, q \notin spoiled
                 PROVE  IF q \in torn' \/ \E d \in Commands : wire'[d].at = "write" /\ wire'[d].path = q
                        THEN spare[q].own = mine[q] ELSE disk'[q].own = mine[q]
      BY <1>1 DEF SettingsKept
    <3>1. CASE q = p
      BY <1>4, <2>3, <3>1 DEF FilesInv, SettingsKept
    <3>2. CASE q # p
      <4>1. (\E d \in Commands : wire'[d].at = "write" /\ wire'[d].path = q)
            <=> (\E d \in Commands : wire[d].at = "write" /\ wire[d].path = q)
        BY <1>2, <1>4, <3>2 DEF Off
      <4> QED
        BY <2>3, <2>4, <3>2, <4>1 DEF FilesInv, SettingsKept
    <3> QED
      BY <3>1, <3>2
  <2> QED
    BY <2>1, <2>3, <2>4, <2>7, <2>8 DEF FilesInv, WiringTyped
<1> QED
  BY <1>3, <1>4

LEMMA FilesSave ==
  ASSUME WiringTyped, FilesInv, NEW p \in ConfigFiles, NEW shape \in {"object", "odd", "broken"},
         SaveFile(p, shape)
  PROVE  FilesInv' /\ WiringTyped'
<1> DEFINE saved == Cardinality({n \in 1..SaveBudget : \E q \in ConfigFiles : mine[q] >= n})
<1>0. saved + 1 \in Nat
  <2>1. IsFiniteSet(1..SaveBudget)
    BY WiringAssumption, FS_Interval
  <2>2. IsFiniteSet({n \in 1..SaveBudget : \E q \in ConfigFiles : mine[q] >= n})
    BY <2>1, FS_Subset
  <2> QED
    BY <2>2, FS_CardinalityType
<1> DEFINE new == saved + 1
<1>1. /\ mine' = [mine EXCEPT ![p] = new]
      /\ disk' = [disk EXCEPT ![p] = [@ EXCEPT !.there = TRUE, !.shape = shape, !.own = new, !.tidy = FALSE]]
      /\ torn' = torn \ {p}
      /\ spoiled' = IF \E d \in Commands : InHand(d, p) THEN spoiled \cup {p} ELSE spoiled
      /\ UNCHANGED <<spare, wire, keys, canary, cut>>
  BY DEF SaveFile, wireCounts
<1> HIDE DEF new
<1>2. new \in Nat
  BY <1>0 DEF new
<1>3. /\ spoiled \subseteq spoiled' /\ spoiled' \subseteq ConfigFiles
      /\ p \notin spoiled' => \A d \in Commands : ~(wire[d].at \in InFile /\ wire[d].path = p)
  BY <1>1 DEF InHand, InFile, WiringTyped
<1>4. /\ disk' \in [ConfigFiles -> FileText] /\ mine' \in [ConfigFiles -> Nat]
      /\ disk'[p].there /\ disk'[p].own = new /\ mine'[p] = new
      /\ \A q \in ConfigFiles : q # p => disk'[q] = disk[q] /\ mine'[q] = mine[q]
  <2> DEFINE x == [disk[p] EXCEPT !.there = TRUE, !.shape = shape, !.own = new, !.tidy = FALSE]
  <2>1. disk[p] \in FileText /\ disk' = [disk EXCEPT ![p] = x]
    BY <1>1 DEF WiringTyped
  <2>2. x \in FileText /\ x.there /\ x.own = new
    BY <1>2, <2>1 DEF FileText
  <2> HIDE DEF x
  <2> QED
    BY <1>1, <1>2, <2>1, <2>2 DEF WiringTyped
<1>5. WiringTyped'
  BY <1>1, <1>3, <1>4 DEF WiringTyped
<1>6. Absent' /\ OneInHand'
  BY <1>1, <1>3, <1>4 DEF FilesInv, Absent, OneInHand
<1>7. \A d \in Commands : wire[d].at \in InFile => wire[d].path \in ConfigFiles
  BY WorkKinds DEF WiringTyped, FileWork
<1>8. HeldText' /\ Spared'
  BY <1>1, <1>3, <1>4, <1>7 DEF FilesInv, HeldText, Spared, InFile
<1>9. SettingsKept'
  <2> SUFFICES ASSUME NEW q \in ConfigFiles, q \notin spoiled'
               PROVE  IF q \in torn' \/ \E d \in Commands : wire[d].at = "write" /\ wire[d].path = q
                      THEN spare[q].own = mine'[q] ELSE disk'[q].own = mine'[q]
    BY <1>1 DEF SettingsKept
  <2>1. CASE q = p
    BY <1>1, <1>3, <1>4, <2>1 DEF InFile
  <2>2. CASE q # p
    BY <1>1, <1>3, <1>4, <2>2 DEF FilesInv, SettingsKept
  <2> QED
    BY <2>1, <2>2
<1> QED
  BY <1>5, <1>6, <1>8, <1>9 DEF FilesInv

-----------------------------------------------------------------------------
(* Every step.                                                             *)

LEMMA CanaryKept ==
  ASSUME WiringTyped, CanaryGone, NEW c \in Commands, NEW r, wire' = [wire EXCEPT ![c] = r],
         wire[c].at # "delete", UNCHANGED <<canary, cut>>
  PROVE  CanaryGone'
<1>1. \A d \in Commands : d # c => wire'[d] = wire[d]
  BY Moved
<1> QED
  BY <1>1 DEF CanaryGone

(* A step of a command that touches no file.                               *)
LEMMA QuietStep ==
  ASSUME WiringInv, NEW c \in Commands, NEW r \in Work, wire' = [wire EXCEPT ![c] = r],
         r.at \notin InFile, wire[c].at \notin {"write", "delete"},
         spoiled \subseteq spoiled', spoiled' \subseteq ConfigFiles,
         UNCHANGED <<disk, spare, mine, torn, canary, cut>>, keys' \in Nat
  PROVE  WiringInv'
<1>1. FilesInv' /\ CanaryGone'
  BY FilesQuiet, CanaryKept DEF WiringInv
<1>2. wire' \in [Commands -> Work]
  BY Moved DEF WiringInv
<1> QED
  BY <1>1, <1>2 DEF WiringInv, WiringTyped

LEMMA OffQuiet == Off \in Work /\ Off.at \notin InFile
  BY DEF Off, Work, InFile

LEMMA StartStep ==
  ASSUME WiringInv, NEW c \in Commands, NEW h \in Harnesses, NEW global \in Globals,
         NEW hooks \in BOOLEAN, StartInit(c, h, global, hooks)
  PROVE  WiringInv'
<1> DEFINE r == [at |-> "project", harness |-> h, path |-> ConfigPath(h, global),
                 hooks |-> hooks /\ h = "claude-code", key |-> 0, text |-> Missing]
<1>1. r \in FileWork
  <2>1. ConfigPath(h, global) \in ConfigFiles
    BY DEF ConfigFiles
  <2>2. (hooks /\ h = "claude-code") \in BOOLEAN
    OBVIOUS
  <2> QED
    BY <2>1, <2>2, MissingText DEF FileWork
<1>2. wire' = [wire EXCEPT ![c] = r] /\ wire[c] = Off
  BY DEF StartInit
<1>3. r \in Work /\ r.at \notin InFile
  BY <1>1 DEF Work, InFile
<1>4. UNCHANGED <<disk, spare, mine, torn, spoiled, keys, canary, cut>>
  BY DEF StartInit, userFiles
<1>5. wire[c].at \notin {"write", "delete"}
  BY <1>2 DEF Off
<1> HIDE DEF r
<1> QED
  BY <1>2, <1>3, <1>4, <1>5, QuietStep DEF WiringInv, WiringTyped

LEMMA ProjectStep ==
  ASSUME WiringInv, NEW c \in Commands, ResolveProject(c)
  PROVE  WiringInv'
<1>1. wire[c].at = "project" /\ wire[c] \in FileWork
  BY WorkKinds DEF ResolveProject, WiringInv, WiringTyped
<1>2. UNCHANGED <<disk, spare, mine, torn, spoiled, keys, canary, cut>>
  BY DEF ResolveProject, userFiles
<1>3. \E r \in Work : wire' = [wire EXCEPT ![c] = r] /\ r.at \notin InFile
  <2>1. CASE GoTo(c, "key")
    BY <1>1, <2>1, GoneTo DEF WiringInv, InFile
  <2>2. CASE InitEnds(c)
    BY <2>2, OffQuiet DEF InitEnds
  <2> QED
    BY <2>1, <2>2 DEF ResolveProject
<1> QED
  BY <1>1, <1>2, <1>3, QuietStep DEF WiringInv, WiringTyped

LEMMA KeyStep ==
  ASSUME WiringInv, NEW c \in Commands, ResolveKey(c)
  PROVE  WiringInv'
<1>1. wire[c].at = "key" /\ wire[c] \in FileWork
  BY WorkKinds DEF ResolveKey, WiringInv, WiringTyped
<1>2. UNCHANGED <<disk, spare, mine, torn, spoiled, canary, cut>>
  BY DEF ResolveKey, userFiles
<1>3. keys \in Nat /\ keys' \in Nat
  BY DEF ResolveKey, WiringInv, WiringTyped
<1>4. \E r \in Work : wire' = [wire EXCEPT ![c] = r] /\ r.at \notin InFile
  <2>1. ASSUME NEW k \in Nat, wire' = [wire EXCEPT ![c].at = "config", ![c].key = k]
        PROVE  \E r \in Work : wire' = [wire EXCEPT ![c] = r] /\ r.at \notin InFile
    <3> DEFINE r == [wire[c] EXCEPT !.at = "config", !.key = k]
    <3>1. r \in FileWork /\ r.at = "config"
      BY <1>1 DEF FileWork
    <3>2. wire' = [wire EXCEPT ![c] = r]
      BY <2>1 DEF WiringInv, WiringTyped
    <3> QED
      BY <3>1, <3>2 DEF Work, InFile
  <2>2. CASE InitEnds(c)
    BY <2>2, OffQuiet DEF InitEnds
  <2>3. keys + 2 \in Nat /\ ProfileKey \in Nat
    BY <1>3 DEF ProfileKey
  <2> QED
    BY <2>1, <2>2, <2>3 DEF ResolveKey
<1> QED
  BY <1>1, <1>2, <1>3, <1>4, QuietStep DEF WiringInv, WiringTyped

LEMMA ReadStep ==
  ASSUME WiringInv, NEW c \in Commands, ReadConfig(c) \/ ReadHook(c)
  PROVE  WiringInv'
<1> DEFINE p == IF wire[c].at = "config" THEN wire[c].path ELSE HookPath
<1>1. wire[c].at \in {"config", "hook"} /\ wire[c] \in FileWork /\ p \in ConfigFiles
  <2>1. wire[c].at \in {"config", "hook"} /\ wire[c] \in Work
    BY DEF ReadConfig, ReadHook, WiringInv, WiringTyped
  <2>2. wire[c] \in FileWork
    BY <2>1, WorkKinds
  <2> QED
    BY <2>1, <2>2, HookIsFile DEF FileWork
<1>2. UNCHANGED <<disk, spare, mine, torn, keys, canary, cut>> /\ spoiled' = Disturbed(p, c)
  BY DEF ReadConfig, ReadHook
<1>3. spoiled \subseteq spoiled' /\ spoiled' \subseteq ConfigFiles
  BY <1>1, <1>2 DEF Disturbed, WiringInv, WiringTyped
<1>4. disk[p] \in FileText
  BY <1>1 DEF WiringInv, WiringTyped
<1>5. CASE InitEnds(c)
  BY <1>1, <1>2, <1>3, <1>5, OffQuiet, QuietStep DEF InitEnds, WiringInv, WiringTyped
<1>6. ASSUME NEW x \in FileText, x.there, x.own = disk[p].own,
             wire' = [wire EXCEPT ![c] = [wire[c] EXCEPT !.at = "backup", !.path = p, !.text = x]]
      PROVE  WiringInv'
  <2> DEFINE r == [wire[c] EXCEPT !.at = "backup", !.path = p, !.text = x]
  <2>1. r \in FileWork /\ r.at = "backup" /\ r.path = p /\ r.text = x
    BY <1>1, <1>6 DEF FileWork
  <2>2. wire' = [wire EXCEPT ![c] = r]
    BY <1>6
  <2> HIDE DEF r
  <2>3. FilesInv'
    BY <1>1, <1>2, <1>6, <2>1, <2>2, FilesRead DEF WiringInv, InFile
  <2>4. CanaryGone'
    BY <1>1, <1>2, <2>2, CanaryKept DEF WiringInv
  <2>5. wire' \in [Commands -> Work]
    BY <2>1, <2>2, Moved DEF WiringInv, Work
  <2> QED
    BY <1>2, <1>3, <2>3, <2>4, <2>5 DEF WiringInv, WiringTyped
<1>7. CASE ReadConfig(c) /\ ~InitEnds(c)
  <2>1. PICK alive \in Probes :
          wire' = [wire EXCEPT ![c].at = "backup",
                               ![c].text = MergeEntry(wire[c], disk[wire[c].path],
                                                      Transport(wire[c].harness, alive))]
    BY <1>7 DEF ReadConfig
  <2> DEFINE x == MergeEntry(wire[c], disk[p], Transport(wire[c].harness, alive))
  <2>2. wire[c].at = "config" /\ p = wire[c].path
    BY <1>7 DEF ReadConfig
  <2>3. x \in FileText /\ x.there /\ x.own = disk[p].own
    BY <1>1, <1>4 DEF MergeEntry, Transport, FileText, FileWork
  <2> HIDE DEF x
  <2>4. wire' = [wire EXCEPT ![c] = [wire[c] EXCEPT !.at = "backup", !.path = p, !.text = x]]
    <3>1. [wire[c] EXCEPT !.at = "backup", !.text = x]
          = [wire[c] EXCEPT !.at = "backup", !.path = p, !.text = x]
      BY <1>1, <2>2 DEF FileWork
    <3>2. wire' = [wire EXCEPT ![c] = [wire[c] EXCEPT !.at = "backup", !.text = x]]
      BY <2>1, <2>2 DEF x, WiringInv, WiringTyped
    <3> QED
      BY <3>1, <3>2
  <2> QED
    BY <1>6, <2>3, <2>4
<1>8. CASE ReadHook(c) /\ ~InitEnds(c)
  <2> DEFINE x == MergeHook(disk[p])
  <2>1. p = HookPath
    BY <1>8 DEF ReadHook
  <2>2. x \in FileText /\ x.there /\ x.own = disk[p].own
    BY <1>4 DEF MergeHook, FileText
  <2>3. wire' = [wire EXCEPT ![c].at = "backup", ![c].path = HookPath, ![c].text = MergeHook(disk[HookPath])]
    BY <1>8 DEF ReadHook
  <2> HIDE DEF x
  <2>4. wire' = [wire EXCEPT ![c] = [wire[c] EXCEPT !.at = "backup", !.path = p, !.text = x]]
    BY <2>1, <2>3 DEF x, WiringInv, WiringTyped
  <2> QED
    BY <1>6, <2>2, <2>4
<1> QED
  BY <1>5, <1>7, <1>8

LEMMA WriteStep ==
  ASSUME WiringInv, NEW c \in Commands, Backup(c) \/ Truncate(c) \/ WriteText(c)
  PROVE  WiringInv'
<1>1. FilesInv' /\ \E r \in Work : wire' = [wire EXCEPT ![c] = r]
  BY FilesBackup, FilesTruncate, FilesWrite DEF WiringInv
<1>2. disk' \in [ConfigFiles -> FileText]
  BY FilesTruncate, FilesWrite DEF WiringInv, WiringTyped, Backup
<1>3. wire[c].at \in InFile /\ wire[c].path \in ConfigFiles
  <2>1. wire[c].at \in InFile
    BY DEF Backup, Truncate, WriteText, InFile
  <2> QED
    BY <2>1, WorkKinds DEF WiringInv, WiringTyped, FileWork
<1>4. UNCHANGED <<mine, torn, keys, canary, cut>> /\ spoiled' \subseteq ConfigFiles
  BY <1>3 DEF Backup, Truncate, WriteText, Disturbed, WiringInv, WiringTyped
<1>5. spare' \in [ConfigFiles -> FileText]
  BY <1>3 DEF Backup, Truncate, WriteText, WiringInv, WiringTyped
<1>6. CanaryGone'
  BY <1>1, <1>3, <1>4, CanaryKept DEF WiringInv, InFile
<1>7. wire' \in [Commands -> Work]
  BY <1>1, Moved DEF WiringInv
<1> QED
  BY <1>1, <1>2, <1>4, <1>5, <1>6, <1>7 DEF WiringInv, WiringTyped

LEMMA CanaryStep ==
  ASSUME WiringInv, NEW c \in Commands, LookUpCanary(c) \/ InsertCanary(c) \/ DeleteCanary(c)
  PROVE  WiringInv'
<1>0. UNCHANGED <<disk, spare, mine, torn, spoiled, keys, cut>>
  BY DEF LookUpCanary, InsertCanary, DeleteCanary, userFiles
<1>1. wire[c].at \in {"lookup", "insert", "delete"} /\ wire[c] \in CanaryWork
  <2>1. wire[c].at \in {"lookup", "insert", "delete"}
    BY DEF LookUpCanary, InsertCanary, DeleteCanary
  <2> QED
    BY <2>1, WorkKinds DEF WiringInv, WiringTyped
<1>2. canary \in [made : Nat, live : SUBSET Nat]
  BY DEF WiringInv, WiringTyped
<1>3. CASE LookUpCanary(c)
  <2>1. \E r \in Work : wire' = [wire EXCEPT ![c] = r] /\ r.at \notin InFile
    <3>1. ASSUME NEW m \in Nat, wire' = [wire EXCEPT ![c] = [at |-> "insert", memory |-> m]]
          PROVE  \E r \in Work : wire' = [wire EXCEPT ![c] = r] /\ r.at \notin InFile
      <4> DEFINE r == [at |-> "insert", memory |-> m]
      <4>1. r \in CanaryWork /\ r.at \notin InFile
        BY DEF CanaryWork, InFile
      <4> HIDE DEF r
      <4>2. r \in Work
        BY <4>1 DEF Work
      <4> QED
        BY <3>1, <4>1, <4>2 DEF r
    <3>2. CASE InitEnds(c)
      BY <3>2, OffQuiet DEF InitEnds
    <3>3. CASE ~InitEnds(c)
      <4>1. PICK m \in (IF canary.live = {} THEN {0} ELSE canary.live) :
              wire' = [wire EXCEPT ![c] = [at |-> "insert", memory |-> m]]
        BY <1>3, <3>3 DEF LookUpCanary
      <4>2. m \in Nat
        BY <1>2
      <4> QED
        BY <3>1, <4>1, <4>2
    <3> QED
      BY <3>2, <3>3
  <2>2. wire[c].at = "lookup" /\ canary' = canary
    BY <1>3 DEF LookUpCanary
  <2> QED
    BY <1>0, <2>1, <2>2, QuietStep DEF WiringInv, WiringTyped
<1>4. CASE InsertCanary(c)
  <2>1. PICK r \in CanaryWork :
          /\ wire' = [wire EXCEPT ![c] = r] /\ r.at = "delete"
          /\ canary' \in [made : Nat, live : SUBSET Nat]
          /\ canary'.live \subseteq canary.live \cup {r.memory}
    <3>0. canary.made + 1 \in Nat /\ canary.live \cup {canary.made + 1} \subseteq Nat
      BY <1>2
    <3>1. CASE wire[c].memory = 0
      <4> DEFINE r == [at |-> "delete", memory |-> canary.made + 1]
      <4>1. r \in CanaryWork
        BY <1>2 DEF CanaryWork
      <4>2. /\ wire' = [wire EXCEPT ![c] = r]
            /\ canary' = [made |-> canary.made + 1, live |-> canary.live \cup {canary.made + 1}]
        BY <1>4, <3>1 DEF InsertCanary
      <4>3. r.at = "delete" /\ r.memory = canary.made + 1
        OBVIOUS
      <4> HIDE DEF r
      <4>4. /\ canary' \in [made : Nat, live : SUBSET Nat]
            /\ canary'.live = canary.live \cup {canary.made + 1}
        BY <3>0, <4>2
      <4> QED
        BY <4>1, <4>2, <4>3, <4>4
    <3>2. CASE wire[c].memory # 0
      <4>1. GoTo(c, "delete") /\ canary' = canary
        BY <1>4, <3>2 DEF InsertCanary
      <4> DEFINE r == [wire[c] EXCEPT !.at = "delete"]
      <4>2. r \in CanaryWork /\ r.at = "delete"
        BY <1>1 DEF CanaryWork
      <4>3. wire' = [wire EXCEPT ![c] = r]
        BY <4>1 DEF GoTo
      <4> QED
        BY <1>2, <4>1, <4>2, <4>3
    <3> QED
      BY <3>1, <3>2
  <2>2. wire'[c] = r /\ \A d \in Commands : d # c => wire'[d] = wire[d]
    BY <2>1, Moved DEF WiringInv
  <2>3. wire' \in [Commands -> Work]
    BY <2>1, Moved DEF WiringInv, Work
  <2>4. wire[c].at = "insert"
    BY <1>4 DEF InsertCanary
  <2>5. CanaryGone'
    BY <1>0, <2>1, <2>2, <2>4 DEF WiringInv, CanaryGone
  <2>6. FilesInv'
    BY <1>0, <2>1, <2>4, FilesQuiet DEF WiringInv, InFile
  <2> QED
    BY <1>0, <2>1, <2>3, <2>5, <2>6 DEF WiringInv, WiringTyped
<1>5. CASE DeleteCanary(c)
  <2>1. wire' = [wire EXCEPT ![c] = Off] /\ wire[c].at = "delete"
        /\ canary' = [canary EXCEPT !.live = @ \ {wire[c].memory}]
    BY <1>5 DEF DeleteCanary, InitEnds
  <2>2. \A d \in Commands : d # c => wire'[d] = wire[d]
    BY <2>1, Moved DEF WiringInv
  <2>3. /\ canary' \in [made : Nat, live : SUBSET Nat]
        /\ canary'.live = canary.live \ {wire[c].memory}
    BY <1>2, <2>1
  <2>4. CanaryGone'
    BY <1>0, <2>2, <2>3 DEF WiringInv, CanaryGone
  <2>5. FilesInv'
    BY <1>0, <2>1, FilesQuiet, OffQuiet DEF WiringInv
  <2>6. wire' \in [Commands -> Work]
    BY <2>1, Moved, OffQuiet DEF WiringInv
  <2> QED
    BY <1>0, <2>3, <2>4, <2>5, <2>6 DEF WiringInv, WiringTyped
<1> QED
  BY <1>3, <1>4, <1>5

LEMMA KillStep ==
  ASSUME WiringInv, NEW c \in Commands, KillInit(c)
  PROVE  WiringInv'
<1>1. FilesInv' /\ disk' \in [ConfigFiles -> FileText] /\ torn' \subseteq ConfigFiles
  BY FilesKill DEF WiringInv
<1>2. /\ wire' = [wire EXCEPT ![c] = Off] /\ cut' = (cut \/ wire[c].at \in {"insert", "delete"})
      /\ UNCHANGED <<spare, mine, spoiled, keys, canary>>
  BY DEF KillInit, InitEnds
<1>3. \A d \in Commands : d # c => wire'[d] = wire[d]
  BY <1>2, Moved DEF WiringInv
<1>4. CanaryGone'
  BY <1>2, <1>3 DEF WiringInv, CanaryGone
<1>5. wire' \in [Commands -> Work] /\ cut' \in BOOLEAN
  BY <1>2, Moved, OffQuiet DEF WiringInv
<1> QED
  BY <1>1, <1>2, <1>4, <1>5 DEF WiringInv, WiringTyped

LEMMA SaveStep ==
  ASSUME WiringInv, NEW p \in ConfigFiles, NEW shape \in {"object", "odd", "broken"},
         SaveFile(p, shape)
  PROVE  WiringInv'
<1>1. FilesInv' /\ WiringTyped'
  BY FilesSave DEF WiringInv
<1>2. UNCHANGED <<wire, canary, cut>>
  BY DEF SaveFile
<1>3. CanaryGone'
  BY <1>2 DEF WiringInv, CanaryGone
<1> QED
  BY <1>1, <1>3 DEF WiringInv

LEMMA InitWiring == WiringInit => WiringInv
<1> SUFFICES ASSUME WiringInit PROVE WiringInv
  OBVIOUS
<1>1. WiringTyped
  BY MissingText, OffQuiet DEF WiringInit, WiringTyped
<1>2. \A c \in Commands : wire[c].at \notin InFile
  BY OffQuiet DEF WiringInit
<1>3. Absent /\ SettingsKept
  BY <1>2, MissingText DEF WiringInit, Absent, SettingsKept, InFile
<1>4. OneInHand /\ HeldText /\ Spared
  BY <1>2 DEF OneInHand, HeldText, Spared, InFile
<1>5. CanaryGone
  BY DEF WiringInit, CanaryGone
<1> QED
  BY <1>1, <1>3, <1>4, <1>5 DEF WiringInv, FilesInv

LEMMA WiringStep == WiringInv /\ [WiringNext]_wiringVars => WiringInv'
<1> SUFFICES ASSUME WiringInv, [WiringNext]_wiringVars PROVE WiringInv'
  OBVIOUS
<1>1. CASE UNCHANGED wiringVars
  BY <1>1 DEF wiringVars, WiringInv, WiringTyped, FilesInv, Absent, OneInHand, HeldText, Spared,
              SettingsKept, CanaryGone
<1>2. CASE WiringNext
  BY <1>2, StartStep, ProjectStep, KeyStep, ReadStep, WriteStep, CanaryStep, KillStep, SaveStep
  DEF WiringNext
<1> QED
  BY <1>1, <1>2

(* RerunSafe: the user's settings are in the file, or in its copy while it *)
(* is written (write_merged), and the canary is deleted by the command     *)
(* that made or found it (_canary), however many commands run and are      *)
(* killed.                                                                 *)
THEOREM RerunsAreSafe == WiringSpec => []RerunSafe
<1>1. WiringInv => RerunSafe
  BY DEF WiringInv, FilesInv, RerunSafe
<1> QED
  BY <1>1, InitWiring, WiringStep, PTL DEF WiringSpec
=============================================================================
