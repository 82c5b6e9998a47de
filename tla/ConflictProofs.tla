---------------------------- MODULE ConflictProofs ----------------------------
(***************************************************************************)
(* Conflict detection: for any memories, organisations, ticks, batches,    *)
(* quotas and faults.                                                      *)
(*                                                                         *)
(* That of two judged memories one was shown for the other is inductive    *)
(* only together with what ticks have not committed yet: it is stated for  *)
(* a committed judgement and a tick's, and for two ticks', which may be    *)
(* one (PairsMixed, PairsTaken).  A memory is shown every other one that a *)
(* search can find as long as the limit on candidates does not bite        *)
(* (AllShown), and a memory that is judged or being judged can be found    *)
(* unless somebody held or edited it (Settled).  Links rest on             *)
(* judgements that were committed with them (Backed, TickBacked).          *)
(***************************************************************************)
EXTENDS ConflictLinks, TLAPS, FiniteSetTheorems, SequenceTheorems, WellFoundedInduction

-----------------------------------------------------------------------------
(* A finite set of memories has a newest one: take a smallest set that has *)
(* none, and one element out of it.                                        *)
LEMMA NewestOf ==
  ASSUME NEW S \in SUBSET Nat, IsFiniteSet(S), S # {}
  PROVE  Max(S) \in S
<1> DEFINE Has(A) == \E x \in A : \A y \in A : x >= y
           Bad == {n \in Nat : \E A \in SUBSET S : A # {} /\ Cardinality(A) = n /\ ~Has(A)}
<1>1. Bad = {}
  <2> SUFFICES ASSUME Bad # {} PROVE FALSE
    OBVIOUS
  <2>1. PICK n \in Bad : \A m \in Bad : ~(<<m, n>> \in OpToRel(<, Nat))
    BY NatLessThanWellFounded, WFMin
  <2>2. \A m \in Bad : ~(m < n)
    BY <2>1 DEF OpToRel
  <2>3. PICK A \in SUBSET S : A # {} /\ Cardinality(A) = n /\ ~Has(A)
    OBVIOUS
  <2>4. IsFiniteSet(A) /\ n \in Nat
    BY FS_Subset
  <2>5. PICK x \in A : TRUE
    BY <2>3
  <2>6. IsFiniteSet(A \ {x}) /\ Cardinality(A \ {x}) = n - 1 /\ n - 1 \in Nat
    <3>1. Cardinality(A) # 0 /\ Cardinality(A) = n
      BY <2>3, <2>4, FS_EmptySet
    <3>2. IsFiniteSet(A \ {x}) /\ Cardinality(A \ {x}) = Cardinality(A) - 1
      BY <2>4, FS_RemoveElement
    <3> QED BY <2>4, <3>1, <3>2
  <2>7. CASE A \ {x} = {}
    BY <2>3, <2>7
  <2>8. CASE A \ {x} # {}
    <3>1. n - 1 \notin Bad
      BY <2>2, <2>4
    <3>2. Has(A \ {x})
      BY <3>1, <2>6, <2>8
    <3> HIDE DEF Bad
    <3>3. PICK y \in A \ {x} : \A z \in A \ {x} : y >= z
      BY <3>2
    <3>4. Has(A)
      BY <3>3
    <3> QED BY <2>3, <3>4
  <2> QED BY <2>7, <2>8
<1>2. Has(S)
  <2>1. Cardinality(S) \in Nat
    BY FS_CardinalityType
  <2> QED BY <1>1, <2>1
<1> QED BY <1>2 DEF Max

(* A sequence made of a finite set holds members of the set only.          *)
LEMMA Listed ==
  ASSUME NEW S, IsFiniteSet(S)
  PROVE  SetToSeq(S) \in Seq(S)
<1>1. Cardinality(S) \in Nat /\ ExistsBijection(1..Cardinality(S), S)
  BY FS_CardinalityType
<1>2. \E f \in [1..Cardinality(S) -> S] : IsInjective(f)
  BY <1>1 DEF ExistsBijection, Bijection, Injection
<1>3. SetToSeq(S) \in [1..Cardinality(S) -> S]
  BY <1>2 DEF SetToSeq
<1> QED BY <1>1, <1>3, SeqDef

-----------------------------------------------------------------------------
(* The types.                                                              *)
Link == Mem \X Mem \X Relation
Run == [pc : {"idle", "run"}, queue : SUBSET Mem, out : Seq(Link),
        done : SUBSET Mem, wrote : SUBSET Link, shown : SUBSET (Mem \X Mem)]

LinkTyped ==
  /\ row \in [Mem -> Row]
  /\ tick \in [Tick -> Run]
  /\ links \subseteq Link
  /\ seen \subseteq Mem \X Mem

LEMMA RunSet ==
  ASSUME NEW r \in Run
  PROVE  /\ Idle \in Run
         /\ \A q \in SUBSET Mem : [r EXCEPT !.pc = "run", !.queue = q] \in Run
         /\ \A q \in SUBSET Mem : [r EXCEPT !.queue = q] \in Run
         /\ \A q, d \in SUBSET Mem, o \in Seq(Link), s \in SUBSET (Mem \X Mem) :
              [r EXCEPT !.queue = q, !.out = o, !.done = d, !.shown = s] \in Run
         /\ \A o \in Seq(Link), k \in SUBSET Link : [r EXCEPT !.out = o, !.wrote = k] \in Run
<1>1. Idle \in Run
  BY DEF Idle, Run
<1>2. ASSUME NEW q \in SUBSET Mem PROVE [r EXCEPT !.pc = "run", !.queue = q] \in Run
  BY DEF Run
<1>3. ASSUME NEW q \in SUBSET Mem PROVE [r EXCEPT !.queue = q] \in Run
  BY DEF Run
<1>4. ASSUME NEW q \in SUBSET Mem, NEW d \in SUBSET Mem, NEW o \in Seq(Link),
             NEW s \in SUBSET (Mem \X Mem)
      PROVE  [r EXCEPT !.queue = q, !.out = o, !.done = d, !.shown = s] \in Run
  BY DEF Run
<1>5. ASSUME NEW o \in Seq(Link), NEW k \in SUBSET Link
      PROVE  [r EXCEPT !.out = o, !.wrote = k] \in Run
  BY DEF Run
<1> QED BY <1>1, <1>2, <1>3, <1>4, <1>5, Zenon

(* The links an answer stands for.                                         *)
LEMMA Answered ==
  ASSUME NEW m \in Mem, NEW near \in SUBSET Mem, NEW repeat \in BOOLEAN,
         NEW out \in Answers(m, near, repeat)
  PROVE  /\ out \in Seq(Link)
         /\ \A i \in DOMAIN out : out[i][1] = m /\ out[i][2] \in near
<1>1. PICK f \in [near -> Relation \cup {"none"}] :
        out = LET rows == SetToSeq({<<m, n, f[n]>> : n \in {x \in near : f[x] # "none"}})
              IN IF repeat /\ rows # <<>> THEN Append(rows, rows[1]) ELSE rows
  BY DEF Answers
<1> DEFINE X == {x \in near : f[x] # "none"}
           T == {<<m, n, f[n]>> : n \in X}
           rows == SetToSeq(T)
<1>2. IsFiniteSet(X)
  <2>1. X \subseteq Mem /\ IsFiniteSet(Mem)
    BY MemAssumption
  <2> HIDE DEF X
  <2> QED BY <2>1, FS_Subset
<1>3. IsFiniteSet(T)
  <2> DEFINE g == [n \in X |-> <<m, n, f[n]>>]
  <2>1. g \in Surjection(X, T)
    BY DEF Surjection
  <2> HIDE DEF X, T, g
  <2> QED BY <1>2, <2>1, FS_Surjection
<1>4. T \subseteq {m} \X near \X Relation
  OBVIOUS
<1>5. rows \in Seq(T)
  <2> HIDE DEF T
  <2> QED BY <1>3, Listed
<1>6. \A s \in Seq(T) : s # <<>> => Append(s, s[1]) \in Seq(T)
  OBVIOUS
<1>7. out = IF repeat /\ rows # <<>> THEN Append(rows, rows[1]) ELSE rows
  BY <1>1
<1> HIDE DEF rows
<1>8. out \in Seq(T)
  BY <1>5, <1>6, <1>7
<1>9. out \in Seq({m} \X near \X Relation)
  <2> HIDE DEF T
  <2>1. \A i \in 1..Len(out) : out[i] \in T
    BY <1>8
  <2>2. out \in [1..Len(out) -> {m} \X near \X Relation] /\ Len(out) \in Nat
    BY <1>4, <1>8, <2>1
  <2> QED BY <2>2, SeqDef
<1>10. \A i \in DOMAIN out : out[i] \in {m} \X near \X Relation
  BY <1>9
<1>11. out \in Seq(Link)
  <2>1. {m} \X near \X Relation \subseteq Link
    BY DEF Link
  <2>2. out \in [1..Len(out) -> Link] /\ Len(out) \in Nat
    BY <1>9, <2>1
  <2> QED BY <2>2, SeqDef
<1> QED BY <1>10, <1>11

(* With room for all of them, every eligible memory is shown.              *)
LEMMA AllShown ==
  ASSUME Cardinality(Mem) <= MaxCandidates + 1, NEW m \in Mem, NEW near \in Candidates(m)
  PROVE  near = Eligible(m)
<1>1. IsFiniteSet(Mem \ {m}) /\ Cardinality(Mem \ {m}) = Cardinality(Mem) - 1
      /\ Cardinality(Mem) \in Nat /\ MaxCandidates \in Nat
  BY MemAssumption, BoundAssumption, FS_RemoveElement, FS_CardinalityType
<1>2. Eligible(m) \in SUBSET (Mem \ {m})
  BY DEF Eligible
<1>3. IsFiniteSet(Eligible(m)) /\ Cardinality(Eligible(m)) <= Cardinality(Mem \ {m})
  BY <1>1, <1>2, FS_Subset
<1>4. Cardinality(Eligible(m)) \in Nat
  BY <1>3, FS_CardinalityType
<1>5. near \in SUBSET Eligible(m) /\ Cardinality(near) = Cardinality(Eligible(m))
  <2>1. IF Cardinality(Eligible(m)) < MaxCandidates
        THEN near \in kSubset(Cardinality(Eligible(m)), Eligible(m))
        ELSE near \in kSubset(MaxCandidates, Eligible(m))
    BY DEF Candidates
  <2> QED BY <1>1, <1>3, <1>4, <2>1 DEF kSubset
<1> QED BY <1>3, <1>5, FS_Subset

LEMMA SomeShown ==
  ASSUME NEW m \in Mem, NEW near \in Candidates(m)
  PROVE  near \in SUBSET Mem
BY DEF Candidates, kSubset, Eligible
-----------------------------------------------------------------------------
(* What ticks hold.                                                        *)

Listing(r) == {r.out[i] : i \in DOMAIN r.out}
Taken(m) == \E w \in Tick : m \in tick[w].queue \cup tick[w].done
Steady(m) == Live(m) /\ row[m].steady

(* A memory that is not there is in no batch, and one that is as it was    *)
(* written, and judged or about to be, has its vector.                     *)
Unborn == \A m \in Mem : row[m].state = "absent" => ~row[m].checked /\ ~Taken(m)
Settled ==
  \A m \in Mem : Steady(m) =>
    /\ row[m].review = "approved"
    /\ (row[m].checked \/ Taken(m)) => row[m].vec

(* Links, and the ones a tick still has to write, rest on a judgement.     *)
Backed == \A l \in links : Judged(l[1], l[2])
TickBacked ==
  \A w \in Tick : \A l \in tick[w].wrote \cup Listing(tick[w]) :
    l[1] \in tick[w].done /\ <<l[1], l[2]>> \in tick[w].shown

(* Of two memories judged, committed or not, one was shown for the other.  *)
Pair(a, b) == a # b /\ Owner[a] = Owner[b] /\ Steady(a) /\ Steady(b)
PairsKept ==
  \A a, b \in Mem : (Pair(a, b) /\ row[a].checked /\ row[b].checked)
    => (<<a, b>> \in seen \/ <<b, a>> \in seen)
PairsMixed ==
  \A a, b \in Mem, w \in Tick : (Pair(a, b) /\ row[a].checked /\ b \in tick[w].done)
    => (<<a, b>> \in seen \/ <<b, a>> \in tick[w].shown)
PairsTaken ==
  \A a, b \in Mem, v, w \in Tick :
    (Pair(a, b) /\ a \in tick[v].done /\ b \in tick[w].done)
    => (<<a, b>> \in tick[v].shown \/ <<b, a>> \in tick[w].shown)

PairInv == PairsKept /\ PairsMixed /\ PairsTaken
TickInv == LinkTyped /\ Unborn /\ Settled /\ Backed /\ TickBacked

-----------------------------------------------------------------------------
(* What users and the embedding worker do to a row.                        *)
RowMoves(m) ==
  /\ row'[m].checked = row[m].checked
  /\ row'[m].state = "absent" => row[m].state = "absent"
  /\ (row'[m].state = "live" /\ row'[m].steady) =>
       /\ row'[m].review = "approved"
       /\ \/ row[m].state = "absent"
          \/ Steady(m) /\ (row[m].vec => row'[m].vec)

LEMMA RowsMove ==
  ASSUME TickInv, UNCHANGED <<links, tick, seen>>, row' \in [Mem -> Row],
         \A m \in Mem : RowMoves(m)
  PROVE  TickInv' /\ (PairInv => PairInv')
<1>1. LinkTyped'
  BY DEF TickInv, LinkTyped
<1>2. \A m \in Mem : Taken(m)' <=> Taken(m)
  BY DEF Taken
<1>3. Unborn'
  BY <1>2 DEF TickInv, Unborn, RowMoves
<1>4. Settled'
  BY <1>2 DEF TickInv, Unborn, Settled, RowMoves, Steady, Live
<1>5. Backed' /\ TickBacked'
  BY DEF TickInv, LinkTyped, Link, Backed, TickBacked, Judged, RowMoves, Listing
<1>6. ASSUME NEW a \in Mem, Steady(a)', row'[a].checked \/ Taken(a) PROVE Steady(a)
  BY <1>6 DEF RowMoves, Steady, Live, TickInv, Unborn
<1>7. PairInv => PairInv'
  <2> SUFFICES ASSUME PairInv PROVE PairInv'
    OBVIOUS
  <2>0. \A a \in Mem, w \in Tick : a \in tick[w].done => Taken(a)
    BY DEF Taken
  <2>1. PairsKept'
    BY <1>6 DEF PairInv, PairsKept, Pair, RowMoves
  <2>2. PairsMixed'
    BY <1>6, <2>0 DEF PairInv, PairsMixed, Pair, RowMoves
  <2>3. PairsTaken'
    BY <1>6, <2>0 DEF PairInv, PairsTaken, Pair, RowMoves
  <2> QED BY <2>1, <2>2, <2>3 DEF PairInv
<1> QED BY <1>1, <1>3, <1>4, <1>5, <1>7 DEF TickInv

LEMMA UserStep ==
  ASSUME TickInv, NEW m \in Mem,
         (\E held \in BOOLEAN : Write(m, held)) \/ Embed(m) \/ EditBody(m) \/ Review(m) \/ Delete(m)
  PROVE  TickInv' /\ (PairInv => PairInv')
<1>1. row[m] \in Row
  BY DEF TickInv, LinkTyped
<1>2. UNCHANGED <<links, tick, seen>>
  BY DEF Write, Embed, EditBody, Review, Delete, others
<1>3. \E r \in Row : /\ row' = [row EXCEPT ![m] = r] /\ r.checked = row[m].checked
                     /\ r.state # "absent"
                     /\ (r.state = "live" /\ r.steady) =>
                          /\ r.review = "approved"
                          /\ \/ row[m].state = "absent"
                             \/ Steady(m) /\ (row[m].vec => r.vec)
  <2>1. ASSUME NEW held \in BOOLEAN, Write(m, held)
        PROVE  \E r \in Row : /\ row' = [row EXCEPT ![m] = r] /\ r.checked = row[m].checked
                              /\ r.state # "absent"
                              /\ r.steady => r.review = "approved" /\ row[m].state = "absent"
    <3> DEFINE d == IF held THEN "pending" ELSE "approved"
               s == ~held
               r == [row[m] EXCEPT !.state = "live", !.steady = s, !.review = d]
    <3>1. row' = [row EXCEPT ![m] = r] /\ row[m].state = "absent"
      BY <2>1 DEF Write, TickInv, LinkTyped
    <3>2. d \in {"approved", "pending"} /\ s \in BOOLEAN /\ (s => d = "approved")
      OBVIOUS
    <3> HIDE DEF d, s
    <3>3. r \in Row
      BY <1>1, <3>2 DEF Row
    <3>4. r.state = "live" /\ r.steady = s /\ r.review = d /\ r.checked = row[m].checked
      BY <1>1 DEF Row
    <3> HIDE DEF r
    <3> QED BY <3>1, <3>2, <3>3, <3>4
  <2>2. ASSUME Embed(m)
        PROVE  \E r \in Row : /\ row' = [row EXCEPT ![m] = r] /\ r.checked = row[m].checked
                              /\ r.state = "live" /\ r.steady = row[m].steady
                              /\ r.review = row[m].review /\ r.vec /\ Live(m)
    <3> DEFINE r == [row[m] EXCEPT !.vec = TRUE]
    <3>1. row' = [row EXCEPT ![m] = r] /\ row[m].state = "live"
      BY <2>2 DEF Embed, Live, TickInv, LinkTyped
    <3>2. r \in Row
      BY <1>1 DEF Row
    <3>3. /\ r.state = row[m].state /\ r.steady = row[m].steady /\ r.review = row[m].review
          /\ r.checked = row[m].checked /\ r.vec
      BY <1>1 DEF Row
    <3> HIDE DEF r
    <3> QED BY <3>1, <3>2, <3>3 DEF Live
  <2>3. ASSUME EditBody(m) \/ Delete(m)
        PROVE  \E r \in Row : /\ row' = [row EXCEPT ![m] = r] /\ r.checked = row[m].checked
                              /\ r.state # "absent" /\ ~r.steady
    <3>1. ASSUME EditBody(m)
          PROVE  \E r \in Row : /\ row' = [row EXCEPT ![m] = r] /\ r.checked = row[m].checked
                                /\ r.state # "absent" /\ ~r.steady
      <4> DEFINE r == [row[m] EXCEPT !.vec = FALSE, !.steady = FALSE]
      <4>1. row' = [row EXCEPT ![m] = r] /\ row[m].state = "live"
        BY <3>1 DEF EditBody, Live, TickInv, LinkTyped
      <4>2. r \in Row
        BY <1>1 DEF Row
      <4>3. r.state = row[m].state /\ r.checked = row[m].checked /\ ~r.steady
        BY <1>1 DEF Row
      <4> HIDE DEF r
      <4> QED BY <4>1, <4>2, <4>3
    <3>2. ASSUME Delete(m)
          PROVE  \E r \in Row : /\ row' = [row EXCEPT ![m] = r] /\ r.checked = row[m].checked
                                /\ r.state # "absent" /\ ~r.steady
      <4> DEFINE r == [row[m] EXCEPT !.state = "deleted", !.review = "approved",
                                     !.vec = FALSE, !.steady = FALSE]
      <4>1. row' = [row EXCEPT ![m] = r]
        BY <3>2 DEF Delete, TickInv, LinkTyped
      <4>2. r \in Row
        BY <1>1 DEF Row
      <4>3. r.state = "deleted" /\ r.checked = row[m].checked /\ ~r.steady
        BY <1>1 DEF Row
      <4> HIDE DEF r
      <4> QED BY <4>1, <4>2, <4>3
    <3> QED BY <2>3, <3>1, <3>2
  <2>4. ASSUME Review(m)
        PROVE  \E r \in Row : /\ row' = [row EXCEPT ![m] = r] /\ r.checked = row[m].checked
                              /\ r.state # "absent" /\ ~(r.state = "live" /\ r.steady)
    <3>1. PICK d \in {"approved", "rejected"} : row' = [row EXCEPT ![m].review = d]
      BY <2>4 DEF Review
    <3> DEFINE r == [row[m] EXCEPT !.review = d]
    <3>2. row' = [row EXCEPT ![m] = r] /\ row[m].state = "live" /\ row[m].review = "pending"
      BY <2>4, <3>1 DEF Review, Live, TickInv, LinkTyped
    <3>3. ~row[m].steady
      BY <3>2 DEF TickInv, Settled, Steady, Live
    <3>4. r \in Row
      BY <1>1 DEF Row
    <3>5. r.state = row[m].state /\ r.checked = row[m].checked /\ r.steady = row[m].steady
      BY <1>1 DEF Row
    <3> HIDE DEF r
    <3> QED BY <3>2, <3>3, <3>4, <3>5
  <2>5. Steady(m) => row[m].review = "approved"
    BY DEF TickInv, Settled
  <2> QED BY <2>1, <2>2, <2>3, <2>4, <2>5 DEF Steady
<1>4. row' \in [Mem -> Row]
  BY <1>3 DEF TickInv, LinkTyped
<1>5. \A n \in Mem : RowMoves(n)
  <2> SUFFICES ASSUME NEW n \in Mem PROVE RowMoves(n)
    OBVIOUS
  <2>1. CASE n = m
    BY <1>3, <2>1 DEF RowMoves, TickInv, LinkTyped
  <2>2. CASE n # m
    <3>1. row'[n] = row[n]
      BY <1>3, <2>2 DEF TickInv, LinkTyped
    <3> QED BY <3>1 DEF RowMoves, Steady, Live, TickInv, Settled
  <2> QED BY <2>1, <2>2
<1> QED BY <1>2, <1>4, <1>5, RowsMove
-----------------------------------------------------------------------------
(* The task.  A tick's record is replaced; the other ticks keep theirs.    *)
Rewritten(w, r) == tick' = [tick EXCEPT ![w] = r]

LEMMA TickOnly ==
  ASSUME TickInv, NEW w \in Tick, NEW r \in Run, Rewritten(w, r)
  PROVE  /\ tick' \in [Tick -> Run] /\ tick'[w] = r
         /\ \A v \in Tick \ {w} : tick'[v] = tick[v]
BY DEF Rewritten, TickInv, LinkTyped

(* It gives up a batch, or only a part of it.                              *)
LEMMA GivesUp ==
  ASSUME TickInv, NEW w \in Tick, NEW r \in Run, Rewritten(w, r),
         UNCHANGED <<row, links, seen>>,
         r.queue \subseteq tick[w].queue,
         \/ /\ r.done = {} /\ r.wrote = {} /\ r.out = <<>>
         \/ /\ r.done = tick[w].done /\ r.shown = tick[w].shown
            /\ r.wrote \cup Listing(r) \subseteq tick[w].wrote \cup Listing(tick[w])
  PROVE  TickInv' /\ (PairInv => PairInv')
<1>1. /\ tick' \in [Tick -> Run] /\ tick'[w] = r
      /\ \A v \in Tick \ {w} : tick'[v] = tick[v]
  BY TickOnly
<1>2. LinkTyped'
  BY <1>1 DEF TickInv, LinkTyped
<1>3. \A m \in Mem : Taken(m)' => Taken(m)
  BY <1>1 DEF Taken
<1>4. Unborn' /\ Settled'
  BY <1>3 DEF TickInv, Unborn, Settled, Steady, Live
<1>5. Backed'
  BY DEF TickInv, Backed, Judged
<1>6. r.done = {} \/ (r.done = tick[w].done /\ r.shown = tick[w].shown)
  OBVIOUS
<1>7. TickBacked'
  <2> SUFFICES ASSUME NEW v \in Tick, NEW l \in tick'[v].wrote \cup Listing(tick'[v])
               PROVE  l[1] \in tick'[v].done /\ <<l[1], l[2]>> \in tick'[v].shown
    BY DEF TickBacked, Listing
  <2>1. CASE v # w
    BY <1>1, <2>1 DEF TickInv, TickBacked
  <2>2. CASE v = w /\ r.wrote = {} /\ r.out = <<>>
    BY <1>1, <2>2 DEF Listing
  <2>3. CASE v = w /\ ~(r.wrote = {} /\ r.out = <<>>)
    BY <1>1, <2>3 DEF TickInv, TickBacked
  <2> QED BY <2>1, <2>2, <2>3
<1>8. PairInv => PairInv'
  <2> SUFFICES ASSUME PairInv PROVE PairInv'
    OBVIOUS
  <2>1. PairsKept'
    BY DEF PairInv, PairsKept, Pair, Steady, Live
  <2>2. PairsMixed'
    BY <1>1, <1>6 DEF PairInv, PairsMixed, Pair, Steady, Live
  <2>3. PairsTaken'
    BY <1>1, <1>6 DEF PairInv, PairsTaken, Pair, Steady, Live
  <2> QED BY <2>1, <2>2, <2>3 DEF PairInv
<1> QED BY <1>2, <1>4, <1>5, <1>7, <1>8 DEF TickInv

LEMMA StartStep ==
  ASSUME TickInv, NEW w \in Tick, TickStart(w)
  PROVE  TickInv' /\ (PairInv => PairInv')
<1> DEFINE r == [tick[w] EXCEPT !.pc = "run", !.queue = Batch]
<1>1. tick[w] \in Run /\ Batch \in SUBSET Mem /\ Rewritten(w, r) /\ UNCHANGED <<row, links, seen>>
  BY DEF TickStart, Rewritten, TickInv, LinkTyped, Batch, PendingCheck
<1>2. \A m \in Batch : Live(m) /\ row[m].vec
  BY DEF Batch, PendingCheck
<1>3. r \in Run
  BY <1>1, RunSet
<1>4. /\ r.queue = Batch /\ r.done = tick[w].done /\ r.shown = tick[w].shown
      /\ r.wrote = tick[w].wrote /\ r.out = tick[w].out
  BY <1>1 DEF Run
<1> HIDE DEF r
<1>5. /\ tick' \in [Tick -> Run] /\ tick'[w] = r
      /\ \A v \in Tick \ {w} : tick'[v] = tick[v]
  BY <1>1, <1>3, TickOnly
<1>6. \A m \in Mem : Taken(m)' => Taken(m) \/ m \in Batch
  BY <1>4, <1>5 DEF Taken
<1>7. LinkTyped'
  BY <1>1, <1>5 DEF TickInv, LinkTyped
<1>8. Unborn' /\ Settled'
  BY <1>1, <1>2, <1>6 DEF TickInv, Unborn, Settled, Steady, Live
<1>9. Backed' /\ TickBacked'
  BY <1>1, <1>4, <1>5 DEF TickInv, Backed, Judged, TickBacked, Listing
<1>10. \A v \in Tick : tick'[v].done = tick[v].done /\ tick'[v].shown = tick[v].shown
  BY <1>4, <1>5
<1>11. PairInv => PairInv'
  BY <1>1, <1>10 DEF PairInv, PairsKept, PairsMixed, PairsTaken, Pair, Steady, Live
<1> QED BY <1>7, <1>8, <1>9, <1>11 DEF TickInv

LEMMA JudgeStep ==
  ASSUME TickInv, NEW w \in Tick, NEW repeat \in BOOLEAN, JudgeNext(w, repeat)
  PROVE  TickInv' /\ (Cardinality(Mem) <= MaxCandidates + 1 /\ PairInv => PairInv')
<1>1. tick[w] \in Run /\ UNCHANGED <<row, links, seen>> /\ tick[w].out = <<>> /\ tick[w].queue # {}
  BY DEF JudgeNext, TickInv, LinkTyped
<1> DEFINE m == Max(tick[w].queue)
<1>2. m \in tick[w].queue
  <2>1. tick[w].queue \in SUBSET Mem
    BY <1>1 DEF Run
  <2>2. tick[w].queue \in SUBSET Nat /\ IsFiniteSet(tick[w].queue)
    BY <2>1, MemAssumption, FS_Subset
  <2> QED BY <1>1, <2>2, NewestOf
<1>3. m \in Mem
  BY <1>1, <1>2 DEF Run
<1>6. IF WithinQuota(Owner[m])
      THEN \E near \in Candidates(m) : \E out \in Answers(m, near, repeat) :
             tick' = [tick EXCEPT ![w].queue = @ \ {m}, ![w].out = out, ![w].done = @ \cup {m},
                                  ![w].shown = @ \cup {<<m, n>> : n \in near}]
      ELSE tick' = [tick EXCEPT ![w].queue = @ \ {m}]
  BY DEF JudgeNext
<1> HIDE DEF m
<1>4. CASE ~WithinQuota(Owner[m])
  <2> DEFINE r == [tick[w] EXCEPT !.queue = @ \ {m}]
  <2>1. Rewritten(w, r)
    BY <1>4, <1>6 DEF Rewritten, TickInv, LinkTyped
  <2>2. tick[w].queue \ {m} \in SUBSET Mem
    BY <1>1 DEF Run
  <2>3. r \in Run
    BY <1>1, <2>2, RunSet
  <2>4. /\ r.queue = tick[w].queue \ {m} /\ r.done = tick[w].done /\ r.shown = tick[w].shown
        /\ r.wrote = tick[w].wrote /\ r.out = tick[w].out
    BY <1>1 DEF Run
  <2> HIDE DEF r
  <2> QED BY <1>1, <2>1, <2>3, <2>4, GivesUp DEF Listing
<1>5. CASE WithinQuota(Owner[m])
  <2>1. PICK near \in Candidates(m) : \E out \in Answers(m, near, repeat) :
          tick' = [tick EXCEPT ![w].queue = @ \ {m}, ![w].out = out, ![w].done = @ \cup {m},
                               ![w].shown = @ \cup {<<m, n>> : n \in near}]
    BY <1>5, <1>6
  <2>2. PICK out \in Answers(m, near, repeat) :
          tick' = [tick EXCEPT ![w].queue = @ \ {m}, ![w].out = out, ![w].done = @ \cup {m},
                               ![w].shown = @ \cup {<<m, n>> : n \in near}]
    BY <2>1
  <2>3. near \in SUBSET Mem /\ out \in Seq(Link)
        /\ \A i \in DOMAIN out : out[i][1] = m /\ out[i][2] \in near
    BY <1>3, SomeShown, Answered
  <2> DEFINE q == tick[w].queue \ {m}
             d == tick[w].done \cup {m}
             s == tick[w].shown \cup {<<m, n>> : n \in near}
             r == [tick[w] EXCEPT !.queue = q, !.out = out, !.done = d, !.shown = s]
  <2>4. Rewritten(w, r)
    BY <2>2 DEF Rewritten, TickInv, LinkTyped
  <2>5. q \in SUBSET Mem /\ d \in SUBSET Mem /\ s \in SUBSET (Mem \X Mem)
    BY <1>1, <1>3, <2>3 DEF Run
  <2>6. /\ tick[w].queue = q \cup {m} /\ \A n \in near : <<m, n>> \in s
        /\ d = tick[w].done \cup {m} /\ tick[w].shown \subseteq s
    BY <1>2
  <2> HIDE DEF q, d, s
  <2>7. r \in Run
    BY <1>1, <2>3, <2>5, RunSet
  <2>8. r.queue = q /\ r.done = d /\ r.shown = s /\ r.out = out /\ r.wrote = tick[w].wrote
    BY <1>1 DEF Run
  <2> HIDE DEF r
  <2>9. /\ tick' \in [Tick -> Run] /\ tick'[w] = r
        /\ \A v \in Tick \ {w} : tick'[v] = tick[v]
    BY <2>4, <2>7, TickOnly
  <2>10. \A n \in Mem : Taken(n)' <=> Taken(n)
    BY <2>6, <2>8, <2>9 DEF Taken
  <2>11. LinkTyped' /\ Unborn' /\ Settled' /\ Backed'
    BY <1>1, <2>9, <2>10 DEF TickInv, LinkTyped, Unborn, Settled, Steady, Live, Backed, Judged
  <2>12. TickBacked'
    <3> SUFFICES ASSUME NEW v \in Tick, NEW l \in tick'[v].wrote \cup Listing(tick'[v])
                 PROVE  l[1] \in tick'[v].done /\ <<l[1], l[2]>> \in tick'[v].shown
      BY DEF TickBacked, Listing
    <3>1. CASE v # w
      BY <2>9, <3>1 DEF TickInv, TickBacked
    <3>2. CASE v = w /\ l \in tick[w].wrote
      BY <2>6, <2>8, <2>9, <3>2 DEF TickInv, TickBacked
    <3>3. CASE v = w /\ l \in Listing(r)
      <4>1. PICK i \in DOMAIN out : l = out[i]
        BY <2>8, <3>3 DEF Listing
      <4> QED BY <2>3, <2>6, <2>8, <2>9, <3>3, <4>1
    <3> QED BY <2>8, <2>9, <3>1, <3>2, <3>3
  <2>13. ASSUME Cardinality(Mem) <= MaxCandidates + 1, PairInv PROVE PairInv'
    <3>1. \A a \in Mem : (Pair(a, m) /\ (row[a].checked \/ Taken(a))) => <<m, a>> \in s
      <4>1. near = Eligible(m)
        BY <1>3, <2>13, AllShown
      <4> QED BY <2>6, <4>1 DEF Eligible, Recallable, Pair, Steady, TickInv, Settled
    <3>2. \A a, b \in Mem : Pair(a, b) => Pair(b, a)
      BY DEF Pair
    <3>3. \A a \in Mem, v \in Tick : a \in tick[v].done => Taken(a)
      BY DEF Taken
    <3>4. \A a, b \in Mem : Pair(a, b)' <=> Pair(a, b)
      BY <1>1 DEF Pair, Steady, Live
    <3>5. \A v \in Tick : \A a \in tick'[v].done : a \in tick[v].done \/ (v = w /\ a = m)
      BY <2>6, <2>8, <2>9
    <3>6. \A v \in Tick : tick[v].shown \subseteq tick'[v].shown
      BY <2>6, <2>8, <2>9
    <3>7. tick'[w].shown = s
      BY <2>8, <2>9
    <3>8. PairsKept'
      BY <1>1, <2>13, <3>4 DEF PairInv, PairsKept
    <3>9. PairsMixed'
      <4> SUFFICES ASSUME NEW a \in Mem, NEW b \in Mem, NEW v \in Tick, Pair(a, b), row[a].checked,
                          b \in tick'[v].done
                   PROVE  <<a, b>> \in seen \/ <<b, a>> \in tick'[v].shown
        BY <1>1, <3>4 DEF PairsMixed
      <4> QED BY <2>13, <3>1, <3>5, <3>6, <3>7 DEF PairInv, PairsMixed
    <3>10. PairsTaken'
      <4> SUFFICES ASSUME NEW a \in Mem, NEW b \in Mem, NEW u \in Tick, NEW v \in Tick, Pair(a, b),
                          a \in tick'[u].done, b \in tick'[v].done
                   PROVE  <<a, b>> \in tick'[u].shown \/ <<b, a>> \in tick'[v].shown
        BY <3>4 DEF PairsTaken
      <4>1. CASE a \in tick[u].done /\ b \in tick[v].done
        BY <2>13, <3>6, <4>1 DEF PairInv, PairsTaken
      <4>2. CASE b = m /\ v = w /\ a \in tick[u].done
        BY <3>1, <3>3, <3>7, <4>2
      <4>3. CASE a = m /\ u = w /\ b \in tick[v].done
        BY <3>1, <3>2, <3>3, <3>7, <4>3
      <4>4. a # b
        BY DEF Pair
      <4> QED BY <3>5, <4>1, <4>2, <4>3, <4>4
    <3> QED BY <3>8, <3>9, <3>10 DEF PairInv
  <2> QED BY <2>11, <2>12, <2>13 DEF TickInv
<1> QED BY <1>4, <1>5

LEMMA InsertStep ==
  ASSUME TickInv, NEW w \in Tick, InsertLink(w)
  PROVE  TickInv' /\ (PairInv => PairInv')
<1> DEFINE out == tick[w].out
           k == Head(out)
           more == tick[w].wrote \cup {k}
           r == [tick[w] EXCEPT !.out = Tail(@), !.wrote = @ \cup {k}]
           known == k \in links \cup tick[w].wrote
<1>1. tick[w] \in Run /\ UNCHANGED <<row, links, seen>> /\ out # <<>> /\ out \in Seq(Link)
  BY DEF InsertLink, TickInv, LinkTyped, Run
<1>2. Rewritten(w, Idle) \/ Rewritten(w, r)
  <2>1. tick' = [tick EXCEPT ![w] = IF known THEN Idle ELSE r]
    <3>1. \A q \in Run : [q EXCEPT !.out = Tail(@), !.wrote = @ \cup {k}]
                          = [q EXCEPT !.out = Tail(q.out), !.wrote = q.wrote \cup {k}]
      BY DEF Run
    <3> QED BY <1>1, <3>1 DEF InsertLink
  <2> HIDE DEF r, known
  <2> QED BY <2>1 DEF Rewritten
<1>3. CASE Rewritten(w, Idle)
  <2>1. Idle \in Run
    BY <1>1, RunSet
  <2> QED BY <1>1, <1>3, <2>1, GivesUp DEF Idle
<1>4. CASE Rewritten(w, r)
  <2>1. Tail(out) \in Seq(Link) /\ k \in Link /\ k \in Listing(tick[w])
    BY <1>1 DEF Listing
  <2>2. \A i \in DOMAIN Tail(out) : Tail(out)[i] = out[i + 1] /\ i + 1 \in DOMAIN out
    BY <1>1
  <2>3. more \in SUBSET Link
    BY <1>1, <2>1 DEF Run
  <2>4. r \in Run
    <3>1. r = [tick[w] EXCEPT !.out = Tail(out), !.wrote = more]
      BY <1>1 DEF Run
    <3> HIDE DEF r
    <3> QED BY <1>1, <2>1, <2>3, <3>1, RunSet
  <2>5. /\ r.queue = tick[w].queue /\ r.done = tick[w].done /\ r.shown = tick[w].shown
        /\ r.wrote = tick[w].wrote \cup {k} /\ r.out = Tail(out)
    BY <1>1 DEF Run
  <2> HIDE DEF r
  <2>6. Listing(r) \subseteq Listing(tick[w])
    BY <2>2, <2>5 DEF Listing
  <2> QED BY <1>1, <1>4, <2>1, <2>4, <2>5, <2>6, GivesUp
<1> QED BY <1>2, <1>3, <1>4

LEMMA CommitStep ==
  ASSUME TickInv, NEW w \in Tick, TickCommit(w)
  PROVE  TickInv' /\ (PairInv => PairInv')
<1>1. /\ tick[w] \in Run /\ Rewritten(w, Idle) /\ links' = links \cup tick[w].wrote
      /\ seen' = seen \cup tick[w].shown
  BY DEF TickCommit, Rewritten, TickInv, LinkTyped
<1>2. Idle \in Run /\ Idle.done = {} /\ Idle.queue = {} /\ Idle.wrote = {} /\ Idle.out = <<>>
  BY <1>1, RunSet DEF Idle
<1>3. /\ tick' \in [Tick -> Run] /\ tick'[w] = Idle
      /\ \A v \in Tick \ {w} : tick'[v] = tick[v]
  BY <1>1, <1>2, TickOnly
<1>4. /\ row' \in [Mem -> Row]
      /\ \A m \in Mem : /\ row'[m].state = row[m].state /\ row'[m].steady = row[m].steady
                        /\ row'[m].review = row[m].review /\ row'[m].vec = row[m].vec
                        /\ row'[m].checked = (row[m].checked \/ m \in tick[w].done)
  <2>1. \A m \in Mem : row[m] \in Row
    BY DEF TickInv, LinkTyped
  <2>2. \A q \in Row : LET p == [q EXCEPT !.checked = TRUE]
                       IN /\ p \in Row /\ p.state = q.state /\ p.steady = q.steady
                          /\ p.review = q.review /\ p.vec = q.vec /\ p.checked = TRUE
    BY DEF Row
  <2>3. \A m \in Mem : row'[m] = IF m \in tick[w].done THEN [row[m] EXCEPT !.checked = TRUE] ELSE row[m]
    BY DEF TickCommit
  <2>4. \A m \in Mem : row[m].checked \in BOOLEAN
    BY <2>1 DEF Row
  <2>5. row' \in [Mem -> Row]
    BY <2>1, <2>2 DEF TickCommit
  <2> QED BY <2>1, <2>2, <2>3, <2>4, <2>5
<1>5. \A m \in Mem : Taken(m)' => Taken(m)
  BY <1>2, <1>3 DEF Taken
<1>6. \A m \in Mem : m \in tick[w].done => Taken(m)
  BY DEF Taken
<1>7. LinkTyped'
  BY <1>1, <1>3, <1>4 DEF TickInv, LinkTyped, Run
<1>8. Unborn' /\ Settled'
  BY <1>4, <1>5, <1>6 DEF TickInv, Unborn, Settled, Steady, Live
<1>9. Backed'
  <2> SUFFICES ASSUME NEW l \in links' PROVE Judged(l[1], l[2])'
    BY DEF Backed
  <2>1. l \in Link
    BY <1>7 DEF LinkTyped
  <2>2. l[1] \in Mem
    BY <2>1 DEF Link
  <2>3. CASE l \in links
    BY <1>1, <1>4, <2>2, <2>3 DEF TickInv, Backed, Judged
  <2>4. CASE l \in tick[w].wrote
    BY <1>1, <1>4, <2>2, <2>4 DEF TickInv, TickBacked, Judged
  <2> QED BY <1>1, <2>3, <2>4
<1>10. TickBacked'
  <2> SUFFICES ASSUME NEW v \in Tick, NEW l \in tick'[v].wrote \cup Listing(tick'[v])
               PROVE  l[1] \in tick'[v].done /\ <<l[1], l[2]>> \in tick'[v].shown
    BY DEF TickBacked, Listing
  <2>1. v # w
    BY <1>2, <1>3 DEF Listing
  <2> QED BY <1>3, <2>1 DEF TickInv, TickBacked
<1>11. PairInv => PairInv'
  <2> SUFFICES ASSUME PairInv PROVE PairInv'
    OBVIOUS
  <2>1. \A a, b \in Mem : (Pair(a, b)' <=> Pair(a, b)) /\ (Pair(a, b) => Pair(b, a))
    BY <1>4 DEF Pair, Steady, Live
  <2>2. \A v \in Tick, a \in Mem : a \in tick'[v].done => a \in tick[v].done /\ tick'[v].shown = tick[v].shown
    BY <1>2, <1>3
  <2>3. PairsKept'
    <3> SUFFICES ASSUME NEW a \in Mem, NEW b \in Mem, Pair(a, b), row'[a].checked, row'[b].checked
                 PROVE  <<a, b>> \in seen' \/ <<b, a>> \in seen'
      BY <2>1 DEF PairsKept
    <3>1. CASE row[a].checked /\ row[b].checked
      BY <1>1, <3>1 DEF PairInv, PairsKept
    <3>2. CASE row[a].checked /\ b \in tick[w].done
      BY <1>1, <3>2 DEF PairInv, PairsMixed
    <3>3. CASE row[b].checked /\ a \in tick[w].done
      BY <1>1, <2>1, <3>3 DEF PairInv, PairsMixed
    <3>4. CASE a \in tick[w].done /\ b \in tick[w].done
      BY <1>1, <3>4 DEF PairInv, PairsTaken
    <3> QED BY <1>4, <3>1, <3>2, <3>3, <3>4
  <2>4. PairsMixed'
    <3> SUFFICES ASSUME NEW a \in Mem, NEW b \in Mem, NEW v \in Tick, Pair(a, b), row'[a].checked,
                        b \in tick'[v].done
                 PROVE  <<a, b>> \in seen' \/ <<b, a>> \in tick'[v].shown
      BY <2>1 DEF PairsMixed
    <3>1. CASE row[a].checked
      BY <1>1, <2>2, <3>1 DEF PairInv, PairsMixed
    <3>2. CASE a \in tick[w].done
      BY <1>1, <2>2, <3>2 DEF PairInv, PairsTaken
    <3> QED BY <1>4, <3>1, <3>2
  <2>5. PairsTaken'
    BY <2>1, <2>2 DEF PairInv, PairsTaken
  <2> QED BY <2>3, <2>4, <2>5 DEF PairInv
<1> QED BY <1>7, <1>8, <1>9, <1>10, <1>11 DEF TickInv

(* A memory nothing names any more is forgotten.                           *)
LEMMA ForgetStep ==
  ASSUME TickInv, NEW m \in Mem, Forget(m)
  PROVE  TickInv' /\ (PairInv => PairInv')
<1>1. /\ row' = [row EXCEPT ![m] = Absent] /\ UNCHANGED <<links, tick>>
      /\ seen' = {p \in seen : m \notin {p[1], p[2]}}
      /\ row \in [Mem -> Row] /\ seen \subseteq Mem \X Mem /\ ~Named(m)
  BY DEF Forget, TickInv, LinkTyped
<1>2. Absent \in Row /\ Absent.state = "absent" /\ ~Absent.checked
  BY DEF Absent, Row
<1>3. /\ row' \in [Mem -> Row] /\ row'[m] = Absent /\ \A n \in Mem \ {m} : row'[n] = row[n]
      /\ \A a, b \in Mem \ {m} : <<a, b>> \in seen => <<a, b>> \in seen'
  BY <1>1, <1>2
<1>4. ~Taken(m) /\ \A n \in Mem : Taken(n)' <=> Taken(n)
  BY <1>1 DEF Named, Taken
<1>5. LinkTyped' /\ Unborn' /\ Settled'
  BY <1>1, <1>2, <1>3, <1>4 DEF TickInv, LinkTyped, Unborn, Settled, Steady, Live
<1>6. Backed'
  <2> SUFFICES ASSUME NEW l \in links PROVE Judged(l[1], l[2])'
    BY <1>1 DEF Backed
  <2>1. l[1] \in Mem \ {m} /\ l[2] \in Mem \ {m}
    BY <1>1 DEF Named, TickInv, LinkTyped, Link
  <2> QED BY <1>3, <2>1 DEF TickInv, Backed, Judged
<1>7. TickBacked'
  BY <1>1 DEF TickInv, TickBacked, Listing
<1>8. PairInv => PairInv'
  <2>1. \A a, b \in Mem : Pair(a, b)' => a # m /\ b # m /\ Pair(a, b)
    BY <1>2, <1>3 DEF Pair, Steady, Live
  <2> QED BY <1>1, <1>3, <2>1 DEF PairInv, PairsKept, PairsMixed, PairsTaken
<1> QED BY <1>5, <1>6, <1>7, <1>8 DEF TickInv

LEMMA ConflictStep ==
  TickInv /\ [Next]_vars
    => TickInv' /\ (Cardinality(Mem) <= MaxCandidates + 1 /\ PairInv => PairInv')
<1> SUFFICES ASSUME TickInv, [Next]_vars
             PROVE  TickInv' /\ (Cardinality(Mem) <= MaxCandidates + 1 /\ PairInv => PairInv')
  OBVIOUS
<1>1. ASSUME NEW w \in Tick, TickAbort(w) PROVE TickInv' /\ (PairInv => PairInv')
  <2>1. tick[w] \in Run /\ Rewritten(w, Idle) /\ UNCHANGED <<row, links, seen>>
    BY <1>1 DEF TickAbort, Rewritten, TickInv, LinkTyped
  <2>2. Idle \in Run
    BY <2>1, RunSet
  <2> QED BY <2>1, <2>2, GivesUp DEF Idle
<1>2. ASSUME UNCHANGED <<row, tick, seen>>, links' \subseteq links PROVE TickInv' /\ (PairInv => PairInv')
  <2>1. LinkTyped' /\ Unborn' /\ Settled'
    BY <1>2 DEF TickInv, LinkTyped, Unborn, Settled, Taken, Steady, Live
  <2>2. Backed' /\ TickBacked'
    BY <1>2 DEF TickInv, Backed, Judged, TickBacked, Listing
  <2>3. PairInv => PairInv'
    BY <1>2 DEF PairInv, PairsKept, PairsMixed, PairsTaken, Pair, Steady, Live
  <2> QED BY <2>1, <2>2, <2>3 DEF TickInv
<1>3. NewDay \/ Unlink \/ UNCHANGED vars => TickInv' /\ (PairInv => PairInv')
  BY <1>2 DEF NewDay, Unlink, vars
<1>4. Next => TickInv' /\ (Cardinality(Mem) <= MaxCandidates + 1 /\ PairInv => PairInv')
  BY <1>1, <1>3, UserStep, ForgetStep, StartStep, JudgeStep, InsertStep, CommitStep DEF Next, TickStep
<1> QED BY <1>3, <1>4

LEMMA ConflictInit == Init => TickInv /\ PairInv
<1> SUFFICES ASSUME Init PROVE TickInv /\ PairInv
  OBVIOUS
<1>1. \A m \in Mem : row[m].state = "absent" /\ ~row[m].checked
  BY DEF Init, Absent
<1>2. \A w \in Tick : tick[w] = Idle
  BY DEF Init
<1>3. Idle \in Run /\ Idle.done = {} /\ Idle.queue = {} /\ Idle.wrote = {} /\ Idle.out = <<>>
  BY DEF Idle, Run
<1>4. LinkTyped
  <2>1. row \in [Mem -> Row]
    BY DEF Init, Absent, Row
  <2> QED BY <1>3, <2>1 DEF Init, LinkTyped
<1>5. Unborn /\ Settled
  BY <1>1, <1>2, <1>3 DEF Unborn, Settled, Taken, Steady, Live
<1>6. Backed /\ TickBacked
  BY <1>2, <1>3 DEF Init, Backed, TickBacked, Listing
<1>7. PairInv
  BY <1>1, <1>2, <1>3 DEF PairInv, PairsKept, PairsMixed, PairsTaken
<1> QED BY <1>4, <1>5, <1>6, <1>7 DEF TickInv

(* PairJudged: list_conflict_candidates and mark_conflict_checked see to   *)
(* it that of two memories marked checked, neither ever held nor edited,   *)
(* one was shown to the judge for the other, however many ticks overlap or *)
(* die, as long as the limit on candidates leaves none of them out.        *)
THEOREM PairsAreJudged == Cardinality(Mem) <= MaxCandidates + 1 => (Spec => []PairJudged)
<1> SUFFICES ASSUME Cardinality(Mem) <= MaxCandidates + 1 PROVE Spec => []PairJudged
  OBVIOUS
<1>1. TickInv /\ PairInv /\ [Next]_vars => TickInv' /\ PairInv'
  BY ConflictStep
<1>2. PairInv => PairJudged
  BY DEF PairInv, PairsKept, PairJudged, Pair, Steady
<1> QED BY <1>1, <1>2, ConflictInit, PTL DEF Spec

(* LinkBacked: links and marks are committed together, so what             *)
(* annotate_conflicts says of a hit, and the hits it sorts last, rest on a *)
(* committed judgement of the two memories.                                *)
THEOREM NotesAreBacked == Spec => []LinkBacked
<1>1. TickInv /\ [Next]_vars => TickInv'
  BY ConflictStep
<1>2. TickInv => LinkBacked
  <2> SUFFICES ASSUME TickInv PROVE LinkBacked
    OBVIOUS
  <2>1. \A n \in Notes(Hits) :
          \E l \in links : \/ n = <<l[1], l[2], l[3]>> /\ l[3] \in Relation
                           \/ n[1] = l[2] /\ n[2] = l[1]
    BY DEF Notes, TickInv, LinkTyped, Link
  <2>2. \A n \in Notes(Hits) : Judged(n[1], n[2]) \/ Judged(n[2], n[1])
    BY <2>1 DEF TickInv, Backed
  <2>3. ASSUME NEW m \in Demoted(Hits) PROVE \E n \in Hits : Judged(n, m)
    <3>1. PICK k \in Notes(Hits) : k[3] = "superseded_by" /\ k[2] \in Hits /\ m = k[1]
      BY DEF Demoted
    <3>2. PICK l \in links : \/ k = <<l[1], l[2], l[3]>> /\ l[3] \in Relation
                             \/ k[1] = l[2] /\ k[2] = l[1]
      BY <2>1
    <3>3. "superseded_by" \notin Relation
      BY RelationAssumption
    <3>4. k[1] = l[2] /\ k[2] = l[1]
      BY <3>1, <3>2, <3>3
    <3> QED BY <3>1, <3>4 DEF TickInv, Backed
  <2> QED BY <2>2, <2>3 DEF LinkBacked
<1>3. Init => TickInv
  BY ConflictInit
<1> QED BY <1>1, <1>2, <1>3, PTL DEF Spec
=============================================================================
