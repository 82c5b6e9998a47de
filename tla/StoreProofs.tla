------------------------------ MODULE StoreProofs -----------------------------
(***************************************************************************)
(* What gets into the store: a repeated import, and the write path with    *)
(* its review queue.                                                       *)
(*                                                                         *)
(* Imports.  As long as no run has posted over a request that an earlier   *)
(* one abandoned, the server works on one request at a time, and so what   *)
(* it found when it looked for the text is still so when it stores.        *)
(* Whatever overtakes what, a row is made of one of the file's records and *)
(* keeps its text, and so a run that counted no failure leaves every       *)
(* record in a row that has all its fields but those no parser read.       *)
(*                                                                         *)
(* Writes.  StoreInv holds for any number of requests: a write that is on  *)
(* its way to its row has been judged by the text it will store, so that a *)
(* suspicious one is pending from its first statement on, and from then on *)
(* only a recorded verdict changes that.  What find_by_content_hash missed *)
(* is still missing at the INSERT of a request that no other overlapped.   *)
(***************************************************************************)
EXTENDS VendorImport, MemoryStore, TLAPS, FiniteSetTheorems, SequenceTheorems,
        WellFoundedInduction

-----------------------------------------------------------------------------
(* Imports.                                                                *)

LEMMA LeastOf ==
  ASSUME NEW T \in SUBSET Nat, T # {}
  PROVE  \E n \in T : \A m \in T : n <= m
<1>1. PICK n \in T : \A m \in T : ~ (<<m, n>> \in OpToRel(<, Nat))
  BY NatLessThanWellFounded, WFMin
<1>2. \A m \in T : ~(m < n)
  BY <1>1 DEF OpToRel
<1> QED BY <1>2

(* A sequence of anything.                                                 *)
IsList(s) == \E n \in Nat : s = [i \in 1..n |-> s[i]]

LEMMA Appended ==
  ASSUME NEW s, IsList(s), NEW e
  PROVE  /\ IsList(Append(s, e))
         /\ Len(s) \in Nat /\ DOMAIN s = 1..Len(s)
         /\ DOMAIN Append(s, e) = 1..(Len(s) + 1)
         /\ Append(s, e)[Len(s) + 1] = e
         /\ \A i \in DOMAIN s : Append(s, e)[i] = s[i]
<1>1. PICK n \in Nat : s = [i \in 1..n |-> s[i]]
  BY DEF IsList
<1> DEFINE S == {s[i] : i \in 1..n} \cup {e}
<1>2. s \in [1..n -> S]
  BY <1>1
<1>3. s \in Seq(S) /\ e \in S
  BY <1>2, SeqDef
<1> HIDE DEF S
<1>4. /\ Append(s, e) \in Seq(S) /\ Len(Append(s, e)) = Len(s) + 1
      /\ Append(s, e)[Len(s) + 1] = e
      /\ \A i \in 1..Len(s) : Append(s, e)[i] = s[i]
  BY <1>3, AppendProperties
<1>5. Len(s) \in Nat /\ DOMAIN s = 1..Len(s) /\ DOMAIN Append(s, e) = 1..(Len(s) + 1)
  BY <1>3, <1>4, LenProperties
<1>6. Append(s, e) = [i \in 1..(Len(s) + 1) |-> Append(s, e)[i]]
  <2>1. Append(s, e) \in [1..Len(Append(s, e)) -> S]
    BY <1>4, LenProperties
  <2> QED BY <1>4, <2>1
<1>7. IsList(Append(s, e))
  <2>1. Len(s) + 1 \in Nat
    BY <1>5
  <2> QED BY <1>6, <2>1 DEF IsList
<1> QED BY <1>4, <1>5, <1>7

(* find_by_content_hash finds a row with the text, if there is one.        *)
LEMMA TwinFound ==
  ASSUME IsList(stored), NEW rec
  PROVE  IF \E i \in DOMAIN stored : SameText(stored[i], rec)
         THEN /\ Twin(rec) \in DOMAIN stored /\ Twin(rec) # 0
              /\ SameText(stored[Twin(rec)], rec)
         ELSE Twin(rec) = 0
<1> DEFINE I == {i \in 1..Len(stored) : SameText(stored[i], rec)}
<1>1. Len(stored) \in Nat /\ DOMAIN stored = 1..Len(stored)
  BY Appended
<1>2. Twin(rec) = IF I # {} THEN Min(I) ELSE 0
  BY DEF Twin, SelectInSeq
<1>3. I # {} => Min(I) \in I
  <2> SUFFICES ASSUME I # {} PROVE Min(I) \in I
    OBVIOUS
  <2>1. I \in SUBSET Nat
    BY <1>1
  <2> HIDE DEF I
  <2> QED BY <2>1, LeastOf DEF Min
<1> QED BY <1>1, <1>2, <1>3

(* While no run posted over an abandoned request, the server works on one  *)
(* request, and what that found when it looked is still so.                *)
ImportInv ==
  /\ IsList(stored)
  /\ RerunFolds
  /\ ~crossed =>
       \A q \in server :
         /\ server = {q}
         /\ IF \E i \in DOMAIN stored : SameText(stored[i], q.rec)
            THEN q.twin \in DOMAIN stored /\ q.twin # 0 ELSE q.twin = 0

(* The request is carried out: a new text is stored, a known one folded.   *)
LEMMA ApplyStep ==
  ASSUME ImportInv, NEW q \in server, Apply(q) \/ UNCHANGED stored,
         server' = server \ {q}, UNCHANGED crossed
  PROVE  ImportInv'
<1>0. CASE UNCHANGED stored
  BY <1>0 DEF ImportInv, RerunFolds
<1>1. CASE q.twin = 0 /\ stored' = Append(stored, q.rec)
  <2>1. /\ IsList(stored') /\ Len(stored) \in Nat /\ DOMAIN stored = 1..Len(stored)
        /\ DOMAIN stored' = 1..(Len(stored) + 1) /\ stored'[Len(stored) + 1] = q.rec
        /\ \A i \in DOMAIN stored : stored'[i] = stored[i]
    BY <1>1, Appended DEF ImportInv
  <2>2. ~crossed => \A i \in DOMAIN stored : ~SameText(stored[i], q.rec)
    BY <1>1 DEF ImportInv
  <2>3. \A i \in DOMAIN stored' : i \in DOMAIN stored \/ i = Len(stored) + 1
    BY <2>1
  <2>4. RerunFolds'
    BY <2>1, <2>2, <2>3 DEF ImportInv, RerunFolds, SameText
  <2> QED BY <2>1, <2>4 DEF ImportInv
<1>2. CASE stored' = [stored EXCEPT ![q.twin] = Folded(@, q.rec)]
  <2>1. /\ IsList(stored') /\ DOMAIN stored' = DOMAIN stored
        /\ \A i \in DOMAIN stored : stored'[i] = IF i = q.twin THEN Folded(stored[i], q.rec) ELSE stored[i]
    BY <1>2 DEF IsList, ImportInv
  <2>2. \A i \in DOMAIN stored : stored'[i].body = stored[i].body /\ stored'[i].title = stored[i].title
    BY <2>1 DEF Folded
  <2>3. RerunFolds'
    BY <2>1, <2>2 DEF ImportInv, RerunFolds, SameText
  <2> QED BY <2>1, <2>3 DEF ImportInv
<1> QED BY <1>0, <1>1, <1>2 DEF Apply

LEMMA ImportStep == ImportInv /\ [ImportNext]_importVars => ImportInv'
<1> SUFFICES ASSUME ImportInv, [ImportNext]_importVars PROVE ImportInv'
  OBVIOUS
<1>1. CASE Post
  <2> DEFINE q == [of |-> <<runs, run.next>>, rec |-> Current, twin |-> Twin(Current)]
  <2>1. server' = server \cup {q} /\ stored' = stored /\ crossed' = (crossed \/ server # {})
    BY <1>1 DEF Post
  <2>2. q.rec = Current /\ q.twin = Twin(Current)
    OBVIOUS
  <2>3. IF \E i \in DOMAIN stored : SameText(stored[i], q.rec)
        THEN q.twin \in DOMAIN stored /\ q.twin # 0 ELSE q.twin = 0
    BY <2>2, TwinFound DEF ImportInv
  <2> HIDE DEF q
  <2>4. ~crossed' => server' = {q}
    BY <2>1
  <2> QED BY <2>1, <2>3, <2>4 DEF ImportInv, RerunFolds
<1>2. ASSUME NEW q \in server, Answer(q) \/ Late(q) PROVE ImportInv'
  BY <1>2, ApplyStep DEF Answer, Late
<1>3. ASSUME NEW q \in server, Refuse(q) PROVE ImportInv'
  BY <1>3, ApplyStep DEF Refuse
<1>4. CASE UNCHANGED <<stored, server, crossed>>
  BY <1>4 DEF ImportInv, RerunFolds
<1> QED BY <1>1, <1>2, <1>3, <1>4 DEF ImportNext, StartRun, Disconnect, FinishRun, importVars

(* RerunFolds: "re-running a half-finished import folds the repeats into   *)
(* the memories already stored" (import_.py): no text is stored twice      *)
(* unless a run overtook a request of an earlier one.                      *)
THEOREM RepeatsAreFolded == ImportSpec => []RerunFolds
<1>1. ImportInit => ImportInv
  <2>1. IsList(<<>>) /\ DOMAIN <<>> = {}
    <3>1. <<>> = [i \in 1..0 |-> <<>>[i]]
      OBVIOUS
    <3> QED BY <3>1 DEF IsList
  <2> QED BY <2>1 DEF ImportInit, ImportInv, RerunFolds
<1>2. ImportInv => RerunFolds
  BY DEF ImportInv
<1> QED BY <1>1, <1>2, ImportStep, PTL DEF ImportSpec

(* What the file holds reaches the rows.  A request carries one of the     *)
(* file's records, and a row has the text of one: if no other record has   *)
(* that text, the row is what was made of the record, however often it     *)
(* was folded into it.                                                     *)

Records == ParseFile(file)

Only(i) == \A j \in DOMAIN Records : j # i => ~SameText(Records[i], Records[j])

SameRecord(x, y) ==
  x.body = y.body /\ x.title = y.title /\ x.kind = y.kind /\ x.id = y.id /\ x.meta = y.meta

FromFile(x) ==
  \A i \in DOMAIN Records : Only(i) /\ SameText(Records[i], x) => SameRecord(Records[i], x)

Active == run.at \in {"posting", "waiting", "done"}

(* A run has the file's records before it, and as long as it counted no    *)
(* failure the ones it has passed are stored.                              *)
RunOK ==
  /\ run = [at |-> run.at, recs |-> run.recs, next |-> run.next, written |-> run.written,
            deduped |-> run.deduped, failed |-> run.failed]
  /\ runs >= 1 /\ run.next \in Nat \ {0} /\ run.failed \in Nat /\ Len(run.recs) \in Nat
  /\ DOMAIN run.recs = 1..Len(run.recs)
  /\ \A k \in DOMAIN run.recs : k \in DOMAIN Records /\ run.recs[k] = Records[k]
  /\ run.failed = 0 => \A k \in DOMAIN run.recs :
                         k < run.next => \E r \in DOMAIN stored : SameText(stored[r], run.recs[k])
  /\ \A q \in server, k \in Nat : q.of = <<runs, k>> => k \in DOMAIN run.recs /\ q.rec = run.recs[k]
  /\ run.at = "waiting" => run.next \in DOMAIN run.recs
  /\ run.at = "done" => run.next > Len(run.recs)

RowsFromFile ==
  /\ IsList(stored)
  /\ \A r \in DOMAIN stored : FromFile(stored[r])
  /\ \A q \in server :
       /\ \E i \in DOMAIN Records : q.rec = Records[i]
       /\ q.twin # 0 => q.twin \in DOMAIN stored /\ SameText(stored[q.twin], q.rec)
       /\ \E n \in 1..runs, k \in Nat : q.of = <<n, k>>

LossInv ==
  /\ file \in Files /\ runs \in Nat
  /\ run.at \in {"idle", "posting", "waiting", "refused", "done"}
  /\ RowsFromFile
  /\ Active => RunOK

LEMMA RecordsList ==
  ASSUME file \in Files
  PROVE  /\ Len(Records) \in Nat /\ DOMAIN Records = 1..Len(Records)
         /\ DOMAIN Records = DOMAIN ReadableEntries(file)
         /\ Records \in [1..Len(Records) -> {Records[i] : i \in DOMAIN Records}]
         /\ Records \in Seq({Records[i] : i \in DOMAIN Records})
<1> DEFINE es == ReadableEntries(file)
           n == Len(es)
           S == {Records[i] : i \in DOMAIN Records}
<1>1. n \in Nat /\ DOMAIN es = 1..n
  BY ImportAssumption
<1>2. Records = [i \in DOMAIN es |-> Parsed(es[i].rec, es[i].format)]
  BY DEF Records, ParseFile
<1>3. Records \in [1..n -> S]
  BY <1>1, <1>2
<1>4. Records \in Seq(S)
  BY <1>1, <1>3, SeqDef
<1> HIDE DEF S
<1>5. Len(Records) \in Nat /\ DOMAIN Records = 1..Len(Records) /\ Records \in [1..Len(Records) -> S]
  BY <1>4, LenProperties
<1> QED BY <1>1, <1>2, <1>4, <1>5 DEF S

(* Carrying out a request keeps what is known of the rows.                 *)
LEMMA ApplyKeeps ==
  ASSUME LossInv, NEW q \in server, Apply(q), server' = server \ {q}, UNCHANGED <<file, runs>>
  PROVE  /\ RowsFromFile'
         /\ DOMAIN stored \subseteq DOMAIN stored'
         /\ \A r \in DOMAIN stored : SameText(stored'[r], stored[r])
         /\ \E r \in DOMAIN stored' : SameText(stored'[r], q.rec)
<1>1. PICK i \in DOMAIN Records : q.rec = Records[i]
  BY DEF LossInv, RowsFromFile
<1>2. Records' = Records
  BY DEF Records
<1>3. CASE q.twin = 0 /\ stored' = Append(stored, q.rec)
  <2>1. /\ IsList(stored') /\ DOMAIN stored = 1..Len(stored) /\ Len(stored) \in Nat
        /\ DOMAIN stored' = 1..(Len(stored) + 1) /\ stored'[Len(stored) + 1] = q.rec
        /\ \A r \in DOMAIN stored : stored'[r] = stored[r]
    BY <1>3, Appended DEF LossInv, RowsFromFile
  <2>2. FromFile(q.rec)
    BY <1>1 DEF FromFile, Only, SameText, SameRecord
  <2>3. \A r \in DOMAIN stored' : r \in DOMAIN stored \/ r = Len(stored) + 1
    BY <2>1
  <2>4. \A r \in DOMAIN stored' : FromFile(stored'[r])
    BY <2>1, <2>2, <2>3 DEF LossInv, RowsFromFile
  <2>5. (\A r \in DOMAIN stored : FromFile(stored[r]))'
    BY <1>2, <2>4 DEF FromFile, Only
  <2> QED BY <1>2, <2>1, <2>5 DEF LossInv, RowsFromFile, SameText
<1>4. CASE q.twin # 0 /\ stored' = [stored EXCEPT ![q.twin] = Folded(@, q.rec)]
  <2>1. /\ IsList(stored') /\ DOMAIN stored' = DOMAIN stored
        /\ \A r \in DOMAIN stored :
             stored'[r] = IF r = q.twin THEN Folded(stored[r], q.rec) ELSE stored[r]
    BY <1>4 DEF IsList, LossInv, RowsFromFile
  <2>2. \A r \in DOMAIN stored : SameText(stored'[r], stored[r])
    BY <2>1 DEF Folded, SameText
  <2>3. q.twin \in DOMAIN stored /\ SameText(stored[q.twin], q.rec) /\ FromFile(stored[q.twin])
    BY <1>4 DEF LossInv, RowsFromFile
  <2>4. FromFile(Folded(stored[q.twin], q.rec))
    BY <1>1, <2>3 DEF FromFile, Only, SameText, SameRecord, Folded
  <2>5. (\A r \in DOMAIN stored : FromFile(stored[r]))'
    BY <1>2, <2>1, <2>4 DEF LossInv, RowsFromFile, FromFile, Only
  <2> QED BY <1>2, <2>1, <2>2, <2>3, <2>5 DEF LossInv, RowsFromFile, SameText
<1> QED BY <1>3, <1>4 DEF Apply

(* The rows keep their texts and the run goes on as it was.                *)
LEMMA RunKeeps ==
  ASSUME LossInv, Active, UNCHANGED <<file, runs, run>>, server' \subseteq server,
         DOMAIN stored \subseteq DOMAIN stored',
         \A r \in DOMAIN stored : SameText(stored'[r], stored[r])
  PROVE  RunOK'
<1>1. Records' = Records
  BY DEF Records
<1> QED BY <1>1 DEF LossInv, RunOK, SameText

LEMMA StartRunKeeps ==
  ASSUME LossInv, NEW limit \in {0, 1}, StartRun(limit)
  PROVE  LossInv'
<1>1. /\ runs' = runs + 1 /\ file' = file /\ server' = server /\ stored' = stored
      /\ run' = IF Records = <<>>
                  THEN [at |-> "refused"]
                  ELSE [at |-> "posting",
                        recs |-> IF limit > 0 /\ limit < Len(Records)
                                 THEN SubSeq(Records, 1, limit) ELSE Records,
                        next |-> 1, written |-> 0, deduped |-> 0, failed |-> 0]
  BY DEF StartRun, Records
<1>2. Records' = Records /\ runs' \in Nat /\ file' \in Files
  BY <1>1 DEF Records, LossInv
<1>3. RowsFromFile'
  BY <1>1, <1>2 DEF LossInv, RowsFromFile, FromFile, Only
<1>4. CASE run' = [at |-> "refused"]
  BY <1>2, <1>3, <1>4 DEF LossInv, Active
<1>5. ASSUME NEW recs, recs = IF limit > 0 /\ limit < Len(Records)
                              THEN SubSeq(Records, 1, limit) ELSE Records,
             run' = [at |-> "posting", recs |-> recs,
                     next |-> 1, written |-> 0, deduped |-> 0, failed |-> 0]
      PROVE  LossInv'
  <2>1. /\ Len(recs) \in Nat /\ DOMAIN recs = 1..Len(recs)
        /\ \A k \in DOMAIN recs : k \in DOMAIN Records /\ recs[k] = Records[k]
    <3>1. /\ Len(Records) \in Nat /\ DOMAIN Records = 1..Len(Records)
          /\ Records \in Seq({Records[i] : i \in DOMAIN Records})
      BY RecordsList DEF LossInv
    <3>2. CASE limit > 0 /\ limit < Len(Records)
      <4>1. recs = SubSeq(Records, 1, limit)
        BY <1>5, <3>2
      <4>2. 1 \in 1..(Len(Records) + 1) /\ limit \in (1 - 1)..Len(Records)
        BY <3>1, <3>2
      <4>3. /\ Len(recs) = limit
            /\ recs \in Seq({Records[i] : i \in DOMAIN Records})
            /\ \A k \in 1..limit : recs[k] = Records[k]
        BY <3>1, <4>1, <4>2, SubSeqProperties
      <4> QED BY <3>1, <3>2, <4>3, LenProperties
    <3>3. CASE ~(limit > 0 /\ limit < Len(Records))
      BY <1>5, <3>1, <3>3
    <3> QED BY <3>2, <3>3
  <2>2. /\ run'.at = "posting" /\ run'.recs = recs /\ run'.next = 1 /\ run'.failed = 0
        /\ (run = [at |-> run.at, recs |-> run.recs, next |-> run.next, written |-> run.written,
                   deduped |-> run.deduped, failed |-> run.failed])'
    BY <1>5
  <2>3. \A q \in server', k \in Nat : q.of # <<runs', k>>
    BY <1>1 DEF LossInv, RowsFromFile
  <2>4. runs' >= 1
    BY <1>1 DEF LossInv
  <2>5. RunOK'
    BY <1>2, <2>1, <2>2, <2>3, <2>4 DEF RunOK
  <2> QED BY <1>2, <1>3, <2>2, <2>5 DEF LossInv
<1> QED BY <1>1, <1>4, <1>5

LEMMA PostKeeps ==
  ASSUME LossInv, Post
  PROVE  LossInv'
<1> DEFINE q == [of |-> <<runs, run.next>>, rec |-> Current, twin |-> Twin(Current)]
<1>1. /\ run.at = "posting" /\ run.next <= Len(run.recs) /\ server' = server \cup {q}
      /\ run' = [run EXCEPT !.at = "waiting"] /\ file' = file /\ runs' = runs /\ stored' = stored
  BY DEF Post
<1>2. RunOK
  BY <1>1 DEF LossInv, Active
<1>3. run.next \in DOMAIN run.recs /\ run.next \in Nat /\ Current = Records[run.next]
      /\ run.next \in DOMAIN Records /\ Current = run.recs[run.next]
  BY <1>1, <1>2 DEF RunOK, Current
<1>4. /\ run'.at = "waiting" /\ run'.recs = run.recs /\ run'.next = run.next
      /\ run'.failed = run.failed
      /\ (run = [at |-> run.at, recs |-> run.recs, next |-> run.next, written |-> run.written,
                 deduped |-> run.deduped, failed |-> run.failed])'
  BY <1>1, <1>2 DEF RunOK
<1>5. Records' = Records
  BY <1>1 DEF Records
<1>6. Twin(Current) # 0
      => Twin(Current) \in DOMAIN stored /\ SameText(stored[Twin(Current)], Current)
  <2>1. IsList(stored)
    BY DEF LossInv, RowsFromFile
  <2>2. IF \E i \in DOMAIN stored : SameText(stored[i], Current)
        THEN Twin(Current) \in DOMAIN stored /\ SameText(stored[Twin(Current)], Current)
        ELSE Twin(Current) = 0
    BY <2>1, TwinFound
  <2> QED BY <2>2
<1>7. q.of = <<runs, run.next>> /\ q.rec = Current /\ q.twin = Twin(Current)
  OBVIOUS
<1> HIDE DEF q
<1>8. runs \in 1..runs
  BY <1>2 DEF LossInv, RunOK
<1>9. RowsFromFile'
  BY <1>1, <1>3, <1>5, <1>6, <1>7, <1>8
     DEF LossInv, RowsFromFile, FromFile, Only
<1>10. RunOK'
  BY <1>1, <1>2, <1>3, <1>4, <1>5, <1>7 DEF RunOK
<1> QED BY <1>1, <1>4, <1>9, <1>10 DEF LossInv

LEMMA AnswerKeeps ==
  ASSUME LossInv, NEW q \in server, Answer(q)
  PROVE  LossInv'
<1>1. /\ run.at = "waiting" /\ q.of = <<runs, run.next>> /\ Apply(q) /\ server' = server \ {q}
      /\ run' = [run EXCEPT !.at = "posting", !.next = @ + 1,
                            !.written = @ + (IF q.twin = 0 THEN 1 ELSE 0),
                            !.deduped = @ + (IF q.twin = 0 THEN 0 ELSE 1)]
      /\ file' = file /\ runs' = runs
  BY DEF Answer, Answered
<1>2. RunOK
  BY <1>1 DEF LossInv, Active
<1>3. run.next \in DOMAIN run.recs /\ q.rec = run.recs[run.next] /\ run.next \in Nat \ {0}
  BY <1>1, <1>2 DEF RunOK
<1>4. /\ run'.at = "posting" /\ run'.recs = run.recs /\ run'.next = run.next + 1
      /\ run'.failed = run.failed
      /\ (run = [at |-> run.at, recs |-> run.recs, next |-> run.next, written |-> run.written,
                 deduped |-> run.deduped, failed |-> run.failed])'
  BY <1>1, <1>2 DEF RunOK
<1>5. /\ RowsFromFile'
      /\ DOMAIN stored \subseteq DOMAIN stored'
      /\ \A r \in DOMAIN stored : SameText(stored'[r], stored[r])
      /\ \E r \in DOMAIN stored' : SameText(stored'[r], q.rec)
  BY <1>1, ApplyKeeps
<1>6. Records' = Records
  BY <1>1 DEF Records
<1>7. run'.failed = 0 => \A k \in DOMAIN run'.recs :
        k < run'.next => \E r \in DOMAIN stored' : SameText(stored'[r], run'.recs[k])
  <2> SUFFICES ASSUME run.failed = 0, NEW k \in DOMAIN run.recs, k < run.next + 1
               PROVE  \E r \in DOMAIN stored' : SameText(stored'[r], run.recs[k])
    BY <1>4
  <2>1. CASE k = run.next
    BY <1>3, <1>5, <2>1
  <2>2. CASE k < run.next
    <3>1. PICK r \in DOMAIN stored : SameText(stored[r], run.recs[k])
      BY <1>2, <2>2 DEF RunOK
    <3> QED BY <1>5, <3>1 DEF SameText
  <2> QED BY <1>2, <1>3, <2>1, <2>2 DEF RunOK
<1>8. \A p \in server', k \in Nat :
        p.of = <<runs', k>> => k \in DOMAIN run'.recs /\ p.rec = run'.recs[k]
  BY <1>1, <1>2, <1>4 DEF RunOK
<1>9. /\ run'.next \in Nat \ {0} /\ run'.failed \in Nat /\ Len(run'.recs) \in Nat
      /\ DOMAIN run'.recs = 1..Len(run'.recs) /\ runs' >= 1
      /\ \A k \in DOMAIN run'.recs : k \in DOMAIN Records' /\ run'.recs[k] = Records'[k]
  BY <1>1, <1>2, <1>3, <1>4, <1>6 DEF RunOK
<1>10. RunOK'
  BY <1>4, <1>7, <1>8, <1>9 DEF RunOK
<1> QED BY <1>1, <1>4, <1>5, <1>10 DEF LossInv

LEMMA RefuseKeeps ==
  ASSUME LossInv, NEW q \in server, Refuse(q)
  PROVE  LossInv'
<1>1. /\ run.at = "waiting" /\ server' = server \ {q}
      /\ run' = [run EXCEPT !.at = "posting", !.next = @ + 1, !.failed = @ + 1]
      /\ file' = file /\ runs' = runs /\ stored' = stored
  BY DEF Refuse, Answered
<1>2. RunOK
  BY <1>1 DEF LossInv, Active
<1>3. /\ run'.at = "posting" /\ run'.recs = run.recs /\ run'.next = run.next + 1
      /\ run'.failed = run.failed + 1
      /\ (run = [at |-> run.at, recs |-> run.recs, next |-> run.next, written |-> run.written,
                 deduped |-> run.deduped, failed |-> run.failed])'
  BY <1>1, <1>2 DEF RunOK
<1>4. Records' = Records
  BY <1>1 DEF Records
<1>5. RowsFromFile'
  BY <1>1, <1>4 DEF LossInv, RowsFromFile, FromFile, Only
<1>6. RunOK'
  BY <1>1, <1>2, <1>3, <1>4 DEF RunOK
<1> QED BY <1>1, <1>3, <1>5, <1>6 DEF LossInv

LEMMA LateKeeps ==
  ASSUME LossInv, NEW q \in server, Late(q)
  PROVE  LossInv'
<1>1. /\ server' = server \ {q} /\ file' = file /\ run' = run /\ runs' = runs
      /\ Apply(q) \/ stored' = stored
  BY DEF Late
<1>2. /\ RowsFromFile'
      /\ DOMAIN stored \subseteq DOMAIN stored'
      /\ \A r \in DOMAIN stored : SameText(stored'[r], stored[r])
  <2>1. CASE Apply(q)
    BY <1>1, <2>1, ApplyKeeps
  <2>2. CASE stored' = stored
    <3>1. Records' = Records
      BY <1>1 DEF Records
    <3> QED BY <1>1, <2>2, <3>1 DEF LossInv, RowsFromFile, FromFile, Only, SameText
  <2> QED BY <1>1, <2>1, <2>2
<1>3. Active => RunOK'
  BY <1>1, <1>2, RunKeeps
<1> QED BY <1>1, <1>2, <1>3 DEF LossInv, Active

LEMMA LossStep == LossInv /\ [ImportNext]_importVars => LossInv'
<1> SUFFICES ASSUME LossInv, [ImportNext]_importVars PROVE LossInv'
  OBVIOUS
<1>1. ASSUME NEW limit \in {0, 1}, StartRun(limit) PROVE LossInv'
  BY <1>1, StartRunKeeps
<1>2. CASE Post
  BY <1>2, PostKeeps
<1>3. ASSUME NEW q \in server, Answer(q) \/ Refuse(q) \/ Late(q) PROVE LossInv'
  BY <1>3, AnswerKeeps, RefuseKeeps, LateKeeps
<1>4. CASE Disconnect
  <2>1. run'.at = "idle" /\ UNCHANGED <<file, runs, server, stored>>
    BY <1>4 DEF Disconnect, NoRun
  <2>2. Records' = Records
    BY <2>1 DEF Records
  <2> QED BY <2>1, <2>2 DEF LossInv, Active, RowsFromFile, FromFile, Only
<1>5. CASE FinishRun
  <2>1. /\ run.at = "posting" /\ run.next > Len(run.recs) /\ run' = [run EXCEPT !.at = "done"]
        /\ UNCHANGED <<file, runs, server, stored>>
    BY <1>5 DEF FinishRun
  <2>2. Records' = Records /\ RunOK
    BY <2>1 DEF Records, LossInv, Active
  <2>3. /\ run'.at = "done" /\ run'.recs = run.recs /\ run'.next = run.next
        /\ run'.failed = run.failed
        /\ (run = [at |-> run.at, recs |-> run.recs, next |-> run.next, written |-> run.written,
                   deduped |-> run.deduped, failed |-> run.failed])'
    BY <2>1, <2>2 DEF RunOK
  <2>4. RunOK'
    BY <2>1, <2>2, <2>3 DEF RunOK
  <2> QED BY <2>1, <2>2, <2>3, <2>4 DEF LossInv, RowsFromFile, FromFile, Only
<1>6. CASE UNCHANGED importVars
  BY <1>6 DEF importVars, LossInv, Active, RunOK, RowsFromFile, FromFile, Only, Records
<1> QED BY <1>1, <1>2, <1>3, <1>4, <1>5, <1>6 DEF ImportNext

(* Whatever the parser consumed went into the body, the title, the kind or *)
(* the id, or was shadowed: an earlier alias did, or it is no text.  The   *)
(* rest is in the metadata.                                                *)
LEMMA ParsedSurvives ==
  ASSUME NEW rec, NEW format \in DOMAIN BodyNames, NEW kept, SameRecord(Parsed(rec, format), kept)
  PROVE  Survives(rec, format, kept)
<1> SUFFICES ASSUME NEW n \in DOMAIN rec, rec[n] \notin Blank
             PROVE  \/ n \in DOMAIN kept.meta /\ kept.meta[n] = rec[n]
                    \/ rec[n] \in {kept.body, kept.title, kept.kind, kept.id}
                    \/ Shadowed(rec, n, format)
  BY DEF Survives
<1>1. /\ kept.body = First(rec, BodyNames[format]) /\ kept.title = TitleOf(rec, format)
      /\ kept.id = First(rec, IdNames[format]) /\ kept.meta = Leftovers(rec, format)
      /\ First(rec, KindNames[format]) # "" /\ format # "block"
         => kept.kind = First(rec, KindNames[format])
  BY DEF SameRecord, Parsed
<1>2. CASE n \notin Consumed[format]
  BY <1>1, <1>2 DEF Leftovers
<1>3. CASE n \in Consumed[format]
  <2>1. \/ n \in ToSet(BodyNames[format])
        \/ n \in ToSet(TitleNames[format])
        \/ n \in ToSet(KindNames[format]) /\ format # "block"
        \/ n \in ToSet(IdNames[format])
    BY <1>3 DEF Consumed, BodyNames, TitleNames, KindNames, IdNames, ToSet
  <2>2. rec[n] # ""
    BY DEF Blank
  <2>3. First(rec, TitleNames[format]) # "" => kept.title = First(rec, TitleNames[format])
    BY <1>1 DEF TitleOf
  <2> QED BY <1>1, <1>3, <2>1, <2>2, <2>3 DEF Shadowed
<1> QED BY <1>2, <1>3

LEMMA LossInvMeans ==
  ASSUME LossInv
  PROVE  NothingElseLost
<1> SUFFICES ASSUME run.at = "done", run.failed = 0, run.recs = ParseFile(file),
                    NEW i \in DOMAIN ReadableEntries(file),
                    \A j \in DOMAIN ReadableEntries(file) :
                      j # i => ~SameText(run.recs[i], run.recs[j])
             PROVE  \E r \in DOMAIN stored :
                      /\ SameText(stored[r], run.recs[i])
                      /\ Survives(ReadableEntries(file)[i].rec, ReadableEntries(file)[i].format,
                                  stored[r])
  BY DEF NothingElseLost
<1>1. file \in Files /\ RunOK /\ run.recs = Records
  BY DEF LossInv, Active, Records
<1>2. i \in DOMAIN Records /\ Only(i) /\ DOMAIN Records = 1..Len(Records)
  BY <1>1, RecordsList DEF Only
<1>3. PICK r \in DOMAIN stored : SameText(stored[r], Records[i])
  BY <1>1, <1>2 DEF RunOK
<1>4. SameRecord(Records[i], stored[r])
  BY <1>2, <1>3 DEF LossInv, RowsFromFile, FromFile, SameText
<1>5. /\ Records[i] = Parsed(ReadableEntries(file)[i].rec, ReadableEntries(file)[i].format)
      /\ ReadableEntries(file)[i].format \in DOMAIN BodyNames
  BY <1>1, ImportAssumption DEF Records, ParseFile
<1> QED BY <1>1, <1>3, <1>4, <1>5, ParsedSurvives

(* NothingElseLost, for any files, and however the runs, the refusals and  *)
(* the abandoned requests of earlier ones mix: a record that has a text is *)
(* in the scope with every field but those the parser consumed without     *)
(* having read them.                                                       *)
THEOREM ImportLosesNothingElse == ImportSpec => []NothingElseLost
<1>1. ImportInit => LossInv
  <2>1. IsList(<<>>) /\ DOMAIN <<>> = {}
    <3>1. <<>> = [i \in 1..0 |-> <<>>[i]]
      OBVIOUS
    <3> QED BY <3>1 DEF IsList
  <2> QED BY <2>1 DEF ImportInit, NoRun, LossInv, Active, RowsFromFile
<1> QED BY <1>1, LossInvMeans, LossStep, PTL DEF ImportSpec
-----------------------------------------------------------------------------
(* The write path and the review queue, for any number of requests.        *)

Present(i) == row[i].status \in {"live", "open"}

(* Ids not handed out are free, an open row is of a request that has just  *)
(* written it or goes on with its batch, and a reviewer's page shows a     *)
(* memory.                                                                 *)
HasRows(c) == req[c].pc = "wrote" \/ (Writing(c) /\ req[c].pay.batch)

Fresh == \A i \in Ids : i >= nextId => row[i].status = "free"
Owned ==
  \A i \in Ids : row[i].status = "open" => row[i].owner \in Clients /\ HasRows(row[i].owner)
Pages == \A c \in Clients : req[c].pc \in {"reading", "deciding"} => req[c].id \in Ids

(* A write on its way to its row was judged by what it will store ...      *)
Judged ==
  \A c \in Clients :
    (req[c].pc \in {"miss", "granted"} /\ req[c].pay.low
      /\ Redact[req[c].pay.text] \in Suspicious) => req[c].review = "pending"

(* ... and what was held back is approved only on record, committed or not.*)
HeldBack ==
  \A i \in Ids :
    (Present(i) /\ row[i].low /\ ~row[i].edited /\ row[i].text \in Suspicious
      /\ row[i].review = "approved") => \E c \in Clients : <<i, "approved", c>> \in trail

StoreInv == TypeOK /\ Fresh /\ Owned /\ Pages /\ Judged /\ HeldBack

LEMMA Constants ==
  /\ Redact \in [Texts -> Texts] /\ Suspicious \subseteq Texts
  /\ Cap \in Nat /\ MaxId \in Nat /\ NoOne \notin Clients
  /\ AnyText \in Texts /\ Uncounted \in Nat /\ Cap < Uncounted /\ MaxId < Uncounted
  /\ FreeRow \in Row /\ IdleReq \in Req /\ NoPayload \in Payload
<1>1. AnyText \in Texts
  BY MemoryStoreAssumption DEF AnyText
<1>2. Uncounted \in Nat /\ Cap < Uncounted /\ MaxId < Uncounted
  BY MemoryStoreAssumption DEF Uncounted
<1>3. FreeRow \in Row
  BY <1>1 DEF FreeRow, Row
<1>4. NoPayload \in Payload
  BY <1>1 DEF NoPayload, Payload
<1>5. IdleReq \in Req
  BY <1>2, <1>4, MemoryStoreAssumption DEF IdleReq, Req, NoId
<1> QED BY <1>1, <1>2, <1>3, <1>4, <1>5, MemoryStoreAssumption

(* One column of a row, or one field of a request, is set at a time.       *)
LEMMA RowSet ==
  ASSUME NEW r \in Row
  PROVE  /\ [r EXCEPT !.status = "live", !.owner = NoOne] \in Row
         /\ \A v \in {"approved", "rejected"}, c \in Clients : [r EXCEPT !.review = v, !.by = c] \in Row
         /\ \A t \in Texts : [r EXCEPT !.text = t, !.edited = TRUE] \in Row
<1>1. [r EXCEPT !.status = "live", !.owner = NoOne] \in Row
  BY DEF Row
<1>2. ASSUME NEW v \in {"approved", "rejected"}, NEW c \in Clients
      PROVE  [r EXCEPT !.review = v, !.by = c] \in Row
  BY DEF Row
<1>3. ASSUME NEW t \in Texts PROVE [r EXCEPT !.text = t, !.edited = TRUE] \in Row
  BY DEF Row
<1> QED BY <1>1, <1>2, <1>3, Zenon

LEMMA ReqSet ==
  ASSUME NEW r \in Req
  PROVE  /\ \A pc \in {"wrote", "reading"} : [r EXCEPT !.pc = pc] \in Req
         /\ \A i \in 0..MaxId : [r EXCEPT !.pc = "reading", !.id = i] \in Req
         /\ \A a \in BOOLEAN : [r EXCEPT !.pc = "deciding", !.accept = a] \in Req
         /\ \A n \in 0..Uncounted : [r EXCEPT !.pc = "granted", !.count = n] \in Req
         /\ \A p \in Payload : [r EXCEPT !.pc = "wrote", !.review = "approved", !.pay = p] \in Req
         /\ \A p \in Payload, pc \in {"miss", "fold"}, v \in {"approved", "pending"},
               m \in Modes \cup {"unread"}, i \in 0..MaxId :
              [r EXCEPT !.pc = pc, !.pay = p, !.review = v, !.mode = m, !.id = i] \in Req
<1>1. ASSUME NEW pc \in {"wrote", "reading"} PROVE [r EXCEPT !.pc = pc] \in Req
  BY DEF Req
<1>2. ASSUME NEW i \in 0..MaxId PROVE [r EXCEPT !.pc = "reading", !.id = i] \in Req
  BY DEF Req
<1>3. ASSUME NEW a \in BOOLEAN PROVE [r EXCEPT !.pc = "deciding", !.accept = a] \in Req
  BY DEF Req
<1>4. ASSUME NEW n \in 0..Uncounted PROVE [r EXCEPT !.pc = "granted", !.count = n] \in Req
  BY DEF Req
<1>5. ASSUME NEW p \in Payload
      PROVE  [r EXCEPT !.pc = "wrote", !.review = "approved", !.pay = p] \in Req
  BY DEF Req
<1>6. ASSUME NEW p \in Payload, NEW pc \in {"miss", "fold"}, NEW v \in {"approved", "pending"},
             NEW m \in Modes \cup {"unread"}, NEW i \in 0..MaxId
      PROVE  [r EXCEPT !.pc = pc, !.pay = p, !.review = v, !.mode = m, !.id = i] \in Req
  BY DEF Req
<1> QED BY <1>1, <1>2, <1>3, <1>4, <1>5, <1>6, Zenon

LEMMA CountsRows == \A c \in Clients : CountForOrg(c) \in Nat
<1>1. \A c \in Clients : IsFiniteSet(Visible(c))
  <2>1. IsFiniteSet(Ids)
    BY Constants, FS_Interval DEF Ids
  <2>2. \A c \in Clients : Visible(c) \subseteq Ids
    BY DEF Visible
  <2> QED BY <2>1, <2>2, FS_Subset
<1> QED BY <1>1, FS_CardinalityType DEF CountForOrg

(* find_by_content_hash answers with a row, or with none if there is none. *)
LEMMA LookedUp ==
  ASSUME NEW c \in Clients, NEW t \in Texts
  PROVE  /\ FindByContentHash(c, t) \in 0..MaxId
         /\ FindByContentHash(c, t) = NoId
              => \A i \in Visible(c) : row[i].hash # Fingerprint(t)
<1> DEFINE M == {i \in Visible(c) : row[i].hash = Fingerprint(t)}
<1>1. M \subseteq Ids /\ Ids \subseteq Nat /\ 0 \notin Ids /\ Ids \subseteq 0..MaxId /\ 0 \in 0..MaxId
  BY Constants DEF Visible, Ids
<1>2. M # {} => Least(M) \in M
  <2> SUFFICES ASSUME M # {} PROVE Least(M) \in M
    OBVIOUS
  <2>1. M \in SUBSET Nat
    BY <1>1
  <2> HIDE DEF M
  <2> QED BY <2>1, LeastOf DEF Least
<1>3. FindByContentHash(c, t) = IF M = {} THEN NoId ELSE Least(M)
  BY DEF FindByContentHash
<1>4. M = {} => \A i \in Visible(c) : row[i].hash # Fingerprint(t)
  OBVIOUS
<1> HIDE DEF M
<1> QED BY <1>1, <1>2, <1>3, <1>4, Constants DEF NoId

(* Who takes a step, and what becomes of its request.                      *)
Own(c) ==
  /\ req' \in [Clients -> Req]
  /\ \A d \in Clients \ {c} : req'[d] = req[d]

LEMMA OwnStep ==
  ASSUME StoreInv, NEW c \in Clients, NEW q \in Req, req' = [req EXCEPT ![c] = q]
  PROVE  Own(c) /\ req'[c] = q
BY DEF StoreInv, TypeOK, Own

HistoryTyped == met \subseteq Clients /\ raced \subseteq Ids

(* A request that ends undoes or commits its rows: the others stay.        *)
LEMMA Ended ==
  ASSUME StoreInv, NEW c \in Clients, req' = [req EXCEPT ![c] = IdleReq],
         UNCHANGED <<mode, nextId, trail>>, HistoryTyped',
         \/ UNCHANGED row /\ ~HasRows(c)
         \/ row' = Undo(c)
         \/ row' = [i \in Ids |-> IF row[i].status = "open" /\ row[i].owner = c
                                  THEN [row[i] EXCEPT !.status = "live", !.owner = NoOne]
                                  ELSE row[i]]
  PROVE  StoreInv'
<1>1. Own(c) /\ req'[c] = IdleReq
  BY Constants DEF StoreInv, TypeOK, Own
<1>2. /\ row' \in [Ids -> Row]
      /\ \A i \in Ids : \/ row'[i] = row[i]
                        \/ row[i].status = "open" /\ row'[i].status = "gone"
                        \/ /\ row[i].status = "open" /\ row'[i].status = "live"
                           /\ row'[i].low = row[i].low /\ row'[i].edited = row[i].edited
                           /\ row'[i].text = row[i].text /\ row'[i].review = row[i].review
  <2>1. CASE row' = Undo(c)
    BY <2>1, Constants DEF StoreInv, TypeOK, Undo, Row, FreeRow
  <2>2. CASE row' = [i \in Ids |-> IF row[i].status = "open" /\ row[i].owner = c
                                  THEN [row[i] EXCEPT !.status = "live", !.owner = NoOne]
                                  ELSE row[i]]
    <3>1. \A i \in Ids : /\ row[i] \in Row
                         /\ [row[i] EXCEPT !.status = "live", !.owner = NoOne] \in Row
      BY RowSet DEF StoreInv, TypeOK
    <3>2. \A i \in Ids :
            LET r == [row[i] EXCEPT !.status = "live", !.owner = NoOne]
            IN /\ r.status = "live" /\ r.low = row[i].low /\ r.edited = row[i].edited
               /\ r.text = row[i].text /\ r.review = row[i].review
      BY <3>1 DEF Row
    <3>3. \A i \in Ids :
            row'[i] = IF row[i].status = "open" /\ row[i].owner = c
                      THEN [row[i] EXCEPT !.status = "live", !.owner = NoOne] ELSE row[i]
      BY <2>2
    <3> QED BY <2>2, <3>1, <3>2, <3>3
  <2> QED BY <2>1, <2>2 DEF StoreInv, TypeOK
<1>3. TypeOK'
  BY <1>1, <1>2 DEF StoreInv, TypeOK, Own, HistoryTyped
<1>4. Fresh'
  BY <1>2 DEF StoreInv, Fresh, Ids
<1>7. Owned'
  <2>1. \A i \in Ids : row'[i].status = "open" =>
          row[i].status = "open" /\ row'[i].owner = row[i].owner /\ row[i].owner # c
    <3>1. CASE UNCHANGED row /\ ~HasRows(c)
      BY <3>1 DEF StoreInv, Owned
    <3>2. CASE row' = Undo(c)
      BY <3>2 DEF Undo, FreeRow
    <3>3. CASE row' = [i \in Ids |-> IF row[i].status = "open" /\ row[i].owner = c
                                    THEN [row[i] EXCEPT !.status = "live", !.owner = NoOne]
                                    ELSE row[i]]
      <4>1. \A i \in Ids : [row[i] EXCEPT !.status = "live", !.owner = NoOne].status = "live"
        BY DEF StoreInv, TypeOK, Row
      <4> QED BY <3>3, <4>1
    <3> QED BY <3>1, <3>2, <3>3
  <2>2. \A d \in Clients \ {c} : HasRows(d) => HasRows(d)'
    BY <1>1 DEF Own, HasRows, Writing
  <2> QED BY <2>1, <2>2 DEF StoreInv, Owned
<1>5. Pages' /\ Judged'
  BY <1>1 DEF StoreInv, Pages, Judged, Own, IdleReq
<1>6. HeldBack'
  BY <1>2 DEF StoreInv, HeldBack, Present
<1> QED BY <1>3, <1>4, <1>5, <1>6, <1>7 DEF StoreInv

(* A step of a request that touches no row.                                *)
LEMMA Looks ==
  ASSUME StoreInv, NEW c \in Clients, Own(c), UNCHANGED <<row, mode, nextId, trail>>,
         HistoryTyped', HasRows(c) => HasRows(c)',
         req'[c].pc \in {"reading", "deciding"} => req'[c].id \in Ids,
         (req'[c].pc \in {"miss", "granted"} /\ req'[c].pay.low
            /\ Redact[req'[c].pay.text] \in Suspicious) => req'[c].review = "pending"
  PROVE  StoreInv'
<1>1. TypeOK' /\ Fresh' /\ HeldBack'
  BY DEF StoreInv, TypeOK, Own, Fresh, HeldBack, Present, HistoryTyped
<1>3. Owned'
  <2>1. \A d \in Clients : HasRows(d) => HasRows(d)'
    BY DEF Own, HasRows, Writing
  <2> QED BY <2>1 DEF StoreInv, Owned
<1>2. Pages' /\ Judged'
  BY DEF StoreInv, Pages, Judged, Own
<1> QED BY <1>1, <1>2, <1>3 DEF StoreInv

LEMMA LookupStep ==
  ASSUME StoreInv, NEW c \in Clients, NEW p \in Writes, NEW unsure \in BOOLEAN,
         WriteLookup(c, p, unsure)
  PROVE  StoreInv'
<1> DEFINE found == IF p.force THEN NoId ELSE FindByContentHash(c, p.text)
           m == IF req[c].mode = "unread" THEN mode ELSE req[c].mode
           verdict == DecideReview(m, p, unsure)
<1>1. p \in Payload /\ p.text \in Texts /\ p.force \in BOOLEAN /\ p.low \in BOOLEAN
  BY DEF Writes, Payload
<1>2. found \in 0..MaxId
  BY <1>1, LookedUp, Constants DEF NoId
<1>3. m \in Modes \cup {"unread"}
  BY DEF StoreInv, TypeOK, Req
<1>4. verdict \in {"approved", "pending"}
  BY DEF DecideReview
<1>5. (p.low /\ Redact[p.text] \in Suspicious) => verdict = "pending"
  BY DEF DecideReview
<1>6. req' = [req EXCEPT ![c].pc = IF found = NoId THEN "miss" ELSE "fold", ![c].pay = p,
                         ![c].review = verdict, ![c].mode = IF p.batch THEN m ELSE "unread",
                         ![c].id = found]
  BY DEF WriteLookup
<1> HIDE DEF found, m, verdict
<1>7. /\ Own(c) /\ req'[c].pc \in {"miss", "fold"} /\ req'[c].pay = p /\ req'[c].review = verdict
  <2> DEFINE pc == IF found = NoId THEN "miss" ELSE "fold"
             md == IF p.batch THEN m ELSE "unread"
             q == [req[c] EXCEPT !.pc = pc, !.pay = p, !.review = verdict, !.mode = md, !.id = found]
  <2>1. pc \in {"miss", "fold"} /\ md \in Modes \cup {"unread"}
    BY <1>3
  <2>2. req[c] \in Req /\ req' = [req EXCEPT ![c] = q]
    BY <1>6 DEF StoreInv, TypeOK
  <2> HIDE DEF pc, md
  <2>3. q \in Req /\ q.pc = pc /\ q.pay = p /\ q.review = verdict
    <3>1. q \in Req
      BY <1>1, <1>2, <1>4, <2>1, <2>2, ReqSet
    <3> QED BY <2>2, <3>1 DEF Req
  <2> HIDE DEF q
  <2> QED BY <2>1, <2>2, <2>3, OwnStep
<1>8. HasRows(c) => HasRows(c)'
  BY <1>7 DEF WriteLookup, HasRows, Writing
<1>9. HistoryTyped'
  BY DEF WriteLookup, HistoryTyped, StoreInv, TypeOK, Rivals
<1> QED BY <1>5, <1>7, <1>8, <1>9, Looks DEF WriteLookup

LEMMA InsertStep ==
  ASSUME StoreInv, NEW c \in Clients, WriteInsert(c)
  PROVE  StoreInv'
<1> DEFINE p == req[c].pay
           new == [ status |-> "open", owner |-> c, text |-> Redact[p.text],
                    hash |-> Fingerprint(p.text), review |-> req[c].review, by |-> NoOne,
                    low |-> p.low, forced |-> p.force, edited |-> FALSE ]
           rest == [NoPayload EXCEPT !.batch = p.batch]
<1>1. p \in Payload /\ req[c].review \in {"approved", "pending"} /\ req[c].pc = "granted"
  BY DEF WriteInsert, StoreInv, TypeOK, Req
<1>2. new \in Row /\ rest \in Payload /\ rest.low = FALSE
  BY <1>1, Constants DEF Payload, Row, Fingerprint, NoPayload
<1>3. /\ new.status = "open" /\ new.owner = c /\ new.text = Redact[req[c].pay.text]
      /\ new.low = req[c].pay.low /\ new.review = req[c].review
  OBVIOUS
<1>4. /\ row' = [row EXCEPT ![nextId] = new] /\ nextId' = nextId + 1 /\ nextId <= MaxId
      /\ req' = [req EXCEPT ![c].pc = "wrote", ![c].review = "approved", ![c].pay = rest]
      /\ UNCHANGED <<mode, trail>>
  BY DEF WriteInsert
<1> HIDE DEF p, new, rest
<1>5. nextId \in Ids /\ nextId' \in 1..(MaxId + 1)
  BY <1>4, Constants DEF StoreInv, TypeOK, Ids
<1>6. /\ row' \in [Ids -> Row] /\ row'[nextId] = new
      /\ \A i \in Ids \ {nextId} : row'[i] = row[i]
  BY <1>2, <1>4, <1>5 DEF StoreInv, TypeOK
<1>7. Own(c) /\ req'[c].pc = "wrote"
  <2> DEFINE q == [req[c] EXCEPT !.pc = "wrote", !.review = "approved", !.pay = rest]
  <2>1. req[c] \in Req /\ req' = [req EXCEPT ![c] = q]
    BY <1>4 DEF StoreInv, TypeOK
  <2>2. q \in Req /\ q.pc = "wrote"
    <3>1. q \in Req
      BY <1>2, <2>1, ReqSet
    <3> QED BY <2>1, <3>1 DEF Req
  <2> HIDE DEF q
  <2> QED BY <2>1, <2>2, OwnStep
<1>8. TypeOK'
  <2>1. met' \subseteq Clients /\ raced' \subseteq Ids
    BY <1>5 DEF WriteInsert, StoreInv, TypeOK
  <2> QED BY <1>4, <1>5, <1>6, <1>7, <2>1 DEF StoreInv, TypeOK, Own
<1>9. Fresh' /\ Owned'
  <2>1. \A d \in Clients : HasRows(d) => HasRows(d)'
    BY <1>7 DEF Own, HasRows, Writing
  <2>2. HasRows(c)'
    BY <1>7 DEF HasRows
  <2> QED BY <1>3, <1>4, <1>5, <1>6, <2>1, <2>2 DEF StoreInv, TypeOK, Fresh, Owned, Ids
<1>10. Pages' /\ Judged'
  BY <1>7 DEF StoreInv, Pages, Judged, Own
<1>11. HeldBack'
  BY <1>1, <1>3, <1>4, <1>5, <1>6 DEF StoreInv, Judged, HeldBack, Present
<1> QED BY <1>8, <1>9, <1>10, <1>11 DEF StoreInv

(* A verdict on some rows, each with its entry in the trail.               *)
LEMMA VerdictStep ==
  ASSUME StoreInv, NEW c \in Clients, NEW S \in SUBSET Ids, NEW v \in {"approved", "rejected"},
         row' = [i \in Ids |-> IF i \in S THEN [row[i] EXCEPT !.review = v, !.by = c] ELSE row[i]],
         trail' = trail \cup {<<i, v, c>> : i \in S},
         Own(c), req'[c].pc \in {"idle", "reading"}, ~HasRows(c), UNCHANGED <<met, raced>>,
         req'[c].pc = "reading" => req'[c].id \in Ids,
         UNCHANGED <<mode, nextId>>
  PROVE  StoreInv'
<1>1. \A i \in Ids : row[i] \in Row /\ [row[i] EXCEPT !.review = v, !.by = c] \in Row
  BY RowSet DEF StoreInv, TypeOK
<1>2. \A i \in Ids :
        LET w == [row[i] EXCEPT !.review = v, !.by = c]
        IN /\ w.status = row[i].status /\ w.owner = row[i].owner /\ w.low = row[i].low
           /\ w.edited = row[i].edited /\ w.text = row[i].text /\ w.review = v
  BY <1>1 DEF Row
<1>3. row' \in [Ids -> Row]
  BY <1>1
<1>4. \A i \in Ids : /\ row'[i].status = row[i].status /\ row'[i].owner = row[i].owner
                     /\ row'[i].low = row[i].low /\ row'[i].edited = row[i].edited
                     /\ row'[i].text = row[i].text
                     /\ row'[i].review = IF i \in S THEN v ELSE row[i].review
  BY <1>2
<1>5. TypeOK'
  <2> DEFINE Decisions == Ids \X {"approved", "rejected"} \X Clients
  <2>1. \A i \in S : <<i, v, c>> \in Decisions
    OBVIOUS
  <2>2. trail \subseteq Decisions
    BY DEF StoreInv, TypeOK
  <2> HIDE DEF Decisions
  <2>3. trail' \subseteq Decisions
    BY <2>1, <2>2
  <2> QED BY <1>3, <2>3 DEF StoreInv, TypeOK, Own, Decisions
<1>6. Fresh' /\ Owned'
  <2>1. \A d \in Clients : HasRows(d) => HasRows(d)'
    BY DEF Own, HasRows, Writing
  <2> QED BY <1>4, <2>1 DEF StoreInv, Fresh, Owned
<1>7. Pages' /\ Judged'
  BY DEF StoreInv, Pages, Judged, Own
<1>8. HeldBack'
  <2> SUFFICES ASSUME NEW i \in Ids, Present(i)', row'[i].low, ~row'[i].edited,
                      row'[i].text \in Suspicious, row'[i].review = "approved"
               PROVE  \E d \in Clients : <<i, "approved", d>> \in trail'
    BY DEF HeldBack
  <2>1. CASE i \in S
    <3>1. v = "approved"
      BY <2>1, <1>4
    <3> QED BY <2>1, <3>1
  <2>2. CASE i \notin S
    BY <2>2, <1>4 DEF StoreInv, HeldBack, Present
  <2> QED BY <2>1, <2>2
<1> QED BY <1>5, <1>6, <1>7, <1>8 DEF StoreInv

LEMMA HistoryKept == TypeOK /\ [Next]_vars => HistoryTyped'
<1> SUFFICES ASSUME TypeOK, [Next]_vars PROVE HistoryTyped'
  OBVIOUS
<1>1. ASSUME NEW c \in Clients, WriteInsert(c) PROVE HistoryTyped'
  <2>1. nextId \in Ids
    BY <1>1, Constants DEF WriteInsert, TypeOK, Ids
  <2> QED BY <1>1, <2>1 DEF WriteInsert, TypeOK, HistoryTyped
<1>2. ASSUME NEW c \in Clients, NEW p \in Writes, NEW unsure \in BOOLEAN, WriteLookup(c, p, unsure)
      PROVE  HistoryTyped'
  BY <1>2 DEF WriteLookup, Rivals, TypeOK, HistoryTyped
<1>3. ASSUME NEW c \in Clients, WriteFold(c) \/ QuotaExceeded(c) \/ Commit(c) \/ Fail(c)
      PROVE  HistoryTyped'
  BY <1>3 DEF WriteFold, QuotaExceeded, Commit, Fail, TypeOK, HistoryTyped
<1>4. CASE UNCHANGED <<met, raced>>
  BY <1>4 DEF TypeOK, HistoryTyped
<1> QED BY <1>1, <1>2, <1>3, <1>4 DEF Next, vars, EnforceQuota, Update, Delete, SetReviewMode,
      ReviewRead, ReviewLoad, ReviewCommit, BulkReview

LEMMA StoreStep == StoreInv /\ [Next]_vars => StoreInv'
<1> SUFFICES ASSUME StoreInv, [Next]_vars PROVE StoreInv'
  OBVIOUS
<1>0. HistoryTyped'
  BY HistoryKept DEF StoreInv
<1>1. ASSUME NEW c \in Clients, WriteFold(c) PROVE StoreInv'
  <2>1. CASE req[c].pay.batch
    <3>1. req' = [req EXCEPT ![c].pc = "wrote"]
      BY <1>1, <2>1 DEF WriteFold
    <3>2. Own(c) /\ req'[c].pc = "wrote"
      BY <3>1 DEF StoreInv, TypeOK, Req, Own
    <3>3. HasRows(c)'
      BY <3>2 DEF HasRows
    <3> QED BY <1>0, <1>1, <3>2, <3>3, Looks DEF WriteFold
  <2>2. CASE ~req[c].pay.batch
    <3>1. ~HasRows(c)
      BY <1>1, <2>2 DEF WriteFold, HasRows
    <3> QED BY <1>0, <1>1, <2>2, <3>1, Ended DEF WriteFold
  <2> QED BY <2>1, <2>2
<1>2. ASSUME NEW c \in Clients, EnforceQuota(c) PROVE StoreInv'
  <2>1. QuotaCount(c) \in Nat
    BY CountsRows, Constants DEF QuotaCount, StoreInv, TypeOK, Req
  <2>2. QuotaCount(c) + 1 \in 0..Uncounted
    BY <1>2, <2>1, Constants DEF EnforceQuota
  <2> DEFINE q == [req[c] EXCEPT !.pc = "granted", !.count = QuotaCount(c) + 1]
  <2>3. req[c] \in Req /\ req' = [req EXCEPT ![c] = q]
    BY <1>2 DEF EnforceQuota, StoreInv, TypeOK
  <2>4. /\ Own(c) /\ req'[c].pc = "granted" /\ req'[c].pay = req[c].pay
        /\ req'[c].review = req[c].review
    <3>1. q \in Req
      BY <2>2, <2>3, ReqSet
    <3>2. q.pc = "granted" /\ q.pay = req[c].pay /\ q.review = req[c].review
      BY <2>3 DEF Req
    <3> HIDE DEF q
    <3> QED BY <2>3, <3>1, <3>2, OwnStep
  <2>5. req[c].pc = "miss"
    BY <1>2 DEF EnforceQuota
  <2>6. HasRows(c) => HasRows(c)'
    BY <2>4, <2>5 DEF HasRows, Writing
  <2> QED BY <1>0, <1>2, <2>4, <2>5, <2>6, Looks DEF EnforceQuota, StoreInv, Judged
<1>3. ASSUME NEW c \in Clients, QuotaExceeded(c) \/ Commit(c) \/ Fail(c) PROVE StoreInv'
  BY <1>0, <1>3, Ended DEF QuotaExceeded, Commit, Fail
<1>4. ASSUME NEW i \in Ids, NEW t \in Texts, Update(i, t) PROVE StoreInv'
  <2>1. /\ row' \in [Ids -> Row]
        /\ \A j \in Ids \ {i} : row'[j] = row[j]
        /\ row'[i].edited /\ row'[i].status = "live" /\ row[i].status = "live"
    <3>1. row[i] \in Row /\ [row[i] EXCEPT !.text = t, !.edited = TRUE] \in Row
      BY RowSet DEF StoreInv, TypeOK
    <3>2. row' = [row EXCEPT ![i] = [row[i] EXCEPT !.text = t, !.edited = TRUE]]
      BY <1>4 DEF Update, StoreInv, TypeOK
    <3>3. /\ [row[i] EXCEPT !.text = t, !.edited = TRUE].edited
          /\ [row[i] EXCEPT !.text = t, !.edited = TRUE].status = row[i].status
      BY <3>1 DEF Row
    <3>4. row'[i] = [row[i] EXCEPT !.text = t, !.edited = TRUE] /\ row' \in [Ids -> Row]
      BY <3>1, <3>2 DEF StoreInv, TypeOK
    <3> QED BY <1>4, <3>2, <3>3, <3>4 DEF Update, Live, StoreInv, TypeOK
  <2>2. TypeOK' /\ Pages' /\ Judged'
    BY <1>4, <2>1 DEF Update, StoreInv, TypeOK, Pages, Judged
  <2>3. Fresh' /\ Owned'
    BY <1>4, <2>1 DEF Update, StoreInv, Fresh, Owned, HasRows, Writing
  <2>4. HeldBack'
    BY <1>4, <2>1 DEF Update, StoreInv, HeldBack, Present
  <2> QED BY <2>2, <2>3, <2>4 DEF StoreInv
<1>5. ASSUME NEW i \in Ids, Delete(i) PROVE StoreInv'
  <2>1. /\ row' \in [Ids -> Row]
        /\ \A j \in Ids \ {i} : row'[j] = row[j]
        /\ row'[i].status = "gone" /\ row[i].status = "live"
    BY <1>5, Constants DEF Delete, Live, StoreInv, TypeOK, Row, FreeRow
  <2>2. TypeOK' /\ Pages' /\ Judged'
    BY <1>5, <2>1 DEF Delete, StoreInv, TypeOK, Pages, Judged
  <2>3. Fresh' /\ Owned'
    BY <1>5, <2>1 DEF Delete, StoreInv, Fresh, Owned, HasRows, Writing
  <2>4. HeldBack'
    BY <1>5, <2>1 DEF Delete, StoreInv, HeldBack, Present
  <2> QED BY <2>2, <2>3, <2>4 DEF StoreInv
<1>6. CASE UNCHANGED <<row, nextId, req, trail, met, raced>> /\ mode' \in Modes
  BY <1>6 DEF StoreInv, TypeOK, Fresh, Owned, HasRows, Writing, Pages, Judged, HeldBack, Present
<1>7. ASSUME NEW c \in Clients, NEW i \in Ids, ReviewRead(c, i) PROVE StoreInv'
  <2> DEFINE q == [req[c] EXCEPT !.pc = "reading", !.id = i]
  <2>1. req[c] \in Req /\ req' = [req EXCEPT ![c] = q]
    BY <1>7 DEF ReviewRead, StoreInv, TypeOK
  <2>2. Own(c) /\ req'[c].pc = "reading" /\ req'[c].id = i
    <3>1. i \in 0..MaxId
      BY Constants DEF Ids
    <3>2. q \in Req
      BY <2>1, <3>1, ReqSet
    <3>3. q.pc = "reading" /\ q.id = i
      BY <2>1 DEF Req
    <3> HIDE DEF q
    <3> QED BY <2>1, <3>2, <3>3, OwnStep
  <2>3. ~HasRows(c)
    BY <1>7 DEF ReviewRead, HasRows, Writing
  <2> QED BY <1>0, <1>7, <2>2, <2>3, Looks DEF ReviewRead
<1>8. ASSUME NEW c \in Clients, NEW a \in BOOLEAN, ReviewLoad(c, a) PROVE StoreInv'
  <2>3. ~HasRows(c)
    BY <1>8 DEF ReviewLoad, HasRows, Writing
  <2>1. CASE req' = [req EXCEPT ![c] = IdleReq]
    BY <1>0, <1>8, <2>1, <2>3, Ended DEF ReviewLoad
  <2>2. CASE req' = [req EXCEPT ![c].pc = "deciding", ![c].accept = a]
    <3>1. Own(c) /\ req'[c].pc = "deciding" /\ req'[c].id = req[c].id
      <4> DEFINE q == [req[c] EXCEPT !.pc = "deciding", !.accept = a]
      <4>1. req[c] \in Req /\ req' = [req EXCEPT ![c] = q]
        BY <2>2 DEF StoreInv, TypeOK
      <4>2. q \in Req
        BY <4>1, ReqSet
      <4>3. q.pc = "deciding" /\ q.id = req[c].id
        BY <4>1 DEF Req
      <4> HIDE DEF q
      <4> QED BY <4>1, <4>2, <4>3, OwnStep
    <3>2. req[c].id \in Ids
      BY <1>8 DEF ReviewLoad, StoreInv, Pages
    <3> QED BY <1>0, <1>8, <2>3, <3>1, <3>2, Looks DEF ReviewLoad
  <2> QED BY <1>8, <2>1, <2>2 DEF ReviewLoad
<1>9. ASSUME NEW c \in Clients, ReviewCommit(c) PROVE StoreInv'
  <2> DEFINE i == req[c].id
             v == Verdict(req[c].accept)
  <2>1. i \in Ids /\ req[c].accept \in BOOLEAN /\ v \in {"approved", "rejected"}
    BY <1>9 DEF ReviewCommit, StoreInv, TypeOK, Req, Pages, Verdict
  <2>2. /\ row' = [row EXCEPT ![i].review = v, ![i].by = c]
        /\ trail' = trail \cup {<<i, v, c>>} /\ req' = [req EXCEPT ![c].pc = "reading"]
        /\ UNCHANGED <<mode, nextId, met, raced>>
    BY <1>9 DEF ReviewCommit
  <2>8. ~HasRows(c)
    BY <1>9 DEF ReviewCommit, HasRows, Writing
  <2>3. Own(c) /\ req'[c].pc = "reading" /\ req'[c].id = i
    BY <2>2 DEF StoreInv, TypeOK, Req, Own
  <2>4. row' = [j \in Ids |-> IF j \in {i} THEN [row[j] EXCEPT !.review = v, !.by = c] ELSE row[j]]
    <3> HIDE DEF i, v
    <3> QED BY <2>1, <2>2 DEF StoreInv, TypeOK
  <2>5. trail' = trail \cup {<<j, v, c>> : j \in {i}}
    BY <2>2
  <2> HIDE DEF i, v
  <2>6. UNCHANGED <<mode, nextId, met, raced>> /\ req'[c].pc \in {"idle", "reading"} /\ req'[c].id \in Ids
    BY <2>1, <2>2, <2>3
  <2>7. {i} \in SUBSET Ids
    BY <2>1
  <2> QED BY <2>1, <2>3, <2>4, <2>5, <2>6, <2>7, <2>8, VerdictStep
<1>10. ASSUME NEW c \in Clients, NEW S \in SUBSET Ids, NEW a \in BOOLEAN, BulkReview(c, S, a)
       PROVE  StoreInv'
  <2> DEFINE held == {i \in S : Live(i) /\ row[i].review = "pending"}
             v == Verdict(a)
  <2>1. held \in SUBSET Ids /\ v \in {"approved", "rejected"}
    BY DEF Verdict
  <2>2. /\ row' = [i \in Ids |-> IF i \in held THEN [row[i] EXCEPT !.review = v, !.by = c]
                                 ELSE row[i]]
        /\ trail' = trail \cup {<<i, v, c>> : i \in held}
        /\ UNCHANGED <<mode, nextId, req, met, raced>> /\ req[c].pc = "idle"
    BY <1>10 DEF BulkReview
  <2>4. ~HasRows(c)
    BY <2>2 DEF HasRows, Writing
  <2> HIDE DEF held
  <2>3. Own(c) /\ req'[c].pc = "idle"
    BY <2>2 DEF StoreInv, TypeOK, Own
  <2> HIDE DEF v
  <2> QED BY <2>1, <2>2, <2>3, <2>4, VerdictStep
<1>11. CASE UNCHANGED vars
  <2>1. UNCHANGED <<row, nextId, req, trail, met, raced>> /\ mode' \in Modes
    BY <1>11 DEF vars, StoreInv, TypeOK
  <2> QED BY <1>6, <2>1
<1>12. ASSUME NEW m \in Modes, SetReviewMode(m) PROVE StoreInv'
  BY <1>6, <1>12 DEF SetReviewMode
<1> QED BY <1>1, <1>2, <1>3, <1>4, <1>5, <1>7, <1>8, <1>9, <1>10, <1>11, <1>12, LookupStep, InsertStep
     DEF Next

LEMMA StoreInit == Init => StoreInv
<1> SUFFICES ASSUME Init PROVE StoreInv
  OBVIOUS
<1>1. TypeOK
  BY Constants DEF Init, TypeOK
<1>2. \A i \in Ids : row[i].status = "free"
  BY DEF Init, FreeRow
<1>3. \A c \in Clients : req[c].pc = "idle"
  BY DEF Init, IdleReq
<1> QED BY <1>1, <1>2, <1>3 DEF StoreInv, Fresh, Owned, Pages, Judged, HeldBack, Present

THEOREM StoreTypeCorrect == Spec => []TypeOK
<1>1. StoreInv => TypeOK
  BY DEF StoreInv
<1> QED BY <1>1, StoreInit, StoreStep, PTL DEF Spec

(* SuspiciousHeld: "turning off a quality control must not turn off a      *)
(* security one" (decide_review): suspicious text of low trust is          *)
(* retrievable only after a recorded approval, however many requests,      *)
(* reviewers and changes of the review mode interleave.                    *)
THEOREM SuspiciousIsHeld == Spec => []SuspiciousHeld
<1>1. StoreInv => SuspiciousHeld
  BY DEF StoreInv, HeldBack, SuspiciousHeld, LiveIds, Live, Present
<1> QED BY <1>1, StoreInit, StoreStep, PTL DEF Spec
-----------------------------------------------------------------------------
(* Deduplication.                                                          *)

(* The hash is that of the text until the text is edited; requests that    *)
(* write at once have met; what a write that met no other did not find is  *)
(* not there; and of two rows with one hash the later one was forced, or   *)
(* written by a request that had met another.                              *)
Hashed == \A i \in Ids : (Present(i) /\ ~row[i].edited) => row[i].text = row[i].hash
Together == \A c, d \in Clients : (c # d /\ Writing(c) /\ Writing(d)) => c \in met
Missed ==
  \A c \in Clients : (req[c].pc \in {"miss", "granted"} /\ ~req[c].pay.force /\ c \notin met)
    => \A i \in Ids : Present(i) => row[i].hash # Fingerprint(req[c].pay.text)
LaterForced ==
  \A i, j \in Ids : (Present(i) /\ Present(j) /\ i < j /\ row[i].hash = row[j].hash)
    => row[j].forced \/ j \in raced
TwinInv == Hashed /\ Together /\ Missed /\ LaterForced

(* Most steps only take rows away, edit their text or judge them, and put  *)
(* no write on its way.                                                    *)
KeepsRows ==
  \A i \in Ids : Present(i)' =>
    /\ Present(i) /\ row'[i].hash = row[i].hash /\ row'[i].forced = row[i].forced
    /\ row'[i].edited \/ (~row[i].edited /\ row'[i].text = row[i].text)
KeepsWrites ==
  /\ raced \subseteq raced'
  /\ \A c \in Clients : Writing(c)' => Writing(c) /\ (c \in met => c \in met')
  /\ \A c \in Clients : req'[c].pc \in {"miss", "granted"} =>
       req[c].pc \in {"miss", "granted"} /\ req'[c].pay = req[c].pay

LEMMA RowsKept == ASSUME TwinInv, KeepsRows, KeepsWrites PROVE TwinInv'
<1>1. Hashed'
  BY DEF TwinInv, Hashed, KeepsRows
<1>2. LaterForced'
  BY DEF TwinInv, LaterForced, KeepsRows, KeepsWrites
<1>3. Together'
  BY DEF TwinInv, Together, KeepsWrites
<1>4. Missed'
  <2> SUFFICES ASSUME NEW c \in Clients, req'[c].pc \in {"miss", "granted"},
                      ~req'[c].pay.force, c \notin met', NEW i \in Ids, Present(i)'
               PROVE  row'[i].hash # Fingerprint(req'[c].pay.text)
    BY DEF Missed, Fingerprint
  <2>1. req[c].pc \in {"miss", "granted"} /\ req'[c].pay = req[c].pay /\ c \notin met
    BY DEF KeepsWrites, Writing
  <2>2. Present(i) /\ row'[i].hash = row[i].hash
    BY DEF KeepsRows
  <2> QED BY <2>1, <2>2 DEF TwinInv, Missed
<1> QED BY <1>1, <1>2, <1>3, <1>4 DEF TwinInv

LEMMA LookupMisses ==
  ASSUME StoreInv, TwinInv, NEW c \in Clients, NEW p \in Writes,
         NEW unsure \in BOOLEAN, WriteLookup(c, p, unsure)
  PROVE  TwinInv'
<1> DEFINE found == IF p.force THEN NoId ELSE FindByContentHash(c, p.text)
<1>1. p.text \in Texts /\ p.force \in BOOLEAN
  BY DEF Writes, Payload
<1>2. ASSUME Rivals(c) = {} PROVE \A i \in Ids : Present(i) => i \in Visible(c)
  <2> SUFFICES ASSUME NEW i \in Ids, Present(i) PROVE i \in Visible(c)
    OBVIOUS
  <2>1. CASE row[i].status = "open"
    <3>1. row[i].owner \in Clients /\ Writing(row[i].owner)
      BY <2>1 DEF StoreInv, Owned, HasRows, Writing
    <3>2. row[i].owner = c
      BY <1>2, <3>1 DEF Rivals
    <3> QED BY <2>1, <3>2 DEF Visible
  <2> QED BY <2>1 DEF Present, Visible, Live
<1>3. (Rivals(c) = {} /\ found = NoId /\ ~p.force)
        => \A i \in Ids : Present(i) => row[i].hash # Fingerprint(p.text)
  BY <1>1, <1>2, LookedUp
<1>4. /\ req'[c].pc = (IF found = NoId THEN "miss" ELSE "fold") /\ req'[c].pay = p
      /\ \A d \in Clients \ {c} : req'[d] = req[d]
  <2>1. req[c] \in Req
    BY DEF StoreInv, TypeOK
  <2> QED BY <2>1 DEF WriteLookup, Req, StoreInv, TypeOK
<1> HIDE DEF found
<1>5. \A d \in Clients \ {c} : Writing(d)' => d \in Rivals(c)
  BY <1>4 DEF Writing, Rivals
<1>6. Rivals(c) # {} => \A d \in Clients : Writing(d)' => d \in met'
  BY <1>5 DEF WriteLookup
<1>7. Together'
  BY <1>5, <1>6 DEF Together
<1>8. Missed'
  <2> SUFFICES ASSUME NEW d \in Clients, req'[d].pc \in {"miss", "granted"}, ~req'[d].pay.force,
                      d \notin met'
               PROVE  \A i \in Ids : Present(i)' => row'[i].hash # Fingerprint(req'[d].pay.text)
    BY DEF Missed, Fingerprint
  <2>1. Writing(d)'
    BY DEF Writing
  <2>2. Rivals(c) = {} /\ d = c
    BY <1>5, <1>6, <2>1
  <2>3. found = NoId /\ req'[d].pay = p
    BY <1>4, <2>2
  <2> QED BY <1>3, <2>2, <2>3 DEF WriteLookup, Present
<1>9. Hashed' /\ LaterForced'
  BY DEF WriteLookup, TwinInv, Hashed, LaterForced, Present
<1> QED BY <1>7, <1>8, <1>9 DEF TwinInv

LEMMA InsertedLast ==
  ASSUME StoreInv, TwinInv, NEW c \in Clients, WriteInsert(c)
  PROVE  TwinInv'
<1> DEFINE p == req[c].pay
           new == [ status |-> "open", owner |-> c, text |-> Redact[p.text],
                    hash |-> Fingerprint(p.text), review |-> req[c].review, by |-> NoOne,
                    low |-> p.low, forced |-> p.force, edited |-> FALSE ]
<1>1. /\ req[c].pc = "granted" /\ nextId \in Ids /\ row' = [row EXCEPT ![nextId] = new]
      /\ req'[c].pc = "wrote" /\ p.force \in BOOLEAN
      /\ \A d \in Clients \ {c} : req'[d] = req[d]
  <2>1. req[c] \in Req
    BY DEF StoreInv, TypeOK
  <2>2. p.force \in BOOLEAN
    BY <2>1 DEF Req, Payload
  <2>3. nextId \in Ids
    BY Constants DEF WriteInsert, StoreInv, TypeOK, Ids
  <2>4. req'[c].pc = "wrote" /\ \A d \in Clients \ {c} : req'[d] = req[d]
    BY <2>1 DEF WriteInsert, Req, StoreInv, TypeOK
  <2> QED BY <2>2, <2>3, <2>4 DEF WriteInsert
<1>2. /\ new.hash = Fingerprint(p.text) /\ new.text = Fingerprint(p.text)
      /\ new.forced = p.force
  BY DEF Fingerprint
<1> HIDE DEF new
<1>3. row'[nextId] = new /\ \A i \in Ids \ {nextId} : row'[i] = row[i]
  BY <1>1 DEF StoreInv, TypeOK
<1>4. Hashed'
  BY <1>2, <1>3 DEF TwinInv, Hashed, Present
<1>5. met' = met /\ raced' = IF c \in met THEN raced \cup {nextId} ELSE raced
  BY DEF WriteInsert
<1>7. Together' /\ Missed'
  <2>1. \A d \in Clients \ {c} : Writing(d)' => Writing(d) /\ d \in met
    BY <1>1 DEF TwinInv, Together, Writing
  <2>2. Writing(c) /\ req'[c].pc \notin {"miss", "granted"}
    BY <1>1 DEF Writing
  <2>3. Together'
    BY <1>5, <2>1, <2>2 DEF TwinInv, Together
  <2>4. \A d \in Clients \ {c} : req'[d].pc \in {"miss", "granted"} => d \in met'
    BY <1>5, <2>1 DEF Writing
  <2> QED BY <2>2, <2>3, <2>4 DEF Missed
<1>6. LaterForced'
  <2> SUFFICES ASSUME NEW i \in Ids, NEW j \in Ids, Present(i)', Present(j)', i < j,
                      row'[i].hash = row'[j].hash
               PROVE  row'[j].forced \/ j \in raced'
    BY DEF LaterForced
  <2>1. i # nextId
    BY <1>1, <1>3, Constants DEF StoreInv, Fresh, Present, Ids
  <2>2. CASE j = nextId
    <3>1. Present(i) /\ row[i].hash = Fingerprint(p.text)
      BY <1>2, <1>3, <2>1, <2>2 DEF Present
    <3>2. p.force \/ c \in met
      BY <1>1, <3>1 DEF TwinInv, Missed
    <3> QED BY <1>2, <1>3, <1>5, <2>2, <3>2
  <2>3. CASE j # nextId
    BY <1>3, <1>5, <2>1, <2>3 DEF TwinInv, LaterForced, Present
  <2> QED BY <2>2, <2>3
<1> QED BY <1>4, <1>6, <1>7 DEF TwinInv

LEMMA TwinStep == StoreInv /\ TwinInv /\ [Next]_vars => TwinInv'
<1> SUFFICES ASSUME StoreInv, TwinInv, [Next]_vars PROVE TwinInv'
  OBVIOUS
<1>1. \A i \in Ids : row[i] \in Row
  BY DEF StoreInv, TypeOK
<1>2. ASSUME NEW c \in Clients, req' = [req EXCEPT ![c] = IdleReq], UNCHANGED raced,
             \A d \in Clients \ {c} : d \in met => d \in met',
             \/ UNCHANGED row
             \/ row' = Undo(c)
             \/ row' = [i \in Ids |-> IF row[i].status = "open" /\ row[i].owner = c
                                      THEN [row[i] EXCEPT !.status = "live", !.owner = NoOne]
                                      ELSE row[i]]
      PROVE  TwinInv'
  <2>1. KeepsWrites
    BY <1>2 DEF KeepsWrites, IdleReq, StoreInv, TypeOK, Writing
  <2>0. \A i \in Ids : row[i].edited \in BOOLEAN /\ row[i].forced \in BOOLEAN
    BY <1>1 DEF Row
  <2>2. ASSUME UNCHANGED row PROVE KeepsRows
    BY <2>0, <2>2 DEF KeepsRows, Present
  <2>3. ASSUME row' = Undo(c) PROVE KeepsRows
    <3>1. [FreeRow EXCEPT !.status = "gone"].status = "gone"
      BY DEF FreeRow
    <3>2. \A i \in Ids : row'[i] = row[i] \/ row'[i].status = "gone"
      BY <2>3, <3>1 DEF Undo
    <3> QED BY <2>0, <3>2 DEF KeepsRows, Present
  <2>4. ASSUME row' = [i \in Ids |-> IF row[i].status = "open" /\ row[i].owner = c
                                     THEN [row[i] EXCEPT !.status = "live", !.owner = NoOne]
                                     ELSE row[i]]
        PROVE  KeepsRows
    <3>1. \A i \in Ids :
            LET r == [row[i] EXCEPT !.status = "live", !.owner = NoOne]
            IN /\ r.hash = row[i].hash /\ r.forced = row[i].forced
               /\ r.edited = row[i].edited /\ r.text = row[i].text
      BY <1>1 DEF Row
    <3>2. \A i \in Ids :
            row'[i] = IF row[i].status = "open" /\ row[i].owner = c
                      THEN [row[i] EXCEPT !.status = "live", !.owner = NoOne] ELSE row[i]
      BY <2>4
    <3>3. \A i \in Ids :
            /\ row'[i] = row[i] \/ (row[i].status = "open" /\ row'[i].status = "live")
            /\ row'[i].hash = row[i].hash /\ row'[i].forced = row[i].forced
            /\ row'[i].edited = row[i].edited /\ row'[i].text = row[i].text
      <4>1. \A i \in Ids : [row[i] EXCEPT !.status = "live", !.owner = NoOne].status = "live"
        BY <1>1 DEF Row
      <4> QED BY <3>1, <3>2, <4>1
    <3> QED BY <2>0, <3>3 DEF KeepsRows, Present
  <2>5. KeepsRows
    BY <1>2, <2>2, <2>3, <2>4
  <2> QED BY <2>1, <2>5, RowsKept
<1>3. ASSUME UNCHANGED row, KeepsWrites PROVE TwinInv'
  <2>1. KeepsRows
    BY <1>3 DEF KeepsRows, Present
  <2> QED BY <1>3, <2>1, RowsKept
<1>4. ASSUME UNCHANGED <<row, met, raced>>,
             NEW c \in Clients, NEW q \in Req, req' = [req EXCEPT ![c] = q],
             q.pc \in {"fold", "miss", "granted", "wrote"} => Writing(c),
             q.pc \in {"miss", "granted"} => req[c].pc \in {"miss", "granted"} /\ q.pay = req[c].pay
      PROVE  TwinInv'
  <2>1. KeepsWrites
    BY <1>4 DEF KeepsWrites, StoreInv, TypeOK, Writing
  <2> QED BY <1>3, <1>4, <2>1
<1>5. ASSUME NEW c \in Clients, WriteFold(c) PROVE TwinInv'
  <2>1. CASE req[c].pay.batch
    <3> DEFINE q == [req[c] EXCEPT !.pc = "wrote"]
    <3>1. /\ req[c] \in Req /\ req' = [req EXCEPT ![c] = q] /\ UNCHANGED <<row, met, raced>>
          /\ Writing(c)
      BY <1>5, <2>1 DEF WriteFold, StoreInv, TypeOK, Writing
    <3>2. q \in Req /\ q.pc = "wrote"
      <4>1. q \in Req
        BY <3>1, ReqSet
      <4> QED BY <3>1, <4>1 DEF Req
    <3> HIDE DEF q
    <3> QED BY <1>4, <3>1, <3>2
  <2>2. CASE ~req[c].pay.batch
    BY <1>2, <1>5, <2>2 DEF WriteFold
  <2> QED BY <2>1, <2>2
<1>6. ASSUME NEW c \in Clients, EnforceQuota(c) PROVE TwinInv'
  <2> DEFINE q == [req[c] EXCEPT !.pc = "granted", !.count = QuotaCount(c) + 1]
  <2>1. /\ req[c] \in Req /\ req' = [req EXCEPT ![c] = q] /\ UNCHANGED <<row, met, raced>>
        /\ req[c].pc = "miss" /\ Writing(c)
    BY <1>6 DEF EnforceQuota, StoreInv, TypeOK, Writing
  <2>2. q \in Req /\ q.pay = req[c].pay
    <3>1. QuotaCount(c) \in Nat
      BY CountsRows, Constants DEF QuotaCount, StoreInv, TypeOK, Req
    <3>2. QuotaCount(c) + 1 \in 0..Uncounted
      BY <1>6, <3>1, Constants DEF EnforceQuota
    <3>3. q \in Req
      BY <2>1, <3>2, ReqSet
    <3> QED BY <2>1, <3>3 DEF Req
  <2> HIDE DEF q
  <2> QED BY <1>4, <2>1, <2>2
<1>7. ASSUME NEW c \in Clients, QuotaExceeded(c) \/ Commit(c) \/ Fail(c) PROVE TwinInv'
  BY <1>2, <1>7 DEF QuotaExceeded, Commit, Fail
<1>8. ASSUME UNCHANGED <<req, met, raced>>, KeepsRows PROVE TwinInv'
  <2>1. KeepsWrites
    BY <1>8 DEF KeepsWrites, Writing
  <2> QED BY <1>8, <2>1, RowsKept
<1>9. ASSUME NEW i \in Ids, NEW t \in Texts, Update(i, t) PROVE TwinInv'
  <2>1. row' = [row EXCEPT ![i] = [row[i] EXCEPT !.text = t, !.edited = TRUE]]
    BY <1>9 DEF Update, StoreInv, TypeOK
  <2>2. LET r == [row[i] EXCEPT !.text = t, !.edited = TRUE]
        IN r.edited /\ r.hash = row[i].hash /\ r.forced = row[i].forced /\ r.status = row[i].status
    BY <1>1 DEF Row
  <2>3. KeepsRows
    BY <2>1, <2>2 DEF KeepsRows, Present, StoreInv, TypeOK
  <2> QED BY <1>8, <1>9, <2>3 DEF Update
<1>10. ASSUME NEW i \in Ids, Delete(i) PROVE TwinInv'
  <2>1. [FreeRow EXCEPT !.status = "gone"].status = "gone"
    BY DEF FreeRow
  <2>2. KeepsRows
    BY <1>10, <2>1 DEF Delete, KeepsRows, Present, StoreInv, TypeOK
  <2> QED BY <1>8, <1>10, <2>2 DEF Delete
<1>11. ASSUME NEW c \in Clients, NEW S \in SUBSET Ids, NEW v \in {"approved", "rejected"},
              row' = [i \in Ids |-> IF i \in S THEN [row[i] EXCEPT !.review = v, !.by = c] ELSE row[i]]
       PROVE  KeepsRows
  <2>1. \A i \in Ids :
          LET r == [row[i] EXCEPT !.review = v, !.by = c]
          IN /\ r.status = row[i].status /\ r.hash = row[i].hash /\ r.forced = row[i].forced
             /\ r.edited = row[i].edited /\ r.text = row[i].text
    BY <1>1 DEF Row
  <2> QED BY <1>11, <2>1 DEF KeepsRows, Present
<1>12. ASSUME NEW c \in Clients, NEW i \in Ids, ReviewRead(c, i) PROVE TwinInv'
  <2> DEFINE q == [req[c] EXCEPT !.pc = "reading", !.id = i]
  <2>0. i \in 0..MaxId
    BY Constants DEF Ids
  <2>1. req[c] \in Req /\ req' = [req EXCEPT ![c] = q] /\ UNCHANGED <<row, met, raced>>
    BY <1>12 DEF ReviewRead, StoreInv, TypeOK
  <2>2. q \in Req /\ q.pc = "reading"
    <3>1. q \in Req
      BY <2>0, <2>1, ReqSet
    <3> QED BY <2>1, <3>1 DEF Req
  <2> HIDE DEF q
  <2> QED BY <1>4, <2>1, <2>2
<1>13. ASSUME NEW c \in Clients, NEW a \in BOOLEAN, ReviewLoad(c, a) PROVE TwinInv'
  <2>1. CASE req' = [req EXCEPT ![c] = IdleReq]
    BY <1>2, <1>13, <2>1 DEF ReviewLoad
  <2>2. CASE req' = [req EXCEPT ![c].pc = "deciding", ![c].accept = a]
    <3> DEFINE q == [req[c] EXCEPT !.pc = "deciding", !.accept = a]
    <3>1. req[c] \in Req /\ req' = [req EXCEPT ![c] = q] /\ UNCHANGED <<row, met, raced>>
      BY <1>13, <2>2 DEF ReviewLoad, StoreInv, TypeOK
    <3>2. q \in Req /\ q.pc = "deciding"
      <4>1. q \in Req
        BY <3>1, ReqSet
      <4> QED BY <3>1, <4>1 DEF Req
    <3> HIDE DEF q
    <3> QED BY <1>4, <3>1, <3>2
  <2> QED BY <1>13, <2>1, <2>2 DEF ReviewLoad
<1>14. ASSUME NEW c \in Clients, ReviewCommit(c) PROVE TwinInv'
  <2> DEFINE i == req[c].id
             v == Verdict(req[c].accept)
             q == [req[c] EXCEPT !.pc = "reading"]
  <2>1. v \in {"approved", "rejected"} /\ i \in Ids /\ req[c] \in Req
    BY <1>14 DEF ReviewCommit, StoreInv, TypeOK, Pages, Verdict
  <2>2. /\ row' = [row EXCEPT ![i].review = v, ![i].by = c] /\ req' = [req EXCEPT ![c] = q]
        /\ UNCHANGED <<met, raced>>
    BY <1>14 DEF ReviewCommit, StoreInv, TypeOK
  <2>3. q \in Req /\ q.pc = "reading"
    <3>1. q \in Req
      BY <2>1, ReqSet
    <3> QED BY <2>1, <3>1 DEF Req
  <2> HIDE DEF i, v, q
  <2>4. row' = [j \in Ids |-> IF j \in {i} THEN [row[j] EXCEPT !.review = v, !.by = c] ELSE row[j]]
    BY <2>1, <2>2 DEF StoreInv, TypeOK
  <2>5. KeepsRows
    <3>1. {i} \in SUBSET Ids
      BY <2>1
    <3> QED BY <1>11, <2>1, <2>4, <3>1
  <2>6. KeepsWrites
    BY <2>2, <2>3 DEF KeepsWrites, StoreInv, TypeOK, Writing
  <2> QED BY <2>5, <2>6, RowsKept
<1>15. ASSUME NEW c \in Clients, NEW S \in SUBSET Ids, NEW a \in BOOLEAN, BulkReview(c, S, a)
       PROVE  TwinInv'
  <2> DEFINE held == {i \in S : Live(i) /\ row[i].review = "pending"}
             v == Verdict(a)
  <2>1. held \in SUBSET Ids /\ v \in {"approved", "rejected"}
    BY DEF Verdict
  <2>2. /\ UNCHANGED <<req, met, raced>>
        /\ row' = [i \in Ids |-> IF i \in held THEN [row[i] EXCEPT !.review = v, !.by = c] ELSE row[i]]
    BY <1>15 DEF BulkReview
  <2> HIDE DEF held, v
  <2> QED BY <1>8, <1>11, <2>1, <2>2
<1>16. CASE UNCHANGED <<row, req, met, raced>>
  <2>1. KeepsWrites
    BY <1>16 DEF KeepsWrites, Writing
  <2> QED BY <1>3, <1>16, <2>1
<1> QED BY <1>5, <1>6, <1>7, <1>9, <1>10, <1>12, <1>13, <1>14, <1>15, <1>16,
           LookupMisses, InsertedLast DEF Next, SetReviewMode, vars

(* TwinIsForced: find_by_content_hash, in the words of its docstring, lets *)
(* write dedup re-ingests: a memory that repeats the text of an older live *)
(* one was forced, or its request had met another that was writing.        *)
THEOREM RepeatsAreForced == Spec => []TwinIsForced
<1>1. Init => TwinInv
  <2> SUFFICES ASSUME Init PROVE TwinInv
    OBVIOUS
  <2>1. \A i \in Ids : ~Present(i)
    BY DEF Init, Present, FreeRow
  <2>2. \A c \in Clients : req[c].pc = "idle"
    BY DEF Init, IdleReq
  <2> QED BY <2>1, <2>2 DEF TwinInv, Hashed, Together, Writing, Missed, LaterForced
<1>2. StoreInv /\ TwinInv /\ [Next]_vars => StoreInv' /\ TwinInv'
  BY StoreStep, TwinStep
<1>3. TwinInv => TwinIsForced
  <2> SUFFICES ASSUME TwinInv, NEW i \in LiveIds, NEW j \in LiveIds, i < j,
                      row[i].text = row[j].text, ~row[i].edited, ~row[j].edited
               PROVE  row[j].forced \/ j \in raced
    BY DEF TwinIsForced
  <2>1. i \in Ids /\ j \in Ids /\ Present(i) /\ Present(j)
    BY DEF LiveIds, Live, Present
  <2>2. row[i].hash = row[j].hash
    BY <2>1 DEF TwinInv, Hashed
  <2> QED BY <2>1, <2>2 DEF TwinInv, LaterForced
<1> QED BY <1>1, <1>2, <1>3, StoreInit, PTL DEF Spec
=============================================================================
