----------------------------- MODULE ContentProofs -----------------------------
(***************************************************************************)
(* How content is kept, and how it gets in and out: archives (Archive) and *)
(* the memory tool (MemoryTool), for any scopes, texts and paths, and the  *)
(* schema under migration (Migrations), for any memories and any number of *)
(* runs of alembic.                                                        *)
(***************************************************************************)
EXTENDS Migrations, Archive, MemoryTool, TLAPS, FiniteSetTheorems

-----------------------------------------------------------------------------
(***************************************************************************)
(* Archives, for any source scope and any number of imports that run at    *)
(* once.                                                                   *)
(*                                                                         *)
(* What an import has written or looked up stays as it found it until it   *)
(* commits (Fits): the ids it drew from the sequence are given to no other *)
(* row, since imports draw disjoint ids; a row it folded into is locked,   *)
(* so that a delete waits; and a row it has only looked up may be deleted, *)
(* but then the memory counts among the crossed ones.  The archive itself  *)
(* is closed under its links (ScopeInv), though the source scope changes   *)
(* while the export reads it.                                              *)
(***************************************************************************)

Partial(A, B) == UNION {[D -> B] : D \in SUBSET A}

LEMMA NothingIsPartial ==
  ASSUME NEW A, NEW B
  PROVE  <<>> \in Partial(A, B) /\ DOMAIN <<>> = {}
<1>1. <<>> \in [{} -> B] /\ DOMAIN <<>> = {}
  OBVIOUS
<1> QED BY <1>1 DEF Partial

LEMMA PartialValues ==
  ASSUME NEW A, NEW B, NEW f \in Partial(A, B)
  PROVE  DOMAIN f \subseteq A /\ \A x \in DOMAIN f : f[x] \in B
BY DEF Partial

Grown(g, f, x, v) ==
  DOMAIN g = DOMAIN f \cup {x} /\ g[x] = v /\ \A y \in DOMAIN f \ {x} : g[y] = f[y]

LEMMA WithRow ==
  ASSUME NEW f \in Partial(Sources, Nat), NEW s \in Sources, NEW r \in Nat
  PROVE  With(f, s, r) \in Partial(Sources, Nat) /\ Grown(With(f, s, r), f, s, r)
<1>1. PICK D \in SUBSET Sources : f \in [D -> Nat]
  BY DEF Partial
<1>2. DOMAIN f = D /\ D \cup {s} \in SUBSET Sources
  BY <1>1
<1>3. With(f, s, r) \in [D \cup {s} -> Nat]
  BY <1>1, <1>2 DEF With
<1> QED BY <1>2, <1>3 DEF With, Partial, Grown

LEMMA WithPrint ==
  ASSUME NEW f \in Partial(Nat, Prints), NEW r \in Nat, NEW p \in Prints
  PROVE  With(f, r, p) \in Partial(Nat, Prints) /\ Grown(With(f, r, p), f, r, p)
<1>1. PICK D \in SUBSET Nat : f \in [D -> Prints]
  BY DEF Partial
<1>2. DOMAIN f = D /\ D \cup {r} \in SUBSET Nat
  BY <1>1
<1>3. With(f, r, p) \in [D \cup {r} -> Prints]
  BY <1>1, <1>2 DEF With
<1> QED BY <1>2, <1>3 DEF With, Partial, Grown

-----------------------------------------------------------------------------
(* An archive is closed: its links are between its memories.               *)
Mems == UNION {[D -> Prints] : D \in SUBSET Sources}
Closed(a) == a.mems \in Mems /\ a.links \subseteq (DOMAIN a.mems) \X (DOMAIN a.mems)

SourceRow == [text : Prints, state : {"absent", "live", "held", "deleted"}]
Found == [at : {"no", "links", "blobs"}, mems : Mems \cup {<<>>}, links : SUBSET Pairs]
Tar == [mems : Mems \cup {<<>>}, links : SUBSET Pairs,
        attached : {"none", "stored", "blobless"}, made : BOOLEAN]

ScopeInv ==
  /\ source \in [Sources -> SourceRow]
  /\ links \subseteq Pairs /\ attached \in {"none", "stored", "blobless"}
  /\ export \in Found /\ tar \in Tar
  /\ export.at # "no" => export.mems \in Mems
  /\ export.at = "blobs" => Closed(export)
  /\ tar.made => Closed(tar)

LEMMA ScopeInit == ArchiveInit => ScopeInv
<1>1. (CHOOSE t \in Prints : TRUE) \in Prints
  BY ArchiveAssumption
<1> QED BY <1>1 DEF ArchiveInit, ScopeInv, SourceRow, Found, Tar, NoExport, NoTar

LEMMA ScopeStep == ScopeInv /\ [ArchiveNext]_archiveVars => ScopeInv'
<1> SUFFICES ASSUME ScopeInv, [ArchiveNext]_archiveVars PROVE ScopeInv'
  OBVIOUS
<1>1. CASE UNCHANGED <<sourceVars, exportVars>>
  BY <1>1 DEF ScopeInv, Closed, sourceVars, exportVars
<1>2. ASSUME NEW s \in Sources, NEW t \in Prints, NEW state \in {"live", "held"}, Write(s, t, state)
      PROVE  ScopeInv'
  <2>1. [text |-> t, state |-> state] \in SourceRow
    BY DEF SourceRow
  <2> QED BY <1>2, <2>1 DEF Write, ScopeInv, Closed, exportVars
<1>3. ASSUME NEW s \in Sources, RemoveSource(s) PROVE ScopeInv'
  <2>1. [source[s] EXCEPT !.state = "deleted"] \in SourceRow
    BY DEF ScopeInv, SourceRow
  <2> QED BY <1>3, <2>1 DEF RemoveSource, ScopeInv, Closed, exportVars
<1>4. ASSUME NEW s \in Sources, NEW t \in Sources, Link(s, t) PROVE ScopeInv'
  BY <1>4 DEF Link, ScopeInv, Closed, Pairs, exportVars
<1>5. CASE Attach
  BY <1>5 DEF Attach, ScopeInv, Closed, exportVars
<1>6. CASE ExportMemories
  <2> DEFINE m == [s \in Listed |-> source[s].text]
  <2>1. m \in [Listed -> Prints] /\ Listed \in SUBSET Sources
    BY DEF ScopeInv, SourceRow, Listed
  <2>2. m \in Mems
    BY <2>1 DEF Mems
  <2> HIDE DEF m
  <2>3. export' = [at |-> "links", mems |-> m, links |-> {}] /\ UNCHANGED <<sourceVars, tar>>
    BY <1>6 DEF ExportMemories, m
  <2> QED BY <2>2, <2>3 DEF ScopeInv, Closed, Found, sourceVars
<1>7. CASE ExportLinks
  <2> DEFINE ends == DOMAIN export.mems
             new == links \cap (ends \X ends)
  <2>1. export' = [export EXCEPT !.at = "blobs", !.links = new] /\ UNCHANGED <<sourceVars, tar>>
        /\ export.at = "links"
    BY <1>7 DEF ExportLinks
  <2>2. new \subseteq ends \X ends /\ new \in SUBSET Pairs
    BY DEF ScopeInv
  <2> HIDE DEF new
  <2>3. /\ export' \in Found /\ export'.at = "blobs" /\ export'.mems = export.mems
        /\ export'.links = new
    BY <2>1, <2>2 DEF ScopeInv, Found
  <2> QED BY <2>1, <2>2, <2>3 DEF ScopeInv, Closed, sourceVars
<1>8. CASE ExportHandOut
  <2>1. /\ tar' = [mems |-> export.mems, links |-> export.links, attached |-> attached, made |-> TRUE]
        /\ export' = NoExport /\ UNCHANGED sourceVars /\ export.at = "blobs"
    BY <1>8 DEF ExportHandOut
  <2>2. tar' \in Tar /\ tar'.mems = export.mems /\ tar'.links = export.links
    BY <2>1 DEF ScopeInv, Found, Tar
  <2>3. export' \in Found /\ export'.at = "no"
    BY <2>1 DEF NoExport, Found
  <2> QED BY <2>1, <2>2, <2>3 DEF ScopeInv, Closed, sourceVars
<1> QED
  BY <1>1, <1>2, <1>3, <1>4, <1>5, <1>6, <1>7, <1>8
  DEF ArchiveNext, archiveVars, sourceVars, exportVars, ImportBegin, ImportLook, ImportFold,
      ImportUpload, ImportCommit, ImportAbort, Forget

-----------------------------------------------------------------------------
(* What an import in progress relies on until its commit.                  *)

TargetRow == [print : Prints, live : BOOLEAN]
Run == [at : {"open", "ready"}, tar : Tar, map : Partial(Sources, Nat), own : Partial(Nat, Prints),
        found : Partial(Sources, Nat), crossed : SUBSET Sources]

(* The row r has taken the memory s in, or will.                           *)
Carries(q, s, r) ==
  IF r \in DOMAIN q.own THEN q.own[r] = q.tar.mems[s]
  ELSE /\ r \in DOMAIN target /\ target[r].print = q.tar.mems[s]
       /\ target[r].live \/ s \in q.crossed

Fits(q) ==
  /\ Closed(q.tar)
  /\ DOMAIN q.map \subseteq DOMAIN q.tar.mems /\ DOMAIN q.found \subseteq DOMAIN q.tar.mems
  /\ DOMAIN q.own \subseteq 1..(nextRow - 1) /\ DOMAIN q.own \cap DOMAIN target = {}
  /\ \A s \in DOMAIN q.map : Carries(q, s, q.map[s])
  /\ \A s \in DOMAIN q.found : Carries(q, s, q.found[s])
  /\ q.at = "ready" => DOMAIN q.map = DOMAIN q.tar.mems

TargetInv ==
  /\ nextRow \in Nat \ {0}
  /\ target \in [DOMAIN target -> TargetRow] /\ DOMAIN target \subseteq 1..(nextRow - 1)
  /\ import \in [Imports -> {NoImport} \cup Run]
  /\ \A i \in Imports : OpenImport(i) => Fits(import[i])
  /\ \A i, j \in Imports :
       i # j /\ OpenImport(i) /\ OpenImport(j) => DOMAIN import[i].own \cap DOMAIN import[j].own = {}

LEMMA OpenIsRun ==
  ASSUME TargetInv, NEW i \in Imports
  PROVE  OpenImport(i) <=> import[i] \in Run
BY DEF TargetInv, OpenImport, NoImport, Run

LEMMA RunParts ==
  ASSUME NEW q \in Run
  PROVE  /\ q.own \in Partial(Nat, Prints) /\ q.map \in Partial(Sources, Nat)
         /\ q.found \in Partial(Sources, Nat)
         /\ \A r \in DOMAIN q.own : q.own[r] \in Prints
         /\ \A s \in DOMAIN q.found : q.found[s] \in Nat
<1>1. /\ q.own \in Partial(Nat, Prints) /\ q.map \in Partial(Sources, Nat)
      /\ q.found \in Partial(Sources, Nat)
  BY DEF Run
<1> QED BY <1>1, PartialValues

LEMMA TargetInit == ArchiveInit => TargetInv
<1> SUFFICES ASSUME ArchiveInit PROVE TargetInv
  OBVIOUS
<1>1. CASE target = <<>>
  <2>0. DOMAIN target = {} /\ nextRow = Cardinality(DOMAIN target) + 1
    BY <1>1 DEF ArchiveInit
  <2>1. DOMAIN target = {} /\ nextRow = 1
    <3>1. Cardinality(DOMAIN target) = 0
      BY <2>0, FS_EmptySet, Zenon
    <3> QED BY <2>0, <3>1
  <2> QED BY <1>1, <2>1 DEF ArchiveInit, TargetInv, NoImport, OpenImport
<1>2. ASSUME NEW p \in Prints, target = <<[print |-> p, live |-> TRUE]>> PROVE TargetInv
  <2>0. target \in Seq(TargetRow) /\ Len(target) = 1
    BY <1>2 DEF TargetRow
  <2>1. DOMAIN target = {1} /\ nextRow = 2
    <3>1. DOMAIN target = {1} /\ nextRow = Cardinality(DOMAIN target) + 1
      BY <2>0 DEF ArchiveInit
    <3>2. Cardinality({1}) = 1
      BY FS_Singleton
    <3> QED BY <3>1, <3>2
  <2>3. target \in [DOMAIN target -> TargetRow]
    BY <2>0
  <2> QED BY <2>1, <2>3 DEF ArchiveInit, TargetInv, NoImport, OpenImport
<1> QED BY <1>1, <1>2 DEF ArchiveInit

(* An import that goes on, or leaves, keeps what the others rely on.       *)
LEMMA GoesOn ==
  ASSUME TargetInv, NEW i \in Imports, NEW q \in Run, import' = [import EXCEPT ![i] = q],
         UNCHANGED target, nextRow' \in Nat, nextRow' >= nextRow, Fits(q)',
         \A j \in Imports \ {i} : OpenImport(j) => DOMAIN q.own \cap DOMAIN import[j].own = {}
  PROVE  TargetInv'
<1>1. import'[i] = q /\ \A j \in Imports \ {i} : import'[j] = import[j]
  BY DEF TargetInv
<1>2. import' \in [Imports -> {NoImport} \cup Run]
  BY DEF TargetInv
<1>3. ASSUME NEW j \in Imports, OpenImport(j)' PROVE Fits(import[j])'
  <2>1. CASE j = i
    BY <1>1, <2>1 DEF Fits, Carries, Closed
  <2>2. CASE j # i
    <3>1. Fits(import[j]) /\ import'[j] = import[j]
      BY <1>1, <1>3, <2>2 DEF TargetInv, OpenImport
    <3> QED BY <3>1 DEF Fits, Carries, Closed, TargetInv
  <2> QED BY <2>1, <2>2
<1>4. \A j, k \in Imports : j # k /\ OpenImport(j)' /\ OpenImport(k)' =>
        DOMAIN import'[j].own \cap DOMAIN import'[k].own = {}
  BY <1>1 DEF TargetInv, OpenImport
<1> QED BY <1>2, <1>3, <1>4 DEF TargetInv

LEMMA Leaves ==
  ASSUME TargetInv, NEW i \in Imports, import' = [import EXCEPT ![i] = NoImport],
         UNCHANGED nextRow, target' \in [DOMAIN target' -> TargetRow],
         DOMAIN target' \subseteq 1..(nextRow - 1),
         \A j \in Imports \ {i} : OpenImport(j) => Fits(import[j])'
  PROVE  TargetInv'
<1>1. import' \in [Imports -> {NoImport} \cup Run] /\ ~OpenImport(i)'
  BY DEF TargetInv, OpenImport, NoImport
<1>2. \A j \in Imports \ {i} : import'[j] = import[j] /\ (OpenImport(j)' <=> OpenImport(j))
  BY DEF TargetInv, OpenImport
<1>3. \A j \in Imports : OpenImport(j)' => Fits(import[j])'
  BY <1>1, <1>2
<1>4. \A j, k \in Imports : j # k /\ OpenImport(j)' /\ OpenImport(k)' =>
        DOMAIN import'[j].own \cap DOMAIN import'[k].own = {}
  BY <1>1, <1>2 DEF TargetInv
<1> QED BY <1>1, <1>3, <1>4 DEF TargetInv

LEMMA BeginStep ==
  ASSUME ScopeInv, TargetInv, NEW i \in Imports, ImportBegin(i) PROVE TargetInv'
<1>1. PICK q : q = [at |-> "open", tar |-> tar, map |-> <<>>, own |-> <<>>, found |-> <<>>,
                    crossed |-> {}]
  OBVIOUS
<1>2. /\ q.at = "open" /\ q.tar = tar /\ q.map = <<>> /\ q.own = <<>> /\ q.found = <<>>
      /\ tar \in Tar /\ Closed(q.tar)
  BY <1>1 DEF ImportBegin, ScopeInv
<1>3. q \in Run
  BY <1>1, <1>2, NothingIsPartial DEF Run
<1>4. import' = [import EXCEPT ![i] = q] /\ UNCHANGED <<target, nextRow>>
  BY <1>1 DEF ImportBegin
<1>5. DOMAIN q.map = {} /\ DOMAIN q.own = {} /\ DOMAIN q.found = {}
  BY <1>2, NothingIsPartial
<1>6. Fits(q)'
  BY <1>2, <1>5 DEF Fits, Closed
<1>7. nextRow' \in Nat /\ nextRow' >= nextRow
  BY <1>4 DEF TargetInv
<1>8. \A j \in Imports \ {i} : OpenImport(j) => DOMAIN q.own \cap DOMAIN import[j].own = {}
  BY <1>5
<1> QED BY <1>3, <1>4, <1>6, <1>7, <1>8, GoesOn

(* What a memory is looked up as: a row that takes it in.                  *)
LEMMA TwinTakes ==
  ASSUME TargetInv, NEW q \in Run, NEW i \in Imports, q = import[i], NEW s,
         NEW r \in TwinsOf(i, q.tar.mems[s])
  PROVE  r \in Nat /\ Carries(q, s, r)
<1>1. Fits(q)
  BY OpenIsRun DEF TargetInv
<1> QED BY <1>1 DEF TwinsOf, Carries, Fits, TargetInv

LEMMA LookStep == ASSUME TargetInv, NEW i \in Imports, ImportLook(i) PROVE TargetInv'
<1>0. PICK q \in Run : q = import[i] /\ Fits(q)
  BY OpenIsRun DEF ImportLook, TargetInv, OpenImport
<1>1. PICK s : s \in DOMAIN q.tar.mems \ DOMAIN q.map
               /\ s = CHOOSE m \in DOMAIN q.tar.mems \ DOMAIN q.map : TRUE
  BY <1>0 DEF ImportLook
<1> DEFINE p == q.tar.mems[s]
<1>2. s \in Sources /\ p \in Prints /\ q.at = "open" /\ UNCHANGED target
  BY <1>0, <1>1 DEF ImportLook, Fits, Closed, Mems
<1>3. CASE /\ import' = [import EXCEPT ![i].own = With(@, nextRow, p), ![i].map = With(@, s, nextRow)]
           /\ nextRow' = nextRow + 1
  <2>1. PICK o, m : o = With(q.own, nextRow, p) /\ m = With(q.map, s, nextRow)
    OBVIOUS
  <2>2. /\ o \in Partial(Nat, Prints) /\ DOMAIN o = DOMAIN q.own \cup {nextRow}
        /\ o[nextRow] = p /\ \A r \in DOMAIN q.own \ {nextRow} : o[r] = q.own[r]
    <3>1. q.own \in Partial(Nat, Prints) /\ nextRow \in Nat
      BY RunParts DEF TargetInv
    <3> HIDE DEF p
    <3>2. With(q.own, nextRow, p) \in Partial(Nat, Prints)
          /\ Grown(With(q.own, nextRow, p), q.own, nextRow, p)
      BY <1>2, <3>1, WithPrint
    <3> QED BY <2>1, <3>2 DEF Grown
  <2>3. /\ m \in Partial(Sources, Nat) /\ DOMAIN m = DOMAIN q.map \cup {s}
        /\ m[s] = nextRow /\ \A u \in DOMAIN q.map \ {s} : m[u] = q.map[u]
    <3>1. q.map \in Partial(Sources, Nat) /\ nextRow \in Nat
      BY RunParts DEF TargetInv
    <3>2. With(q.map, s, nextRow) \in Partial(Sources, Nat)
          /\ Grown(With(q.map, s, nextRow), q.map, s, nextRow)
      BY <1>2, <3>1, WithRow
    <3> QED BY <2>1, <3>2 DEF Grown
  <2>4. PICK n : n = [q EXCEPT !.own = o, !.map = m]
    OBVIOUS
  <2>5. /\ n \in Run /\ n.own = o /\ n.map = m /\ n.tar = q.tar /\ n.found = q.found
        /\ n.at = "open" /\ n.crossed = q.crossed
    BY <1>2, <2>2, <2>3, <2>4 DEF Run
  <2>6. import' = [import EXCEPT ![i] = n]
    BY <1>0, <1>3, <2>1, <2>4 DEF TargetInv
  <2>7. nextRow \in Nat \ {0} /\ nextRow \notin DOMAIN q.own /\ nextRow \notin DOMAIN target
    BY <1>0 DEF Fits, TargetInv
  <2>8. \A u \in DOMAIN n.map : Carries(n, u, n.map[u])
    BY <1>0, <2>2, <2>3, <2>5, <2>7 DEF Carries, Fits
  <2>9. \A u \in DOMAIN n.found : Carries(n, u, n.found[u])
    BY <1>0, <2>2, <2>5, <2>7 DEF Carries, Fits
  <2>10. Fits(n)'
    <3>1. \A u, r : Carries(n, u, r) => Carries(n, u, r)'
      BY <1>2 DEF Carries
    <3>2. /\ Closed(n.tar) /\ DOMAIN n.map \subseteq DOMAIN n.tar.mems
          /\ DOMAIN n.found \subseteq DOMAIN n.tar.mems
      BY <1>0, <1>1, <2>3, <2>5 DEF Fits
    <3>3. DOMAIN n.own \subseteq 1..(nextRow' - 1) /\ DOMAIN n.own \cap DOMAIN target' = {}
      BY <1>0, <1>2, <1>3, <2>2, <2>5, <2>7 DEF Fits
    <3> QED BY <2>5, <2>8, <2>9, <3>1, <3>2, <3>3 DEF Fits, Closed
  <2>11. ASSUME NEW j \in Imports \ {i}, OpenImport(j)
         PROVE  DOMAIN n.own \cap DOMAIN import[j].own = {}
    <3>1. nextRow \notin DOMAIN import[j].own
      BY <2>7, <2>11 DEF TargetInv, Fits
    <3>2. DOMAIN q.own \cap DOMAIN import[j].own = {}
      BY <1>0, <2>11, OpenIsRun DEF TargetInv
    <3> QED BY <2>2, <2>5, <3>1, <3>2
  <2>12. nextRow' \in Nat /\ nextRow' >= nextRow
    BY <1>3, <2>7
  <2> QED BY <1>2, <2>5, <2>6, <2>10, <2>11, <2>12, GoesOn
<1>4. ASSUME NEW r \in TwinsOf(i, p), UNCHANGED nextRow,
             import' = [import EXCEPT ![i].found = With(<<>>, s, r)]
      PROVE  TargetInv'
  <2>1. r \in Nat /\ Carries(q, s, r)
    BY <1>0, <1>4, TwinTakes
  <2>2. PICK f : f = With(<<>>, s, r)
    OBVIOUS
  <2>3. f \in Partial(Sources, Nat) /\ DOMAIN f = {s} /\ f[s] = r
    <3>1. <<>> \in Partial(Sources, Nat) /\ DOMAIN <<>> = {}
      BY NothingIsPartial
    <3>2. With(<<>>, s, r) \in Partial(Sources, Nat) /\ Grown(With(<<>>, s, r), <<>>, s, r)
      BY <1>2, <2>1, <3>1, WithRow
    <3> QED BY <2>2, <3>1, <3>2 DEF Grown
  <2>4. PICK n : n = [q EXCEPT !.found = f]
    OBVIOUS
  <2>5. /\ n \in Run /\ n.own = q.own /\ n.map = q.map /\ n.tar = q.tar /\ n.found = f
        /\ n.at = "open" /\ n.crossed = q.crossed
    BY <1>2, <2>3, <2>4 DEF Run
  <2>6. import' = [import EXCEPT ![i] = n]
    BY <1>0, <1>4, <2>2, <2>4 DEF TargetInv
  <2>7. Fits(n)'
    <3>1. \A u, x : Carries(q, u, x) => Carries(n, u, x)'
      BY <1>2, <2>5 DEF Carries
    <3> QED BY <1>0, <1>1, <1>2, <1>4, <2>1, <2>3, <2>5, <3>1 DEF Fits, Closed
  <2>8. \A j \in Imports \ {i} : OpenImport(j) => DOMAIN n.own \cap DOMAIN import[j].own = {}
    BY <1>0, <2>5, OpenIsRun DEF TargetInv
  <2>9. nextRow' \in Nat /\ nextRow' >= nextRow
    BY <1>4 DEF TargetInv
  <2> QED BY <1>2, <2>5, <2>6, <2>7, <2>8, <2>9, GoesOn
<1> QED BY <1>0, <1>1, <1>3, <1>4 DEF ImportLook

LEMMA FoldStep ==
  ASSUME TargetInv, NEW i \in Imports, NEW s \in Sources, ImportFold(i, s) PROVE TargetInv'
<1>0. PICK q \in Run : q = import[i] /\ Fits(q)
  BY OpenIsRun DEF ImportFold, TargetInv
<1>1. /\ s \in DOMAIN q.found /\ UNCHANGED <<target, nextRow>>
      /\ import' = [import EXCEPT ![i].found = <<>>, ![i].map = With(@, s, q.found[s])]
  BY <1>0 DEF ImportFold
<1>2. PICK m : m = With(q.map, s, q.found[s])
  OBVIOUS
<1>3. q.found[s] \in Nat
  BY <1>1, RunParts
<1>4. /\ m \in Partial(Sources, Nat) /\ DOMAIN m = DOMAIN q.map \cup {s}
      /\ m[s] = q.found[s] /\ \A u \in DOMAIN q.map \ {s} : m[u] = q.map[u]
  <2>1. q.map \in Partial(Sources, Nat)
    BY RunParts
  <2>2. With(q.map, s, q.found[s]) \in Partial(Sources, Nat)
        /\ Grown(With(q.map, s, q.found[s]), q.map, s, q.found[s])
    BY <1>3, <2>1, WithRow
  <2> QED BY <1>2, <2>2 DEF Grown
<1>5. PICK n : n = [q EXCEPT !.found = <<>>, !.map = m]
  OBVIOUS
<1>6. /\ n \in Run /\ n.own = q.own /\ n.map = m /\ n.tar = q.tar /\ n.found = <<>>
      /\ n.at = q.at /\ n.crossed = q.crossed
  BY <1>4, <1>5, NothingIsPartial DEF Run
<1>7. import' = [import EXCEPT ![i] = n]
  BY <1>0, <1>1, <1>2, <1>5 DEF TargetInv
<1>8. DOMAIN n.found = {}
  BY <1>6, NothingIsPartial
<1>9. Fits(n)'
  <2>1. \A u \in DOMAIN n.map : Carries(n, u, n.map[u])
    BY <1>0, <1>1, <1>4, <1>6 DEF Fits, Carries
  <2>2. \A u, r : Carries(n, u, r) => Carries(n, u, r)'
    BY <1>1 DEF Carries
  <2> QED BY <1>0, <1>1, <1>4, <1>6, <1>8, <2>1, <2>2 DEF Fits, Closed
<1>10. \A j \in Imports \ {i} : OpenImport(j) => DOMAIN n.own \cap DOMAIN import[j].own = {}
  BY <1>0, <1>6, OpenIsRun DEF TargetInv
<1>11. nextRow' \in Nat /\ nextRow' >= nextRow
  BY <1>1 DEF TargetInv
<1> QED BY <1>1, <1>6, <1>7, <1>9, <1>10, <1>11, GoesOn

LEMMA UploadStep == ASSUME TargetInv, NEW i \in Imports, ImportUpload(i) PROVE TargetInv'
<1>0. PICK q \in Run : q = import[i] /\ Fits(q)
  BY OpenIsRun DEF ImportUpload, TargetInv, OpenImport
<1>1. PICK n : n = [q EXCEPT !.at = "ready"]
  OBVIOUS
<1>2. /\ n \in Run /\ n.own = q.own /\ n.map = q.map /\ n.tar = q.tar /\ n.found = q.found
      /\ n.crossed = q.crossed
  BY <1>1 DEF Run
<1>3. /\ import' = [import EXCEPT ![i] = n] /\ UNCHANGED <<target, nextRow>>
      /\ DOMAIN q.map = DOMAIN q.tar.mems
  BY <1>0, <1>1 DEF ImportUpload, TargetInv
<1>4. Fits(n)'
  BY <1>0, <1>2, <1>3 DEF Fits, Carries, Closed
<1>5. \A j \in Imports \ {i} : OpenImport(j) => DOMAIN n.own \cap DOMAIN import[j].own = {}
  BY <1>0, <1>2, OpenIsRun DEF TargetInv
<1>6. nextRow' \in Nat /\ nextRow' >= nextRow
  BY <1>3 DEF TargetInv
<1> QED BY <1>2, <1>3, <1>4, <1>5, <1>6, GoesOn

LEMMA AbortStep == ASSUME TargetInv, NEW i \in Imports, ImportAbort(i) PROVE TargetInv'
<1>1. UNCHANGED <<target, nextRow>> /\ import' = [import EXCEPT ![i] = NoImport]
  BY DEF ImportAbort
<1>2. \A j \in Imports \ {i} : import'[j] = import[j]
  BY <1>1 DEF TargetInv
<1>3. \A j \in Imports \ {i} : OpenImport(j) => Fits(import[j])'
  BY <1>1, <1>2 DEF TargetInv, Fits, Carries, Closed
<1>4. target' \in [DOMAIN target' -> TargetRow] /\ DOMAIN target' \subseteq 1..(nextRow - 1)
  BY <1>1 DEF TargetInv
<1> QED BY <1>1, <1>3, <1>4, Leaves

(* A delete waits for the imports that folded into the row; one that has   *)
(* looked the row up counts the memory among the crossed.                  *)
LEMMA ForgetStep == ASSUME TargetInv, NEW r \in 1..MaxTarget, Forget(r) PROVE TargetInv'
<1>1. /\ r \in DOMAIN target /\ target' = [target EXCEPT ![r].live = FALSE] /\ UNCHANGED nextRow
      /\ \A i \in Imports : OpenImport(i) => \A s \in DOMAIN import[i].map : import[i].map[s] # r
  BY DEF Forget, Locked
<1>2. /\ DOMAIN target' = DOMAIN target /\ \A k \in DOMAIN target \ {r} : target'[k] = target[k]
      /\ target'[r].print = target[r].print
  BY <1>1 DEF TargetInv, TargetRow
<1>3. target' \in [DOMAIN target' -> TargetRow]
  <2>1. [target[r] EXCEPT !.live = FALSE] \in TargetRow
    BY <1>1 DEF TargetInv, TargetRow
  <2> QED BY <1>1, <1>2, <2>1 DEF TargetInv
<1>4. ASSUME NEW i \in Imports, OpenImport(i)
      PROVE  /\ import'[i] \in Run /\ OpenImport(i)' /\ Fits(import[i])'
             /\ import'[i].own = import[i].own
  <2>1. PICK q \in Run : q = import[i] /\ Fits(q)
    BY <1>4, OpenIsRun DEF TargetInv
  <2> DEFINE between == {s \in DOMAIN q.found : q.found[s] = r}
  <2>2. DOMAIN q.found \subseteq Sources
    BY DEF Run, Partial
  <2>3. PICK c \in SUBSET Sources : c = q.crossed \cup between
    BY <2>2 DEF Run
  <2>4. PICK n : n = [q EXCEPT !.crossed = c]
    OBVIOUS
  <2>5. import'[i] = n
    BY <1>4, <2>1, <2>3, <2>4 DEF Forget
  <2>6. /\ n \in Run /\ n.own = q.own /\ n.map = q.map /\ n.tar = q.tar /\ n.found = q.found
        /\ n.at = q.at /\ n.crossed = c
    BY <2>3, <2>4 DEF Run
  <2>7. \A s \in DOMAIN n.map : Carries(n, s, n.map[s])'
    BY <1>1, <1>2, <1>4, <2>1, <2>3, <2>6 DEF Fits, Carries
  <2>8. \A s \in DOMAIN n.found : Carries(n, s, n.found[s])'
    BY <1>2, <2>1, <2>3, <2>6 DEF Fits, Carries
  <2>9. Fits(n)'
    BY <1>1, <1>2, <2>1, <2>6, <2>7, <2>8 DEF Fits, Closed
  <2>10. Fits(import[i])'
    BY <2>5, <2>9 DEF Fits, Carries, Closed
  <2> QED BY <2>1, <2>5, <2>6, <2>10 DEF OpenImport, Run
<1>5. \A i \in Imports : ~OpenImport(i) => import'[i] = NoImport /\ ~OpenImport(i)'
  BY DEF Forget, TargetInv, OpenImport, Run, NoImport
<1>6. import' \in [Imports -> {NoImport} \cup Run]
  <2>1. \A i \in Imports : import'[i] \in {NoImport} \cup Run
    BY <1>4, <1>5
  <2>2. import' = [i \in Imports |-> import'[i]]
    BY DEF Forget
  <2> QED BY <2>1, <2>2
<1>7. \A i, j \in Imports : i # j /\ OpenImport(i)' /\ OpenImport(j)' =>
        DOMAIN import'[i].own \cap DOMAIN import'[j].own = {}
  BY <1>4, <1>5 DEF TargetInv
<1>8. \A i \in Imports : OpenImport(i)' => Fits(import[i])'
  BY <1>4, <1>5
<1> QED BY <1>1, <1>2, <1>3, <1>6, <1>7, <1>8 DEF TargetInv

(* What the commit writes: the import's own rows; the others stay.         *)
LEMMA Written ==
  ASSUME TargetInv, NEW i \in Imports, ImportCommit(i), NEW q \in Run, q = import[i]
  PROVE  /\ Fits(q) /\ DOMAIN q.map = DOMAIN q.tar.mems
         /\ import' = [import EXCEPT ![i] = NoImport] /\ UNCHANGED nextRow
         /\ DOMAIN target' = DOMAIN target \cup DOMAIN q.own
         /\ \A k \in DOMAIN target : target'[k] = target[k]
         /\ \A k \in DOMAIN q.own : target'[k] = [print |-> q.own[k], live |-> TRUE]
         /\ target' \in [DOMAIN target' -> TargetRow] /\ DOMAIN target' \subseteq 1..(nextRow - 1)
<1>1. Fits(q) /\ q.at = "ready"
  BY OpenIsRun DEF ImportCommit, TargetInv
<1>2. target' = [r \in DOMAIN target \cup DOMAIN q.own |->
                  IF r \in DOMAIN q.own THEN [print |-> q.own[r], live |-> TRUE] ELSE target[r]]
  BY DEF ImportCommit
<1>3. DOMAIN q.own \cap DOMAIN target = {} /\ DOMAIN q.own \subseteq 1..(nextRow - 1)
  BY <1>1 DEF Fits
<1>4. \A k \in DOMAIN q.own : q.own[k] \in Prints
  BY RunParts
<1>5. /\ \A k \in DOMAIN target : target'[k] = target[k]
      /\ \A k \in DOMAIN q.own : target'[k] = [print |-> q.own[k], live |-> TRUE]
      /\ DOMAIN target' = DOMAIN target \cup DOMAIN q.own
  BY <1>2, <1>3
<1>6. target' \in [DOMAIN target' -> TargetRow]
  <2>1. \A k \in DOMAIN target' : target'[k] \in TargetRow
    <3>1. \A k \in DOMAIN target : target'[k] \in TargetRow
      BY <1>5 DEF TargetInv
    <3>2. \A k \in DOMAIN q.own : [print |-> q.own[k], live |-> TRUE] \in TargetRow
      BY <1>4 DEF TargetRow
    <3> QED BY <1>5, <3>1, <3>2
  <2>2. target' = [k \in DOMAIN target' |-> target'[k]]
    BY <1>2
  <2> QED BY <2>1, <2>2
<1> QED BY <1>1, <1>3, <1>5, <1>6 DEF ImportCommit, TargetInv, Fits

LEMMA CommitStep == ASSUME TargetInv, NEW i \in Imports, ImportCommit(i) PROVE TargetInv'
<1>0. PICK q \in Run : q = import[i]
  BY OpenIsRun DEF ImportCommit, OpenImport
<1>1. /\ import' = [import EXCEPT ![i] = NoImport] /\ UNCHANGED nextRow
      /\ DOMAIN target' = DOMAIN target \cup DOMAIN q.own
      /\ \A k \in DOMAIN target : target'[k] = target[k]
      /\ target' \in [DOMAIN target' -> TargetRow] /\ DOMAIN target' \subseteq 1..(nextRow - 1)
  BY <1>0, Written
<1>2. ASSUME NEW j \in Imports \ {i}, OpenImport(j) PROVE Fits(import[j])'
  <2>1. Fits(import[j]) /\ import'[j] = import[j]
    BY <1>1, <1>2 DEF TargetInv
  <2>2. DOMAIN q.own \cap DOMAIN import[j].own = {}
    BY <1>0, <1>2, OpenIsRun DEF TargetInv
  <2> QED BY <1>1, <2>1, <2>2 DEF Fits, Carries, Closed
<1> QED BY <1>1, <1>2, Leaves

LEMMA TargetStep == ScopeInv /\ TargetInv /\ [ArchiveNext]_archiveVars => TargetInv'
<1> SUFFICES ASSUME ScopeInv, TargetInv, [ArchiveNext]_archiveVars PROVE TargetInv'
  OBVIOUS
<1>1. CASE UNCHANGED targetVars
  <2>1. UNCHANGED <<target, nextRow, import>>
    BY <1>1 DEF targetVars
  <2>2. \A i \in Imports : OpenImport(i)' => Fits(import[i])'
    BY <2>1 DEF TargetInv, OpenImport, Fits, Carries, Closed
  <2>3. \A i, j \in Imports : i # j /\ OpenImport(i)' /\ OpenImport(j)' =>
          DOMAIN import'[i].own \cap DOMAIN import'[j].own = {}
    BY <2>1 DEF TargetInv, OpenImport
  <2> QED BY <2>1, <2>2, <2>3 DEF TargetInv
<1>2. ASSUME NEW i \in Imports, ImportBegin(i) \/ ImportLook(i) \/ ImportUpload(i) PROVE TargetInv'
  BY <1>2, BeginStep, LookStep, UploadStep
<1>3. ASSUME NEW i \in Imports, ImportCommit(i) \/ ImportAbort(i) PROVE TargetInv'
  BY <1>3, CommitStep, AbortStep
<1>4. ASSUME NEW i \in Imports, NEW s \in Sources, ImportFold(i, s) PROVE TargetInv'
  BY <1>4, FoldStep
<1>5. ASSUME NEW r \in 1..MaxTarget, Forget(r) PROVE TargetInv'
  BY <1>5, ForgetStep
<1> QED
  BY <1>1, <1>2, <1>3, <1>4, <1>5
  DEF ArchiveNext, archiveVars, targetVars, Write, RemoveSource, Link, Attach, ExportMemories,
      ExportLinks, ExportHandOut

Complete(i) ==
  LET old == import[i].tar
      kept == DOMAIN old.mems \ import[i].crossed
  IN /\ \A s \in kept :
           \E r \in DOMAIN target' : target'[r].live /\ target'[r].print = old.mems[s]
     /\ \A l \in old.links : {l[1], l[2]} \subseteq kept =>
           \E p \in rowLinks' : \A n \in {1, 2} :
              target'[p[n]].live /\ target'[p[n]].print = old.mems[l[n]]

LEMMA CommitComplete == ASSUME TargetInv, NEW i \in Imports, ImportCommit(i) PROVE Complete(i)
<1>0. PICK q \in Run : q = import[i]
  BY OpenIsRun DEF ImportCommit, OpenImport
<1> DEFINE kept == DOMAIN q.tar.mems \ q.crossed
<1>1. /\ Fits(q) /\ DOMAIN q.map = DOMAIN q.tar.mems
      /\ DOMAIN target' = DOMAIN target \cup DOMAIN q.own
      /\ \A k \in DOMAIN target : target'[k] = target[k]
      /\ \A k \in DOMAIN q.own : target'[k] = [print |-> q.own[k], live |-> TRUE]
  BY <1>0, Written
<1>2. ASSUME NEW s \in kept
      PROVE  /\ q.map[s] \in DOMAIN target' /\ target'[q.map[s]].live
             /\ target'[q.map[s]].print = q.tar.mems[s] /\ Standing(i, q.map[s])
  <2>1. Carries(q, s, q.map[s])
    BY <1>1 DEF Fits
  <2>2. CASE q.map[s] \in DOMAIN q.own
    <3>1. PICK r \in DOMAIN q.own : r = q.map[s]
      BY <2>2
    <3>2. target'[r] = [print |-> q.own[r], live |-> TRUE] /\ r \in DOMAIN target'
      BY <1>1
    <3>3. target'[r].live /\ target'[r].print = q.own[r]
      BY <3>2
    <3> QED BY <1>0, <2>1, <3>1, <3>2, <3>3 DEF Carries, Standing
  <2>3. CASE q.map[s] \notin DOMAIN q.own
    BY <1>0, <1>1, <2>1, <2>3 DEF Carries, Standing
  <2> QED BY <2>2, <2>3
<1>3. ASSUME NEW l \in q.tar.links, {l[1], l[2]} \subseteq kept
      PROVE  \E p \in rowLinks' : \A n \in {1, 2} :
                target'[p[n]].live /\ target'[p[n]].print = q.tar.mems[l[n]]
  <2>1. \A n \in {1, 2} : l[n] \in kept
    BY <1>3
  <2>2. \A n \in {1, 2} : Standing(i, q.map[l[n]])
    BY <1>2, <2>1
  <2>3. NewLink(i, l) \in rowLinks'
    BY <1>0, <1>3, <2>2 DEF ImportCommit, NewLinks, Rebuilt
  <2>4. \A n \in {1, 2} : NewLink(i, l)[n] = q.map[l[n]]
    BY <1>0 DEF NewLink
  <2> QED BY <1>2, <2>1, <2>3, <2>4
<1>4. \A s \in kept : \E r \in DOMAIN target' : target'[r].live /\ target'[r].print = q.tar.mems[s]
  BY <1>2
<1> QED BY <1>0, <1>3, <1>4 DEF Complete

-----------------------------------------------------------------------------
(* import_from_tar leaves nothing of the archive out, whatever is          *)
(* imported, committed, rolled back or deleted in the target scope while   *)
(* it runs: when an import commits, every memory of the archive is there   *)
(* and live, and every link between them holds.  Excused are memories      *)
(* whose row was deleted between the lookup of their fingerprint and the   *)
(* fold, which record_duplicate does not notice.                           *)
THEOREM ImportsAreComplete == ArchiveSpec => ImportComplete
<1> DEFINE Body == \A i \in Imports : ImportCommitted(i) => Complete(i)
<1>1. ScopeInv /\ TargetInv /\ [ArchiveNext]_archiveVars => [Body]_archiveVars
  <2> SUFFICES ASSUME TargetInv, [ArchiveNext]_archiveVars, NEW i \in Imports, ImportCommitted(i)
               PROVE  Complete(i)
    BY Zenon
  <2>1. PICK j \in Imports : ImportCommit(j)
    BY DEF ImportCommitted, ArchiveNext, archiveVars, Write, RemoveSource, Link, Attach, ExportMemories,
           ExportLinks, ExportHandOut, ImportBegin, ImportLook, ImportFold, ImportUpload,
           ImportAbort, Forget
  <2>2. import' = [import EXCEPT ![j] = NoImport]
    BY <2>1 DEF ImportCommit
  <2>3. i = j
    BY <2>2 DEF ImportCommitted, TargetInv, NoImport
  <2> QED BY <2>1, <2>3, CommitComplete
<1>2. [][Body]_archiveVars => ImportComplete
  BY DEF ImportComplete, Complete
<1> QED BY <1>1, <1>2, ScopeInit, ScopeStep, TargetInit, TargetStep, PTL DEF ArchiveSpec

-----------------------------------------------------------------------------
(***************************************************************************)
(* The memory tool refines a store of files, for one agent.                *)
(*                                                                         *)
(* What a command found at its lookup is still so at its write (Ready),    *)
(* since only a reviewer's decision can come between; and a path names at  *)
(* most one live row (Tidy), since a row is stored under a path, or moved  *)
(* to it, only when the lookup found none there.  So the oldest live row   *)
(* at a path is the only one, there are as many live rows as files         *)
(* (Counted), so that a listing is whole unless there are more files than  *)
(* its limit (AllListed), and each write changes the files as the command  *)
(* asked for says (Files, Asked).                                          *)
(***************************************************************************)

(* A directory of rows in which a path names at most one live row.         *)
Row == [path : Paths, text : Texts \cup {NoText}, live : BOOLEAN, hash : {<<>>},
        status : {"readable", "pending"}]

Tidy(R) ==
  /\ R \in Seq(Row)
  /\ \A i \in DOMAIN R : R[i].live => R[i].text \in Texts
  /\ \A i, j \in DOMAIN R : R[i].live /\ R[j].live /\ R[i].path = R[j].path => i = j

At(R, p) == {id \in DOMAIN R : R[id].live /\ R[id].path = p}
FoundIn(R, p) == IF At(R, p) = {} THEN 0 ELSE Min(At(R, p))
FileOf(row) == [there |-> TRUE, held |-> row.status = "pending", text |-> row.text]
FileIn(R, p) == IF FoundIn(R, p) = 0 THEN [there |-> FALSE] ELSE FileOf(R[FoundIn(R, p)])

LEMMA MinOfOne == ASSUME NEW x \in Int PROVE Min({x}) = x
<1>1. \E z \in {x} : \A y \in {x} : z =< y
  OBVIOUS
<1>2. Min({x}) \in {x}
  BY <1>1, Zenon DEF Min
<1> QED BY <1>2

LEMMA MinOfTwo == ASSUME NEW x \in Int, NEW y \in Int, x =< y PROVE Min({x, y}) = x
<1>1. \E z \in {x, y} : \A w \in {x, y} : z =< w
  OBVIOUS
<1>2. Min({x, y}) \in {x, y} /\ \A w \in {x, y} : Min({x, y}) =< w
  BY <1>1, Zenon DEF Min
<1> QED BY <1>2

LEMMA MaxOfTwo == ASSUME NEW x \in Int, NEW y \in Int, x =< y PROVE Max({x, y}) = y
<1>1. \E z \in {x, y} : \A w \in {x, y} : z >= w
  OBVIOUS
<1>2. Max({x, y}) \in {x, y} /\ \A w \in {x, y} : Max({x, y}) >= w
  BY <1>1, Zenon DEF Max
<1> QED BY <1>2

LEMMA LiesThere ==
  ASSUME NEW R, Tidy(R), NEW id \in DOMAIN R, R[id].live
  PROVE  /\ FoundIn(R, R[id].path) = id /\ id # 0
         /\ FileIn(R, R[id].path) = FileOf(R[id])
<1>1. At(R, R[id].path) = {id}
  BY DEF Tidy, At
<1>2. id \in Int /\ id # 0
  BY DEF Tidy
<1>3. Min({id}) = id
  BY <1>2, MinOfOne
<1>4. FoundIn(R, R[id].path) = id
  BY <1>1, <1>3, Zenon DEF FoundIn
<1> QED BY <1>2, <1>4 DEF FileIn

LEMMA NothingThere ==
  ASSUME NEW R, NEW p, \A id \in DOMAIN R : R[id].live => R[id].path # p
  PROVE  FoundIn(R, p) = 0 /\ FileIn(R, p) = [there |-> FALSE]
<1>1. At(R, p) = {}
  BY DEF At
<1> QED BY <1>1 DEF FoundIn, FileIn

LEMMA FoundLies ==
  ASSUME NEW R, Tidy(R), NEW p, FoundIn(R, p) # 0
  PROVE  /\ FoundIn(R, p) \in DOMAIN R
         /\ R[FoundIn(R, p)].live /\ R[FoundIn(R, p)].path = p
<1>1. PICK id \in DOMAIN R : R[id].live /\ R[id].path = p
  BY NothingThere
<1>2. FoundIn(R, p) = id
  BY <1>1, LiesThere
<1> QED BY <1>1, <1>2

LEMMA NotFound ==
  ASSUME NEW R, Tidy(R), NEW p, FoundIn(R, p) = 0
  PROVE  \A id \in DOMAIN R : R[id].live => R[id].path # p
BY LiesThere

(* A view of one line shows that line under its number.                    *)
LEMMA OneLine ==
  ASSUME NEW text \in Seq(Tokens), NEW n \in DOMAIN text
  PROVE  Numbered(Slice(text, n, n)) = {<<n, text[n]>>}
<1>1. n \in 1..Len(text) /\ Len(text) \in Nat
  OBVIOUS
<1>2. Max({1, n}) = n /\ Min({n, Len(text)}) = n
  BY <1>1, MaxOfTwo, MinOfTwo
<1>3. Slice(text, n, n) = [lines |-> SubSeq(text, n, n), first |-> n]
  <2>1. n # -1 /\ ~(n > n)
    BY <1>1
  <2>2. Max({1, n}) = n /\ (IF n = -1 THEN Len(text) ELSE Min({n, Len(text)})) = n
    BY <1>2, <2>1
  <2> QED BY <2>1, <2>2, Zenon DEF Slice
<1> DEFINE line == SubSeq(text, n, n)
<1>4. DOMAIN line = {1} /\ line[1] = text[n]
  <2>1. Len(line) = 1 /\ line \in Seq(Tokens)
    BY <1>1
  <2>2. line[1] = text[n + 1 - 1]
    BY <1>1
  <2>3. n + 1 - 1 = n
    BY <1>1
  <2> HIDE DEF line
  <2>4. DOMAIN line = {1}
    BY <2>1
  <2> QED BY <2>2, <2>3, <2>4
<1> HIDE DEF line
<1>5. Numbered([lines |-> line, first |-> n]) = {<<n + 1 - 1, line[1]>>}
  BY <1>4 DEF Numbered
<1>6. n + 1 - 1 = n
  BY <1>1
<1> QED BY <1>3, <1>4, <1>5, <1>6, Zenon DEF line

LEMMA Seen == Tidy(rows) => \A p \in Paths : FileAt(p) = FileIn(rows, p)
<1> SUFFICES ASSUME Tidy(rows), NEW p \in Paths PROVE FileAt(p) = FileIn(rows, p)
  OBVIOUS
<1>1. FindByMetadata(p) = FoundIn(rows, p)
  BY DEF FindByMetadata, FoundIn, At, Live, PathOf
<1>2. CASE FoundIn(rows, p) = 0
  BY <1>1, <1>2 DEF FileAt, FileIn
<1>3. CASE FoundIn(rows, p) # 0
  <2> DEFINE id == FoundIn(rows, p)
             text == rows[id].text
  <2>1. id \in DOMAIN rows /\ rows[id].live /\ text \in Seq(Tokens)
    BY <1>3, FoundLies, MemoryToolAssumption DEF Tidy
  <2>2. CASE rows[id].status = "pending"
    BY <1>1, <1>3, <2>2 DEF FileAt, FileIn, FileOf
  <2>3. CASE rows[id].status # "pending"
    <3>1. \A n \in DOMAIN text : View(p, n, n) = {<<n, text[n]>>}
      BY <1>1, <1>3, <2>1, <2>3, OneLine DEF View
    <3>2. text = [n \in DOMAIN text |-> text[n]]
      BY <2>1
    <3> QED BY <1>1, <1>3, <2>3, <3>1, <3>2 DEF FileAt, FileIn, FileOf
  <2> QED BY <2>2, <2>3
<1> QED BY <1>2, <1>3

LEMMA SeenNext == Tidy(rows') => \A p \in Paths : FileAt(p)' = FileIn(rows', p)
<1>1. (Tidy(rows) => \A p \in Paths : FileAt(p) = FileIn(rows, p))'
  BY Seen, PTL
<1> QED BY <1>1

-----------------------------------------------------------------------------
(* What a write does to the files, for any tidy directory.                 *)
Files(R) == [p \in Paths |-> FileIn(R, p)]
Put(R, id, row) == [R EXCEPT ![id] = row]
Moved(R, id, q) == Put(R, id, [R[id] EXCEPT !.path = q])
Wiped(R, ids) == [id \in DOMAIN R |-> IF id \in ids THEN Deleted ELSE R[id]]

LEMMA SameRows ==
  ASSUME NEW R, NEW S, NEW p, At(R, p) = At(S, p), \A id \in At(R, p) : R[id] = S[id], Tidy(R)
  PROVE  FoundIn(R, p) = FoundIn(S, p) /\ FileIn(R, p) = FileIn(S, p)
<1>1. FoundIn(R, p) = FoundIn(S, p)
  BY DEF FoundIn
<1>2. CASE FoundIn(R, p) = 0
  BY <1>1, <1>2 DEF FileIn
<1>3. CASE FoundIn(R, p) # 0
  <2>1. FoundIn(R, p) \in At(R, p)
    BY <1>3, FoundLies DEF At
  <2> QED BY <1>1, <1>3, <2>1 DEF FileIn
<1> QED BY <1>1, <1>2, <1>3

LEMMA Rewrite ==
  ASSUME NEW R, Tidy(R), NEW id \in DOMAIN R, R[id].live, NEW row \in Row, row.live,
         row.path = R[id].path, row.text \in Texts
  PROVE  /\ Tidy(Put(R, id, row)) /\ DOMAIN Put(R, id, row) = DOMAIN R
         /\ \A p \in Paths : FoundIn(Put(R, id, row), p) = FoundIn(R, p)
         /\ Files(Put(R, id, row)) = [Files(R) EXCEPT ![row.path] = FileOf(row)]
<1> DEFINE S == Put(R, id, row)
<1>1. /\ S \in Seq(Row) /\ DOMAIN S = DOMAIN R /\ S[id] = row
      /\ \A k \in DOMAIN R : k # id => S[k] = R[k]
  BY DEF Tidy, Put
<1> HIDE DEF S
<1>2. Tidy(S)
  BY <1>1 DEF Tidy
<1>3. \A p : At(S, p) = At(R, p)
  BY <1>1 DEF At
<1>4. \A p : FoundIn(S, p) = FoundIn(R, p)
  BY <1>3 DEF FoundIn
<1>5. FileIn(S, row.path) = FileOf(row) /\ row.path \in Paths
  BY <1>1, <1>2, LiesThere DEF Row
<1>6. ASSUME NEW p \in Paths, p # row.path PROVE FileIn(S, p) = FileIn(R, p)
  <2>1. \A k \in At(R, p) : R[k] = S[k]
    BY <1>1, <1>6 DEF At
  <2> QED BY <1>3, <2>1, SameRows
<1>7. Files(S) = [Files(R) EXCEPT ![row.path] = FileOf(row)]
  BY <1>5, <1>6 DEF Files
<1> QED BY <1>1, <1>2, <1>4, <1>7 DEF S

LEMMA MoveRow ==
  ASSUME NEW R, Tidy(R), NEW id \in DOMAIN R, R[id].live, NEW q \in Paths, FoundIn(R, q) = 0
  PROVE  /\ Tidy(Moved(R, id, q))
         /\ Files(Moved(R, id, q)) = [Files(R) EXCEPT ![q] = Files(R)[R[id].path],
                                                      ![R[id].path] = [there |-> FALSE]]
<1> DEFINE row == [R[id] EXCEPT !.path = q]
           S == Put(R, id, row)
           p == R[id].path
<1>1. R[id] \in Row /\ p \in Paths /\ p # q
  <2>1. \A k \in DOMAIN R : R[k].live => R[k].path # q
    BY NotFound
  <2>2. R[id] \in Row
    BY DEF Tidy
  <2> QED BY <2>1, <2>2 DEF Row
<1>2. /\ row \in Row /\ row.path = q /\ row.live
      /\ row.text = R[id].text /\ row.status = R[id].status
  BY <1>1 DEF Row
<1> HIDE DEF row
<1>3. /\ S \in Seq(Row) /\ DOMAIN S = DOMAIN R /\ S[id] = row
      /\ \A k \in DOMAIN R : k # id => S[k] = R[k]
  BY <1>2 DEF Tidy, Put
<1> HIDE DEF S
<1>4. \A k \in DOMAIN R : R[k].live => R[k].path # q
  BY NotFound
<1>5. Tidy(S)
  BY <1>2, <1>3, <1>4 DEF Tidy
<1>6. FileIn(S, q) = FileIn(R, p)
  <2>1. FileIn(S, q) = FileOf(row)
    BY <1>2, <1>3, <1>5, LiesThere
  <2>2. FileIn(R, p) = FileOf(R[id])
    BY LiesThere
  <2> QED BY <1>2, <2>1, <2>2 DEF FileOf
<1>7. FileIn(S, p) = [there |-> FALSE]
  <2>1. \A k \in DOMAIN S : S[k].live => S[k].path # p
    BY <1>1, <1>2, <1>3 DEF Tidy
  <2> QED BY <2>1, NothingThere
<1>8. ASSUME NEW x \in Paths, x # p, x # q PROVE FileIn(S, x) = FileIn(R, x)
  <2>1. At(R, x) = At(S, x) /\ \A k \in At(R, x) : R[k] = S[k]
    BY <1>2, <1>3, <1>8 DEF At
  <2> QED BY <2>1, SameRows
<1>9. Files(S) = [Files(R) EXCEPT ![q] = Files(R)[p], ![p] = [there |-> FALSE]]
  BY <1>1, <1>6, <1>7, <1>8 DEF Files
<1> QED BY <1>5, <1>9 DEF S, row, Moved

LEMMA AddRow ==
  ASSUME NEW R, Tidy(R), NEW row \in Row, row.live, row.text \in Texts, FoundIn(R, row.path) = 0
  PROVE  /\ Tidy(Append(R, row))
         /\ Files(Append(R, row)) = [Files(R) EXCEPT ![row.path] = FileOf(row)]
<1> DEFINE S == Append(R, row)
           new == Len(R) + 1
<1>1. R \in Seq(Row) /\ Len(R) \in Nat
  BY DEF Tidy
<1>2. /\ S \in Seq(Row) /\ DOMAIN S = (DOMAIN R) \cup {new} /\ S[new] = row
      /\ new \notin DOMAIN R /\ \A k \in DOMAIN R : S[k] = R[k]
  BY <1>1
<1> HIDE DEF S, new
<1>3. \A k \in DOMAIN R : R[k].live => R[k].path # row.path
  BY NotFound
<1>4. Tidy(S)
  BY <1>2, <1>3 DEF Tidy
<1>5. FileIn(S, row.path) = FileOf(row) /\ row.path \in Paths
  BY <1>2, <1>4, LiesThere DEF Row
<1>6. ASSUME NEW x \in Paths, x # row.path PROVE FileIn(S, x) = FileIn(R, x)
  <2>1. At(R, x) = At(S, x) /\ \A k \in At(R, x) : R[k] = S[k]
    BY <1>2, <1>6 DEF At
  <2> QED BY <2>1, SameRows
<1>7. Files(S) = [Files(R) EXCEPT ![row.path] = FileOf(row)]
  BY <1>5, <1>6 DEF Files
<1> QED BY <1>4, <1>7 DEF S

LEMMA WipeRows ==
  ASSUME NEW R, Tidy(R), NEW ids \in SUBSET DOMAIN R, NEW gone \in SUBSET Paths,
         \A id \in DOMAIN R : R[id].live => (id \in ids <=> R[id].path \in gone)
  PROVE  /\ Tidy(Wiped(R, ids))
         /\ Files(Wiped(R, ids)) =
              [p \in Paths |-> IF p \in gone THEN [there |-> FALSE] ELSE Files(R)[p]]
<1> DEFINE S == Wiped(R, ids)
<1>1. Deleted \in Row /\ ~Deleted.live
  BY MemoryToolAssumption DEF Deleted, Row
<1>2. /\ S \in Seq(Row) /\ DOMAIN S = DOMAIN R
      /\ \A k \in DOMAIN R : S[k] = IF k \in ids THEN Deleted ELSE R[k]
  BY <1>1 DEF Tidy, Wiped
<1> HIDE DEF S
<1>3. Tidy(S)
  BY <1>1, <1>2 DEF Tidy
<1>4. ASSUME NEW x \in gone PROVE FileIn(S, x) = [there |-> FALSE]
  <2>1. \A k \in DOMAIN S : S[k].live => S[k].path # x
    BY <1>1, <1>2
  <2> QED BY <2>1, NothingThere
<1>5. ASSUME NEW x \in Paths, x \notin gone PROVE FileIn(S, x) = FileIn(R, x)
  <2>1. At(R, x) = At(S, x) /\ \A k \in At(R, x) : R[k] = S[k]
    BY <1>1, <1>2, <1>5 DEF At
  <2> QED BY <2>1, SameRows
<1>6. Files(S) = [p \in Paths |-> IF p \in gone THEN [there |-> FALSE] ELSE Files(R)[p]]
  BY <1>4, <1>5 DEF Files
<1> QED BY <1>3, <1>6 DEF S

-----------------------------------------------------------------------------
(* What a listing holds.                                                   *)
LiveIn(R) == {id \in DOMAIN R : R[id].live}
ListedIn(R) ==
  {id \in DOMAIN R : /\ R[id].live
                     /\ Cardinality({k \in DOMAIN R : R[k].live /\ k < id}) < ListLimit}
TreeIn(R, p) == {id \in ListedIn(R) : R[id].path \in Beneath[p]}
Occupied(F) == {q \in Paths : F[q].there}

LEMMA RowPath ==
  ASSUME NEW R, Tidy(R), NEW id \in DOMAIN R
  PROVE  R[id].path \in Paths
<1>1. R[id] \in Row
  BY DEF Tidy
<1> QED BY <1>1 DEF Row

LEMMA Counted ==
  ASSUME NEW R, Tidy(R)
  PROVE  /\ IsFiniteSet(LiveIn(R))
         /\ Cardinality(Occupied(Files(R))) = Cardinality(LiveIn(R))
<1>1. IsFiniteSet(LiveIn(R))
  <2>1. IsFiniteSet(1..Len(R)) /\ LiveIn(R) \in SUBSET (1..Len(R))
    BY FS_Interval DEF Tidy, LiveIn
  <2> QED BY <2>1, FS_Subset
<1> DEFINE f == [id \in LiveIn(R) |-> R[id].path]
<1>2. f \in [LiveIn(R) -> Occupied(Files(R))]
  <2>1. ASSUME NEW id \in LiveIn(R) PROVE R[id].path \in Occupied(Files(R))
    <3>1. id \in DOMAIN R /\ R[id].live /\ R[id].path \in Paths
      BY RowPath DEF LiveIn
    <3>2. Files(R)[R[id].path] = FileOf(R[id])
      BY <3>1, LiesThere DEF Files
    <3> QED BY <3>1, <3>2 DEF Occupied, FileOf
  <2> QED BY <2>1
<1>3. \A i, j \in LiveIn(R) : f[i] = f[j] => i = j
  BY DEF Tidy, LiveIn
<1>4. ASSUME NEW q \in Occupied(Files(R)) PROVE \E id \in LiveIn(R) : f[id] = q
  <2>1. q \in Paths /\ FoundIn(R, q) # 0
    BY DEF Occupied, Files, FileIn
  <2>2. FoundIn(R, q) \in LiveIn(R) /\ R[FoundIn(R, q)].path = q
    BY <2>1, FoundLies DEF LiveIn
  <2> QED BY <2>2
<1> HIDE DEF f
<1>5. f \in Bijection(LiveIn(R), Occupied(Files(R)))
  BY <1>2, <1>3, <1>4 DEF Bijection, Injection, Surjection, IsInjective
<1>6. ExistsBijection(LiveIn(R), Occupied(Files(R)))
  BY <1>5 DEF ExistsBijection
<1> QED BY <1>1, <1>6, FS_Bijection

LEMMA AllListed ==
  ASSUME NEW R, Tidy(R), Cardinality(Occupied(Files(R))) <= ListLimit
  PROVE  ListedIn(R) = LiveIn(R)
<1>1. IsFiniteSet(LiveIn(R)) /\ Cardinality(LiveIn(R)) <= ListLimit
  BY Counted
<1>2. ASSUME NEW id \in LiveIn(R)
      PROVE  Cardinality({k \in DOMAIN R : R[k].live /\ k < id}) < ListLimit
  <2> DEFINE before == {k \in DOMAIN R : R[k].live /\ k < id}
  <2>1. before \in SUBSET (LiveIn(R) \ {id})
    BY DEF LiveIn, Tidy
  <2>2. /\ IsFiniteSet(LiveIn(R) \ {id})
        /\ Cardinality(LiveIn(R) \ {id}) = Cardinality(LiveIn(R)) - 1
    BY <1>1, FS_RemoveElement
  <2> HIDE DEF before
  <2>3. IsFiniteSet(before) /\ Cardinality(before) <= Cardinality(LiveIn(R) \ {id})
    BY <2>1, <2>2, FS_Subset
  <2>4. Cardinality(before) \in Nat /\ Cardinality(LiveIn(R)) \in Nat /\ ListLimit \in Nat
    BY <1>1, <2>3, FS_CardinalityType, MemoryToolAssumption
  <2>5. Cardinality(before) < ListLimit
    BY <1>1, <2>2, <2>3, <2>4
  <2> QED BY <2>5 DEF before
<1> QED BY <1>2 DEF ListedIn, LiveIn

-----------------------------------------------------------------------------
(* What one agent's command knows from its lookup still holds at its write. *)
ReadyToSave(w, R) ==
  /\ w.op = "save" /\ w.path \in Paths \ {Root} /\ w.text \in Texts
  /\ w.id = FoundIn(R, w.path)
  /\ \E raw \in Raws : /\ Spellings[raw] = w.path
                        /\ w.asked = [command |-> "create", path |-> raw, text |-> w.text]

Replaces(text, old, new, edited) ==
  \E i \in DOMAIN text : /\ text[i] = old /\ \A j \in DOMAIN text \ {i} : text[j] # old
                         /\ edited = [text EXCEPT ![i] = new]
Inserts(text, line, new, edited) ==
  /\ line <= Len(text)
  /\ edited = SubSeq(text, 1, line) \o <<new>> \o SubSeq(text, line + 1, Len(text))

ReadyToEdit(w, R) ==
  /\ w.op = "edit" /\ w.path \in Paths /\ w.text \in Texts
  /\ w.id = FoundIn(R, w.path) /\ w.id # 0 /\ R[w.id].status # "pending"
  /\ \E raw \in Raws :
       /\ Spellings[raw] = w.path
       /\ \/ \E old, new \in Tokens :
               /\ w.asked = [command |-> "str_replace", path |-> raw, old |-> old, new |-> new]
               /\ Replaces(R[w.id].text, old, new, w.text)
          \/ \E line \in Nat, new \in Tokens :
               /\ w.asked = [command |-> "insert", path |-> raw, line |-> line, new |-> new]
               /\ Inserts(R[w.id].text, line, new, w.text)

ReadyToDelete(w, R) ==
  /\ w.op = "delete" /\ w.path \in Paths \ {Root} /\ w.ids # {}
  /\ w.ids = IF FoundIn(R, w.path) # 0 THEN {FoundIn(R, w.path)} ELSE TreeIn(R, w.path)
  /\ \E raw \in Raws : /\ Spellings[raw] = w.path
                        /\ w.asked = [command |-> "delete", path |-> raw]

ReadyToRename(w, R) ==
  /\ w.op = "rename" /\ w.path \in Paths \ {Root} /\ w.to \in Paths
  /\ w.id = FoundIn(R, w.path) /\ w.id # 0 /\ FoundIn(R, w.to) = 0
  /\ \E raw, to \in Raws : /\ Spellings[raw] = w.path /\ Spellings[to] = w.to
                            /\ w.asked = [command |-> "rename", path |-> raw, to |-> to]

Ready(w, R) ==
  \/ w.op = "none" /\ w.asked = NoCommand
  \/ ReadyToSave(w, R) \/ ReadyToEdit(w, R) \/ ReadyToDelete(w, R) \/ ReadyToRename(w, R)

ToolInv ==
  ~dedup => /\ Tidy(rows)
            /\ DOMAIN cmd = Clients
            /\ \A c \in Clients : Ready(cmd[c], rows)

OneClient == \A c, d \in Clients : c = d

Shown == [p \in Paths |-> IF dedup THEN [there |-> FALSE] ELSE FileAt(p)]
Asked == [c \in Clients |-> IF dedup THEN NoCommand ELSE cmd[c].asked]

LEMMA ShownNow == Tidy(rows) /\ ~dedup => Shown = Files(rows)
  BY Seen DEF Shown, Files

LEMMA ShownNext == Tidy(rows') /\ ~dedup' => Shown' = Files(rows')
  BY SeenNext DEF Shown, Files

LEMMA LookUp == \A p : FindByMetadata(p) = FoundIn(rows, p)
  BY DEF FindByMetadata, FoundIn, At, Live, PathOf

(* The lookups: each is a client asking.                                   *)
LEMMA PlanStep ==
  ASSUME OneClient, ToolInv, ~dedup, NEW c \in Clients, NEW w, Ready(w, rows), Plan(c, w),
         w.asked \in Promise!Requests
  PROVE  ToolInv' /\ Promise!Ask(c)
<1>1. UNCHANGED <<rows, dedup>> /\ cmd' = [cmd EXCEPT ![c] = w] /\ cmd[c].op = "none"
  BY DEF Plan, Free
<1>2. DOMAIN cmd' = Clients /\ \A d \in Clients : cmd'[d] = w
  BY <1>1 DEF ToolInv, OneClient
<1>3. ToolInv'
  BY <1>1, <1>2 DEF ToolInv
<1>4. Shown' = Shown
  BY <1>1, <1>3, ShownNow, ShownNext DEF ToolInv
<1>5. cmd[c].asked = NoCommand
  BY <1>1 DEF ToolInv, Ready, ReadyToSave, ReadyToEdit, ReadyToDelete, ReadyToRename
<1>6. Asked[c] = NoCommand /\ Asked' = [d \in Clients |-> w.asked]
  BY <1>1, <1>2, <1>5 DEF Asked
<1>7. Asked' = [d \in Clients |-> IF d = c THEN Asked'[c] ELSE Asked[d]]
  BY <1>6 DEF OneClient
<1>8. PICK A, B : A = Asked /\ B = Asked'
  OBVIOUS
<1>9. /\ A[c] = NoCommand /\ B[c] \in Promise!Requests
      /\ B = [d \in Clients |-> IF d = c THEN B[c] ELSE A[d]]
  BY <1>6, <1>7, <1>8
<1> QED BY <1>3, <1>4, <1>8, <1>9 DEF Promise!Ask, Promise!NoCommand, NoCommand, Asked, Shown

LEMMA LookUps ==
  ASSUME OneClient, ToolInv, ~dedup, NEW c \in Clients, NEW raw \in Raws,
         \/ \E text \in Texts : Create(c, raw, text)
         \/ \E old, new \in Tokens : StrReplace(c, raw, old, new)
         \/ \E line \in 0..MaxLines, new \in Tokens : Insert(c, raw, line, new)
         \/ Delete(c, raw)
         \/ \E to \in Raws : Rename(c, raw, to)
  PROVE  ToolInv' /\ Promise!Ask(c)
<1> SUFFICES \E w : Ready(w, rows) /\ Plan(c, w) /\ w.asked \in Promise!Requests
  BY PlanStep
<1> DEFINE p == NormalisePath(raw)
           Planned(w) == Ready(w, rows) /\ Plan(c, w) /\ w.asked \in Promise!Requests
<1>0. raw \in Promise!Raw /\ p = Spellings[raw]
  BY DEF Raws, Promise!Raw, NormalisePath
<1>1. ASSUME NEW text \in Texts, Create(c, raw, text) PROVE \E w : Planned(w)
  <2> DEFINE r == [command |-> "create", path |-> raw, text |-> text]
             w == [op |-> "save", id |-> FindByMetadata(p), path |-> p, text |-> text, asked |-> r]
  <2>1. Plan(c, w) /\ p \in Paths \ {Root}
    BY <1>1 DEF Create
  <2>2. ReadyToSave(w, rows)
    BY <1>0, <2>1, LookUp DEF ReadyToSave
  <2>3. r \in Promise!Requests
    BY <1>0 DEF Promise!Requests
  <2> QED BY <2>1, <2>2, <2>3 DEF Ready
<1>2. ASSUME NEW text, NEW r \in Promise!Requests, p \in Paths, Editable(p), EditFile(c, p, text, r),
             \/ \E old, new \in Tokens :
                  /\ r = [command |-> "str_replace", path |-> raw, old |-> old, new |-> new]
                  /\ Replaces(rows[FindByMetadata(p)].text, old, new, text)
             \/ \E line \in Nat, new \in Tokens :
                  /\ r = [command |-> "insert", path |-> raw, line |-> line, new |-> new]
                  /\ Inserts(rows[FindByMetadata(p)].text, line, new, text)
      PROVE  \E w : Planned(w)
  <2> DEFINE w == [op |-> "edit", id |-> FindByMetadata(p), path |-> p, text |-> text, asked |-> r]
  <2>1. Plan(c, w) /\ text \in Texts
    BY <1>2 DEF EditFile
  <2>2. ReadyToEdit(w, rows)
    BY <1>0, <1>2, <2>1, LookUp DEF ReadyToEdit, Editable
  <2> QED BY <2>1, <2>2 DEF Ready
<1>3. ASSUME p \in Paths, Editable(p)
      PROVE  rows[FindByMetadata(p)].text \in Seq(Tokens)
  <2>1. FoundIn(rows, p) # 0 /\ FindByMetadata(p) = FoundIn(rows, p)
    BY <1>3, LookUp DEF Editable
  <2> QED BY <2>1, FoundLies, MemoryToolAssumption DEF ToolInv, Tidy
<1>4. ASSUME NEW old \in Tokens, NEW new \in Tokens, StrReplace(c, raw, old, new)
      PROVE  \E w : Planned(w)
  <2> DEFINE text == rows[FindByMetadata(p)].text
             hits == {i \in DOMAIN text : text[i] = old}
             edited == [i \in DOMAIN text |-> IF i \in hits THEN new ELSE text[i]]
             r == [command |-> "str_replace", path |-> raw, old |-> old, new |-> new]
  <2>1. /\ p \in Paths /\ Editable(p) /\ Cardinality(hits) = 1
        /\ EditFile(c, p, edited, r)
    BY <1>4 DEF StrReplace
  <2>2. text \in Seq(Tokens)
    BY <1>3, <2>1
  <2>3. Replaces(text, old, new, edited)
    <3> HIDE DEF text
    <3>1. IsFiniteSet(hits)
      <4>1. IsFiniteSet(1..Len(text)) /\ hits \in SUBSET (1..Len(text))
        BY <2>2, FS_Interval
      <4> QED BY <4>1, FS_Subset
    <3>2. PICK i : hits = {i}
      BY <2>1, <3>1, FS_Singleton
    <3>3. i \in DOMAIN text /\ text[i] = old /\ \A j \in DOMAIN text \ {i} : text[j] # old
      BY <3>2
    <3>4. edited = [text EXCEPT ![i] = new]
      BY <2>2, <3>2, <3>3
    <3> QED BY <3>3, <3>4 DEF Replaces
  <2>4. r \in Promise!Requests
    BY <1>0 DEF Promise!Requests
  <2> HIDE DEF edited
  <2> QED BY <1>2, <2>1, <2>3, <2>4
<1>5. ASSUME NEW line \in 0..MaxLines, NEW new \in Tokens, Insert(c, raw, line, new)
      PROVE  \E w : Planned(w)
  <2> DEFINE text == rows[FindByMetadata(p)].text
             edited == InsertAt(text, line + 1, new)
             r == [command |-> "insert", path |-> raw, line |-> line, new |-> new]
  <2>1. p \in Paths /\ Editable(p) /\ line \in 0..Len(text) /\ EditFile(c, p, edited, r)
    BY <1>5 DEF Insert
  <2>2. line \in Nat /\ line <= Len(text) /\ line + 1 - 1 = line
    BY <1>3, <2>1
  <2>3. Inserts(text, line, new, edited)
    BY <2>2 DEF Inserts, InsertAt
  <2>4. r \in Promise!Requests
    BY <1>0, <2>2 DEF Promise!Requests
  <2> HIDE DEF edited
  <2> QED BY <1>2, <2>1, <2>2, <2>3, <2>4
<1>6. CASE Delete(c, raw)
  <2> DEFINE id == FindByMetadata(p)
             r == [command |-> "delete", path |-> raw]
             w == [op |-> "delete", path |-> p, ids |-> IF id # 0 THEN {id} ELSE Tree(p), asked |-> r]
  <2>1. Plan(c, w) /\ p \in Paths \ {Root} /\ (id # 0 \/ Tree(p) # {})
    BY <1>6 DEF Delete
  <2>2. Tree(p) = TreeIn(rows, p) /\ id = FoundIn(rows, p)
    BY LookUp DEF Tree, TreeIn, ListByMetadataKey, ListedIn, Live, PathOf
  <2>3. ReadyToDelete(w, rows)
    BY <1>0, <2>1, <2>2 DEF ReadyToDelete
  <2>4. r \in Promise!Requests
    BY <1>0 DEF Promise!Requests
  <2> QED BY <2>1, <2>3, <2>4 DEF Ready
<1>7. ASSUME NEW to \in Raws, Rename(c, raw, to) PROVE \E w : Planned(w)
  <2> DEFINE q == NormalisePath(to)
             r == [command |-> "rename", path |-> raw, to |-> to]
             w == [op |-> "rename", id |-> FindByMetadata(p), path |-> p, to |-> q, asked |-> r]
  <2>1. /\ Plan(c, w) /\ p \in Paths \ {Root} /\ q \in Paths
        /\ FindByMetadata(p) # 0 /\ FindByMetadata(q) = 0 /\ q = Spellings[to]
    BY <1>7 DEF Rename, NormalisePath
  <2>2. ReadyToRename(w, rows)
    BY <1>0, <2>1, LookUp DEF ReadyToRename
  <2>3. r \in Promise!Requests
    BY <1>0 DEF Promise!Requests, Promise!Raw, Raws
  <2> QED BY <2>1, <2>2, <2>3 DEF Ready
<1> QED BY <1>1, <1>4, <1>5, <1>6, <1>7

-----------------------------------------------------------------------------
(* The writes: each is a command carried out.                              *)
LEMMA DoneStep ==
  ASSUME OneClient, ToolInv, ~dedup, NEW c \in Clients, Done(c), Tidy(rows')
  PROVE  /\ ToolInv' /\ ~dedup' /\ Shown = Files(rows) /\ Shown' = Files(rows')
         /\ Asked[c] = cmd[c].asked /\ Asked' = [Asked EXCEPT ![c] = NoCommand]
<1>1. DOMAIN cmd' = Clients /\ cmd'[c] = NoWrite /\ dedup' = dedup
  BY DEF Done, ToolInv
<1>2. \A d \in Clients : Ready(cmd'[d], rows')
  BY <1>1 DEF OneClient, Ready, NoWrite
<1>3. ToolInv'
  BY <1>1, <1>2 DEF ToolInv
<1>4. Asked[c] = cmd[c].asked /\ Asked' = [Asked EXCEPT ![c] = NoCommand]
  BY <1>1 DEF OneClient, Asked, NoWrite
<1> QED BY <1>1, <1>3, <1>4, ShownNow, ShownNext DEF ToolInv

(* A file as a record: what an edit and a decision change of it.           *)
Triple(there, held, text) == [there |-> there, held |-> held, text |-> text]

LEMMA WithText ==
  ASSUME NEW there, NEW held, NEW x, NEW y
  PROVE  [Triple(there, held, x) EXCEPT !.text = y] = Triple(there, held, y)
  BY DEF Triple

LEMMA WithHeld ==
  ASSUME NEW there, NEW x, NEW y, NEW text
  PROVE  [Triple(there, x, text) EXCEPT !.held = y] = Triple(there, y, text)
  BY DEF Triple

LEMMA FileFields ==
  ASSUME NEW row
  PROVE  /\ FileOf(row).there /\ (FileOf(row).held <=> row.status = "pending")
         /\ FileOf(row).text = row.text
  BY DEF FileOf

LEMMA EditedFile ==
  ASSUME NEW row, NEW old, row.status = old.status
  PROVE  FileOf(row) = [FileOf(old) EXCEPT !.text = row.text]
<1>1. PICK held, yes : held = (old.status = "pending") /\ yes = TRUE
  OBVIOUS
<1>2. FileOf(old) = Triple(yes, held, old.text) /\ FileOf(row) = Triple(yes, held, row.text)
  BY <1>1 DEF Triple, FileOf
<1>3. [Triple(yes, held, old.text) EXCEPT !.text = row.text] = Triple(yes, held, row.text)
  BY WithText
<1> QED BY <1>2, <1>3

LEMMA DecidedFile ==
  ASSUME NEW row, NEW old, row.status # "pending", old.status = "pending", row.text = old.text
  PROVE  FileOf(row) = [FileOf(old) EXCEPT !.held = FALSE]
<1>1. PICK yes, no : yes = TRUE /\ no = FALSE
  OBVIOUS
<1>2. FileOf(old) = Triple(yes, yes, old.text) /\ FileOf(row) = Triple(yes, no, old.text)
  BY <1>1 DEF Triple, FileOf
<1>3. [Triple(yes, yes, old.text) EXCEPT !.held = no] = Triple(yes, no, old.text)
  BY WithHeld
<1>4. FileOf(row) = [FileOf(old) EXCEPT !.held = no]
  BY <1>2, <1>3
<1> QED BY <1>1, <1>4, Zenon

(* When the promised effect is had, the command in hand is carried out.     *)
LEMMA CarriedOut ==
  ASSUME NEW c \in Clients, NEW raw \in Raws, NEW p \in Paths, Spellings[raw] = p,
         Asked[c] = cmd[c].asked, Asked' = [Asked EXCEPT ![c] = NoCommand],
         \/ \E t : /\ cmd[c].asked = [command |-> "create", path |-> raw, text |-> t]
                  /\ Promise!Save(p, t)
         \/ \E old, new :
              /\ cmd[c].asked = [command |-> "str_replace", path |-> raw, old |-> old, new |-> new]
              /\ Promise!Replace(p, old, new)
         \/ \E line, new :
              /\ cmd[c].asked = [command |-> "insert", path |-> raw, line |-> line, new |-> new]
              /\ Promise!AddLine(p, line, new)
         \/ cmd[c].asked = [command |-> "delete", path |-> raw] /\ Promise!Remove(p)
         \/ \E to : /\ cmd[c].asked = [command |-> "rename", path |-> raw, to |-> to]
                   /\ Spellings[to] \in Paths /\ Promise!Move(p, Spellings[to])
  PROVE  Promise!CarryOut(c)
<1> DEFINE r == cmd[c].asked
           Granted == CASE r.command = "create" -> Promise!Save(p, r.text)
                       [] r.command = "str_replace" -> Promise!Replace(p, r.old, r.new)
                       [] r.command = "insert" -> Promise!AddLine(p, r.line, r.new)
                       [] r.command = "delete" -> Promise!Remove(p)
                       [] r.command = "rename" -> Spellings[r.to] \in Paths /\ Promise!Move(p, Spellings[r.to])
<1>1. ASSUME NEW t, r = [command |-> "create", path |-> raw, text |-> t], Promise!Save(p, t)
      PROVE  r.command # "none" /\ r.path = raw /\ Granted
  BY <1>1
<1>2. ASSUME NEW old, NEW new, Promise!Replace(p, old, new),
             r = [command |-> "str_replace", path |-> raw, old |-> old, new |-> new]
      PROVE  r.command # "none" /\ r.path = raw /\ Granted
  BY <1>2
<1>3. ASSUME NEW line, NEW new, Promise!AddLine(p, line, new),
             r = [command |-> "insert", path |-> raw, line |-> line, new |-> new]
      PROVE  r.command # "none" /\ r.path = raw /\ Granted
  BY <1>3
<1>4. ASSUME r = [command |-> "delete", path |-> raw], Promise!Remove(p)
      PROVE  r.command # "none" /\ r.path = raw /\ Granted
  BY <1>4
<1>5. ASSUME NEW to, r = [command |-> "rename", path |-> raw, to |-> to],
             Spellings[to] \in Paths, Promise!Move(p, Spellings[to])
      PROVE  r.command # "none" /\ r.path = raw /\ Granted
  BY <1>5
<1>6. r.command # "none" /\ r.path = raw /\ Granted
  BY <1>1, <1>2, <1>3, <1>4, <1>5
<1>7. Asked[c].command # "none" /\ Spellings[Asked[c].path] = p
  BY <1>6
<1> QED BY <1>6, <1>7 DEF Promise!CarryOut, Promise!NoCommand, NoCommand, Asked

LEMMA OverwriteStep ==
  ASSUME OneClient, ToolInv, ~dedup, NEW c \in Clients, Overwrite(c)
  PROVE  ToolInv' /\ Promise!CarryOut(c)
<1>0. PICK R, id, p, t : R = rows /\ id = cmd[c].id /\ p = cmd[c].path /\ t = cmd[c].text
  OBVIOUS
<1>1. /\ Tidy(R) /\ id = FoundIn(R, p) /\ id # 0 /\ t \in Texts /\ p \in Paths
      /\ ReadyToSave(cmd[c], R) \/ ReadyToEdit(cmd[c], R)
  BY <1>0 DEF Overwrite, ToolInv, Ready, NoWrite, ReadyToSave, ReadyToEdit, ReadyToDelete,
     ReadyToRename
<1>2. id \in DOMAIN R /\ R[id].live /\ R[id].path = p /\ R[id] \in Row
  <2>1. id \in DOMAIN R /\ R[id].live /\ R[id].path = p
    BY <1>1, FoundLies
  <2> QED BY <1>1, <2>1 DEF Tidy
<1>3. PICK row \in Row : /\ row = [R[id] EXCEPT !.text = t] /\ row.live /\ row.path = p
                         /\ row.text = t /\ row.status = R[id].status
  <2> DEFINE edited == [R[id] EXCEPT !.text = t]
  <2>1. edited \in Row /\ edited.live /\ edited.path = p /\ edited.text = t
        /\ edited.status = R[id].status
    BY <1>1, <1>2 DEF Row
  <2> QED BY <2>1, Zenon
<1>4. rows' = Put(R, id, row) /\ Done(c)
  BY <1>0, <1>2, <1>3 DEF Overwrite, Updated, Live, Put
<1>5. Tidy(rows') /\ Files(rows') = [Files(R) EXCEPT ![p] = FileOf(row)]
  <2>0. Tidy(R) /\ id \in DOMAIN R /\ R[id].live
    BY <1>1, <1>2
  <2>1. row \in Row /\ row.live /\ row.path = R[id].path /\ row.text \in Texts
    BY <1>1, <1>2, <1>3
  <2>2. /\ Tidy(Put(R, id, row))
        /\ Files(Put(R, id, row)) = [Files(R) EXCEPT ![row.path] = FileOf(row)]
    BY <2>0, <2>1, Rewrite
  <2> QED BY <1>3, <1>4, <2>2
<1>6. PICK F, G : F = Shown /\ G = Shown'
  OBVIOUS
<1>7. /\ ToolInv' /\ F = Files(R) /\ G = Files(rows')
      /\ Asked[c] = cmd[c].asked /\ Asked' = [Asked EXCEPT ![c] = NoCommand]
  BY <1>0, <1>4, <1>5, <1>6, DoneStep
<1>8. DOMAIN F = Paths /\ F[p] = FileOf(R[id]) /\ G = [F EXCEPT ![p] = FileOf(row)]
  <2>1. Files(R)[p] = FileOf(R[id])
    BY <1>1, <1>2, LiesThere DEF Files
  <2> QED BY <1>5, <1>7, <2>1 DEF Files
<1>9. CASE ReadyToSave(cmd[c], R)
  <2>1. G = [F EXCEPT ![p] = [there |-> TRUE, text |-> t, held |-> F[p].held]] /\ F[p].held \in BOOLEAN
    BY <1>3, <1>8 DEF FileOf
  <2>2. PICK raw \in Raws : /\ Spellings[raw] = p /\ p # Root
                            /\ cmd[c].asked = [command |-> "create", path |-> raw, text |-> t]
    BY <1>0, <1>9 DEF ReadyToSave
  <2>3. Promise!Save(p, t)
    BY <1>6, <2>1, <2>2 DEF Promise!Save, Promise!Holds, Shown
  <2> QED BY <1>1, <1>7, <2>2, <2>3, CarriedOut
<1>10. CASE ReadyToEdit(cmd[c], R)
  <2>0. R[id].status # "pending"
    BY <1>0, <1>10 DEF ReadyToEdit
  <2>1. F[p].there /\ ~F[p].held /\ F[p].text = R[id].text
    BY <1>8, <2>0, FileFields
  <2>2. FileOf(row) = [FileOf(R[id]) EXCEPT !.text = t]
    <3>1. FileOf(row) = [FileOf(R[id]) EXCEPT !.text = row.text]
      BY <1>3, EditedFile
    <3> QED BY <1>3, <3>1
  <2>3. Promise!Edit(p, t)
    BY <1>6, <1>8, <2>1, <2>2 DEF Promise!Edit, Promise!Holds, Shown
  <2>4. PICK raw \in Raws :
          /\ Spellings[raw] = p
          /\ \/ \E old, new \in Tokens :
                  /\ cmd[c].asked = [command |-> "str_replace", path |-> raw, old |-> old, new |-> new]
                  /\ Replaces(R[id].text, old, new, t)
             \/ \E line \in Nat, new \in Tokens :
                  /\ cmd[c].asked = [command |-> "insert", path |-> raw, line |-> line, new |-> new]
                  /\ Inserts(R[id].text, line, new, t)
    BY <1>0, <1>10 DEF ReadyToEdit
  <2>5. ASSUME NEW old, NEW new, Replaces(R[id].text, old, new, t) PROVE Promise!Replace(p, old, new)
    <3>1. PICK text : text = F[p].text
      OBVIOUS
    <3>2. PICK i \in DOMAIN text : /\ text[i] = old /\ \A j \in DOMAIN text \ {i} : text[j] # old
                                  /\ t = [text EXCEPT ![i] = new]
      BY <2>1, <2>5, <3>1 DEF Replaces
    <3>3. Promise!Edit(p, [text EXCEPT ![i] = new])
      BY <2>3, <3>2
    <3>4. text = Shown[p].text
      BY <1>6, <3>1
    <3> QED BY <3>2, <3>3, <3>4, Zenon DEF Promise!Replace, Shown
  <2>6. ASSUME NEW line, NEW new, Inserts(R[id].text, line, new, t) PROVE Promise!AddLine(p, line, new)
    <3>1. /\ line <= Len(F[p].text)
          /\ t = SubSeq(F[p].text, 1, line) \o <<new>> \o SubSeq(F[p].text, line + 1, Len(F[p].text))
      BY <2>1, <2>6 DEF Inserts
    <3> QED BY <1>6, <2>3, <3>1 DEF Promise!AddLine, Shown
  <2> QED BY <1>1, <1>7, <2>4, <2>5, <2>6, CarriedOut
<1> QED BY <1>1, <1>9, <1>10

LEMMA StoreStep ==
  ASSUME OneClient, ToolInv, ~dedup, NEW c \in Clients, Store(c)
  PROVE  ToolInv' /\ Promise!CarryOut(c)
<1>0. PICK R, p, t : R = rows /\ p = cmd[c].path /\ t = cmd[c].text
  OBVIOUS
<1>1. Tidy(R) /\ ReadyToSave(cmd[c], R)
  BY <1>0 DEF Store, ToolInv, Ready, ReadyToEdit, ReadyToDelete, ReadyToRename
<1>2. FoundIn(R, p) = 0 /\ p \in Paths \ {Root} /\ t \in Texts
  BY <1>0, <1>1 DEF Store, ReadyToSave
<1>3. PICK raw \in Raws : /\ Spellings[raw] = p
                          /\ cmd[c].asked = [command |-> "create", path |-> raw, text |-> t]
  BY <1>0, <1>1 DEF ReadyToSave
<1>4. PICK status \in {"readable", "pending"} :
        rows' = Append(R, [path |-> p, text |-> t, live |-> TRUE, hash |-> <<>>,
                           status |-> status])
  BY <1>0 DEF Store, Fingerprint
<1> DEFINE row == [path |-> p, text |-> t, live |-> TRUE, hash |-> <<>>, status |-> status]
<1>5. row \in Row /\ row.live /\ row.path = p /\ row.text = t /\ row.text \in Texts
  BY <1>1, <1>2 DEF Row
<1>6. FileOf(row) = [there |-> TRUE, text |-> t, held |-> (status = "pending")]
  BY DEF FileOf
<1> HIDE DEF row
<1>7. Tidy(rows') /\ Files(rows') = [Files(R) EXCEPT ![p] = FileOf(row)]
  <2>1. Tidy(R) /\ FoundIn(R, row.path) = 0
    BY <1>1, <1>2, <1>5
  <2>2. /\ Tidy(Append(R, row))
        /\ Files(Append(R, row)) = [Files(R) EXCEPT ![row.path] = FileOf(row)]
    BY <1>5, <2>1, AddRow
  <2> QED BY <1>4, <1>5, <2>2 DEF row
<1>8. PICK F, G : F = Shown /\ G = Shown'
  OBVIOUS
<1>9. /\ ToolInv' /\ F = Files(R) /\ G = Files(rows')
      /\ Asked[c] = cmd[c].asked /\ Asked' = [Asked EXCEPT ![c] = NoCommand]
  <2>1. Done(c)
    BY DEF Store
  <2> QED BY <1>0, <1>7, <1>8, <2>1, DoneStep
<1>10. ~F[p].there
  BY <1>1, <1>2, <1>9 DEF Files, FileIn
<1>11. PICK held \in BOOLEAN : G = [F EXCEPT ![p] = [there |-> TRUE, text |-> t, held |-> held]]
  BY <1>6, <1>7, <1>9
<1>12. Promise!Save(p, t)
  BY <1>1, <1>2, <1>8, <1>10, <1>11 DEF Promise!Save, Promise!Holds, Shown
<1> QED BY <1>2, <1>3, <1>9, <1>12, CarriedOut

LEMMA EraseStep ==
  ASSUME OneClient, ToolInv, ~dedup, NEW c \in Clients, Erase(c)
  PROVE  ToolInv' /\ Promise!CarryOut(c)
<1>0. PICK R, p, ids, first : /\ R = rows /\ p = cmd[c].path /\ ids = cmd[c].ids
                              /\ first = FoundIn(R, p)
  OBVIOUS
<1>1. Tidy(R) /\ ReadyToDelete(cmd[c], R)
  BY <1>0 DEF Erase, ToolInv, Ready, ReadyToSave, ReadyToEdit, ReadyToRename
<1>2. /\ p \in Paths \ {Root} /\ ids # {}
      /\ ids = IF first # 0 THEN {first} ELSE TreeIn(R, p)
  BY <1>0, <1>1 DEF ReadyToDelete
<1>3. PICK raw \in Raws : Spellings[raw] = p /\ cmd[c].asked = [command |-> "delete", path |-> raw]
  BY <1>0, <1>1 DEF ReadyToDelete
<1>4. rows' = Wiped(R, ids) /\ Done(c)
  BY <1>0 DEF Erase, Wiped
<1>5. first # 0 => first \in DOMAIN R /\ R[first].live /\ R[first].path = p
  BY <1>0, <1>1, FoundLies
<1>6. ids \in SUBSET DOMAIN R /\ \A id \in ids : R[id].live
  BY <1>2, <1>5 DEF TreeIn, ListedIn
<1> DEFINE few == Cardinality(Occupied(Files(R))) <= ListLimit
<1>7. PICK gone \in SUBSET Paths :
        gone = IF first # 0 THEN {p} ELSE IF few THEN Beneath[p] ELSE {R[id].path : id \in ids}
  <2>1. \A id \in ids : R[id].path \in Paths
    BY <1>1, <1>6, RowPath
  <2>2. Beneath[p] \in SUBSET Paths
    BY <1>2, MemoryToolAssumption
  <2> QED BY <1>2, <2>1, <2>2
<1>8. \A id \in DOMAIN R : R[id].live => (id \in ids <=> R[id].path \in gone)
  <2>1. CASE first # 0
    <3>1. \A id \in DOMAIN R : R[id].live /\ R[id].path = p => id = first
      BY <1>0, <1>1, LiesThere
    <3> QED BY <1>2, <1>5, <1>7, <2>1, <3>1
  <2>2. CASE first = 0 /\ few
    <3>1. ids = {id \in DOMAIN R : R[id].live /\ R[id].path \in Beneath[p]}
      BY <1>1, <1>2, <2>2, AllListed DEF TreeIn, LiveIn
    <3> QED BY <1>7, <2>2, <3>1
  <2>3. CASE first = 0 /\ ~few
    BY <1>1, <1>6, <1>7, <2>3 DEF Tidy
  <2> QED BY <2>1, <2>2, <2>3
<1>9. /\ IF first # 0 THEN gone = {p} ELSE gone \subseteq Beneath[p]
      /\ (first = 0 /\ few) => gone = Beneath[p]
  BY <1>2, <1>7 DEF TreeIn
<1>10. /\ Tidy(rows')
       /\ Files(rows') = [q \in Paths |-> IF q \in gone THEN [there |-> FALSE] ELSE Files(R)[q]]
  <2>1. Tidy(R) /\ ids \in SUBSET DOMAIN R
    BY <1>1, <1>6
  <2>2. /\ Tidy(Wiped(R, ids))
        /\ Files(Wiped(R, ids)) =
             [q \in Paths |-> IF q \in gone THEN [there |-> FALSE] ELSE Files(R)[q]]
    BY <1>8, <2>1, WipeRows
  <2> QED BY <1>4, <2>2
<1>11. PICK F, G : F = Shown /\ G = Shown'
  OBVIOUS
<1>12. /\ ToolInv' /\ F = Files(R) /\ G = Files(rows')
       /\ Asked[c] = cmd[c].asked /\ Asked' = [Asked EXCEPT ![c] = NoCommand]
  BY <1>0, <1>4, <1>10, <1>11, DoneStep
<1>13. F[p].there <=> first # 0
  <2>1. F[p] = FileIn(R, p)
    BY <1>2, <1>12 DEF Files
  <2>2. CASE first # 0
    BY <1>0, <2>1, <2>2, FileFields DEF FileIn
  <2>3. CASE first = 0
    BY <1>0, <2>1, <2>3 DEF FileIn
  <2> QED BY <2>2, <2>3
<1>14. G = [q \in Paths |-> IF q \in gone THEN [there |-> FALSE] ELSE F[q]]
  BY <1>10, <1>12
<1>15. \E q \in gone : F[q].there
  <2>1. PICK id \in ids : TRUE
    BY <1>2
  <2>2. id \in DOMAIN R /\ R[id].live /\ R[id].path \in gone
    BY <1>6, <1>8
  <2>3. F[R[id].path] = FileOf(R[id])
    BY <1>1, <1>12, <2>2, LiesThere DEF Files
  <2> QED BY <2>2, <2>3, FileFields
<1>16. few <=> Cardinality({q \in Paths : F[q].there}) <= ListLimit
  BY <1>12 DEF Occupied
<1> HIDE DEF few
<1>17. /\ IF F[p].there THEN gone = {p} ELSE gone \subseteq Beneath[p]
       /\ (~F[p].there /\ Cardinality({q \in Paths : F[q].there}) <= ListLimit) => gone = Beneath[p]
  BY <1>9, <1>13, <1>16, Zenon
<1>18. Promise!Remove(p)
  <2>1. p # Root
    BY <1>2
  <2>2. \E clear \in SUBSET Paths :
          /\ IF F[p].there THEN clear = {p} ELSE clear \subseteq Beneath[p]
          /\ (~F[p].there /\ Cardinality({q \in Paths : F[q].there}) <= ListLimit)
               => clear = Beneath[p]
          /\ \E q \in clear : F[q].there
          /\ G = [q \in Paths |-> IF q \in clear THEN [there |-> FALSE] ELSE F[q]]
    BY <1>14, <1>15, <1>17, Zenon
  <2>3. \A S : Promise!Cardinality(S) = Cardinality(S)
    BY DEF Promise!Cardinality, Cardinality
  <2> QED BY <1>11, <2>1, <2>2, <2>3, Zenon DEF Promise!Remove, Promise!Holds, Promise!NoFile, Shown
<1> QED BY <1>2, <1>3, <1>12, <1>18, CarriedOut

LEMMA RelocateStep ==
  ASSUME OneClient, ToolInv, ~dedup, NEW c \in Clients, Relocate(c)
  PROVE  ToolInv' /\ Promise!CarryOut(c)
<1>0. PICK R, id, p, q : R = rows /\ id = cmd[c].id /\ p = cmd[c].path /\ q = cmd[c].to
  OBVIOUS
<1>1. /\ Tidy(R) /\ id = FoundIn(R, p) /\ id # 0 /\ p \in Paths \ {Root} /\ q \in Paths
      /\ FoundIn(R, q) = 0
      /\ \E raw, to \in Raws :
           /\ Spellings[raw] = p /\ Spellings[to] = q
           /\ cmd[c].asked = [command |-> "rename", path |-> raw, to |-> to]
  <2>1. Tidy(R) /\ ReadyToRename(cmd[c], R)
    BY <1>0 DEF Relocate, ToolInv, Ready, ReadyToSave, ReadyToEdit, ReadyToDelete
  <2> QED BY <1>0, <2>1 DEF ReadyToRename
<1>2. Tidy(R) /\ id \in DOMAIN R /\ R[id].live /\ FoundIn(R, q) = 0
  BY <1>1, FoundLies
<1>3. R[id].path = p
  BY <1>1, FoundLies
<1>4. rows' = Moved(R, id, q) /\ Done(c)
  BY <1>0, <1>2 DEF Relocate, Updated, Live, Moved, Put
<1>5. /\ Tidy(rows')
      /\ Files(rows') = [Files(R) EXCEPT ![q] = Files(R)[p], ![p] = [there |-> FALSE]]
  <2>1. q \in Paths
    BY <1>1
  <2>2. /\ Tidy(Moved(R, id, q))
        /\ Files(Moved(R, id, q)) = [Files(R) EXCEPT ![q] = Files(R)[R[id].path],
                                                     ![R[id].path] = [there |-> FALSE]]
    BY <1>2, <2>1, MoveRow
  <2> QED BY <1>3, <1>4, <2>2
<1>6. PICK F, G : F = Shown /\ G = Shown'
  OBVIOUS
<1>7. /\ ToolInv' /\ F = Files(R) /\ G = Files(rows')
      /\ Asked[c] = cmd[c].asked /\ Asked' = [Asked EXCEPT ![c] = NoCommand]
  BY <1>0, <1>4, <1>5, <1>6, DoneStep
<1>8. F[p].there /\ ~F[q].there
  <2>1. F[p] = FileOf(R[FoundIn(R, p)]) /\ F[q] = [there |-> FALSE]
    BY <1>1, <1>7 DEF Files, FileIn
  <2> QED BY <2>1, FileFields
<1>9. G = [F EXCEPT ![q] = F[p], ![p] = [there |-> FALSE]]
  BY <1>5, <1>7
<1>10. Promise!Move(p, q)
  BY <1>1, <1>6, <1>8, <1>9 DEF Promise!Move, Promise!Holds, Promise!NoFile, Shown
<1> QED BY <1>1, <1>7, <1>10, CarriedOut

LEMMA ReviewStep ==
  ASSUME ToolInv, ~dedup, NEW id \in DOMAIN rows, Review(id)
  PROVE  ToolInv' /\ \E p \in Paths : Promise!Decide(p)
<1>0. PICK R, p : R = rows /\ p = R[id].path
  OBVIOUS
<1>1. /\ Tidy(R) /\ id \in DOMAIN R /\ R[id].live /\ R[id].status = "pending"
      /\ UNCHANGED <<cmd, dedup>>
  BY <1>0 DEF Review, ToolInv, Live
<1>2. R[id] \in Row /\ p \in Paths /\ R[id].text \in Texts
  <2>1. R[id] \in Row /\ R[id].text \in Texts
    BY <1>1 DEF Tidy
  <2> QED BY <1>0, <2>1 DEF Row
<1>3. PICK row \in Row : /\ row.live /\ row.path = p /\ row.text = R[id].text
                         /\ row.status = "readable" /\ row = [R[id] EXCEPT !.status = "readable"]
  <2> DEFINE decided == [R[id] EXCEPT !.status = "readable"]
  <2>1. /\ decided \in Row /\ decided.live /\ decided.path = p /\ decided.text = R[id].text
        /\ decided.status = "readable"
    BY <1>0, <1>1, <1>2 DEF Row
  <2> QED BY <2>1, Zenon
<1>4. rows' = Put(R, id, row)
  BY <1>0, <1>3 DEF Review, Put
<1>5. /\ Tidy(rows') /\ DOMAIN rows' = DOMAIN R
      /\ \A x \in Paths : FoundIn(rows', x) = FoundIn(R, x)
      /\ Files(rows') = [Files(R) EXCEPT ![p] = FileOf(row)]
  <2>0. Tidy(R) /\ id \in DOMAIN R /\ R[id].live
    BY <1>1
  <2>1. row \in Row /\ row.live /\ row.path = R[id].path /\ row.text \in Texts
    BY <1>0, <1>2, <1>3
  <2>2. /\ Tidy(Put(R, id, row)) /\ DOMAIN Put(R, id, row) = DOMAIN R
        /\ \A x \in Paths : FoundIn(Put(R, id, row), x) = FoundIn(R, x)
        /\ Files(Put(R, id, row)) = [Files(R) EXCEPT ![row.path] = FileOf(row)]
    BY <2>0, <2>1, Rewrite
  <2> QED BY <1>3, <1>4, <2>2
<1>6. \A k \in DOMAIN R : /\ rows'[k].live = R[k].live /\ rows'[k].path = R[k].path
                          /\ R[k].status # "pending" => rows'[k].status # "pending"
                          /\ rows'[k].text = R[k].text
  <2>1. rows'[id] = row /\ \A k \in DOMAIN R : k # id => rows'[k] = R[k]
    BY <1>1, <1>4 DEF Put, Tidy
  <2>2. row.live = R[id].live
    BY <1>1, <1>2, <1>3 DEF Row
  <2> QED BY <1>0, <1>3, <2>1, <2>2
<1>7. ASSUME NEW c \in Clients PROVE Ready(cmd'[c], rows')
  <2>1. Ready(cmd[c], R) /\ cmd'[c] = cmd[c]
    BY <1>0, <1>1 DEF ToolInv
  <2>2. CASE ReadyToEdit(cmd[c], R)
    <3>1. /\ cmd[c].id = FoundIn(R, cmd[c].path) /\ cmd[c].id # 0 /\ cmd[c].path \in Paths
          /\ R[cmd[c].id].status # "pending"
      BY <2>2 DEF ReadyToEdit
    <3>2. cmd[c].id \in DOMAIN R
      BY <1>1, <3>1, FoundLies
    <3>3. rows'[cmd[c].id].status # "pending" /\ rows'[cmd[c].id].text = R[cmd[c].id].text
      BY <1>6, <3>1, <3>2
    <3>4. ReadyToEdit(cmd[c], rows')
      BY <1>5, <2>2, <3>3 DEF ReadyToEdit
    <3> QED BY <2>1, <3>4 DEF Ready
  <2>3. CASE ReadyToDelete(cmd[c], R)
    <3>1. \A id2 \in DOMAIN R : {k \in DOMAIN rows' : rows'[k].live /\ k < id2}
                               = {k \in DOMAIN R : R[k].live /\ k < id2}
      BY <1>5, <1>6
    <3>2. ListedIn(rows') = ListedIn(R)
      BY <1>5, <1>6, <3>1 DEF ListedIn
    <3>3. \A x : TreeIn(rows', x) = TreeIn(R, x)
      BY <1>6, <3>2 DEF TreeIn, ListedIn
    <3>4. ReadyToDelete(cmd[c], rows')
      BY <1>5, <2>3, <3>3 DEF ReadyToDelete
    <3> QED BY <2>1, <3>4 DEF Ready
  <2>4. CASE ReadyToSave(cmd[c], R)
    BY <1>5, <2>1, <2>4 DEF Ready, ReadyToSave
  <2>5. CASE ReadyToRename(cmd[c], R)
    BY <1>5, <2>1, <2>5 DEF Ready, ReadyToRename
  <2> QED BY <2>1, <2>2, <2>3, <2>4, <2>5 DEF Ready
<1>8. ToolInv'
  BY <1>1, <1>5, <1>7 DEF ToolInv
<1>9. PICK F, G : F = Shown /\ G = Shown'
  OBVIOUS
<1>10. F = Files(R) /\ G = Files(rows')
  BY <1>0, <1>1, <1>5, <1>9, ShownNow, ShownNext
<1>11. F[p] = FileOf(R[id]) /\ DOMAIN F = Paths
  BY <1>0, <1>1, <1>2, <1>10, LiesThere DEF Files
<1>12. FileOf(row) = [F[p] EXCEPT !.held = FALSE]
  <2>1. row.status # "pending"
    BY <1>3
  <2>2. FileOf(row) = [FileOf(R[id]) EXCEPT !.held = FALSE]
    BY <1>1, <1>3, <2>1, DecidedFile
  <2> QED BY <1>11, <2>2
<1>13. F[p].there /\ F[p].held
  BY <1>1, <1>11, FileFields
<1>14. G = [F EXCEPT ![p] = [F[p] EXCEPT !.held = FALSE]]
  BY <1>5, <1>10, <1>12
<1>15. Promise!Decide(p)
  <2>1. Asked' = Asked
    BY <1>1 DEF Asked
  <2> QED BY <1>9, <1>11, <1>13, <1>14, <2>1 DEF Promise!Decide, Promise!Holds, Shown, Asked
<1> QED BY <1>2, <1>8, <1>15

-----------------------------------------------------------------------------
LEMMA DedupKept == [ToolNext]_toolVars => dedup' = dedup
<1> SUFFICES ASSUME [ToolNext]_toolVars PROVE dedup' = dedup
  OBVIOUS
<1>1. \A c, w : Plan(c, w) => dedup' = dedup
  BY DEF Plan
<1>2. \A c, p, t, r : EditFile(c, p, t, r) => dedup' = dedup
  BY <1>1 DEF EditFile
<1>3. ASSUME NEW c, NEW raw, NEW text, Create(c, raw, text) PROVE dedup' = dedup
  BY <1>1, <1>3 DEF Create
<1>4. ASSUME NEW c, NEW raw, NEW old, NEW new, StrReplace(c, raw, old, new) PROVE dedup' = dedup
  BY <1>2, <1>4 DEF StrReplace
<1>5. ASSUME NEW c, NEW raw, NEW line, NEW new, Insert(c, raw, line, new) PROVE dedup' = dedup
  BY <1>2, <1>5 DEF Insert
<1>6. ASSUME NEW c, NEW raw, Delete(c, raw) PROVE dedup' = dedup
  BY <1>1, <1>6 DEF Delete
<1>7. ASSUME NEW c, NEW raw, NEW to, Rename(c, raw, to) PROVE dedup' = dedup
  BY <1>1, <1>7 DEF Rename
<1>8. ASSUME NEW c, Overwrite(c) \/ Store(c) \/ Fold(c) \/ Erase(c) \/ Relocate(c)
      PROVE  dedup' = dedup
  BY <1>8 DEF Overwrite, Store, Fold, Erase, Relocate, Done
<1>9. ASSUME NEW id, Review(id) PROVE dedup' = dedup
  BY <1>9 DEF Review
<1> QED BY <1>3, <1>4, <1>5, <1>6, <1>7, <1>8, <1>9 DEF ToolNext, toolVars

(* Where writes are folded the promise is an empty store.                  *)
LEMMA DedupStep ==
  ASSUME dedup, [ToolNext]_toolVars
  PROVE  ToolInv' /\ UNCHANGED <<Shown, Asked>>
<1>1. dedup' = dedup
  BY DedupKept
<1> QED BY <1>1 DEF Shown, Asked, ToolInv

LEMMA WriteStep ==
  ASSUME OneClient, ToolInv, ~dedup, [ToolNext]_toolVars
  PROVE  ToolInv' /\ (Promise!FileNext \/ UNCHANGED <<Shown, Asked>>)
<1>1. CASE UNCHANGED toolVars
  <2>1. ToolInv'
    BY <1>1 DEF ToolInv, toolVars
  <2>2. Shown' = Shown
    BY <1>1, <2>1, ShownNow, ShownNext DEF ToolInv, toolVars
  <2> QED BY <1>1, <2>1, <2>2 DEF Asked, toolVars
<1>2. ASSUME NEW c \in Clients, NEW raw \in Raws,
             \/ \E text \in Texts : Create(c, raw, text)
             \/ \E old, new \in Tokens : StrReplace(c, raw, old, new)
             \/ \E line \in 0..MaxLines, new \in Tokens : Insert(c, raw, line, new)
             \/ Delete(c, raw)
             \/ \E to \in Raws : Rename(c, raw, to)
      PROVE  ToolInv' /\ Promise!FileNext
  BY <1>2, LookUps DEF Promise!FileNext
<1>3. ASSUME NEW c \in Clients, Overwrite(c) PROVE ToolInv' /\ Promise!FileNext
  BY <1>3, OverwriteStep DEF Promise!FileNext
<1>4. ASSUME NEW c \in Clients, Store(c) PROVE ToolInv' /\ Promise!FileNext
  BY <1>4, StoreStep DEF Promise!FileNext
<1>5. ASSUME NEW c \in Clients, Erase(c) PROVE ToolInv' /\ Promise!FileNext
  BY <1>5, EraseStep DEF Promise!FileNext
<1>6. ASSUME NEW c \in Clients, Relocate(c) PROVE ToolInv' /\ Promise!FileNext
  BY <1>6, RelocateStep DEF Promise!FileNext
<1>7. ASSUME NEW id \in DOMAIN rows, Review(id) PROVE ToolInv' /\ Promise!FileNext
  BY <1>7, ReviewStep DEF Promise!FileNext
<1>8. ASSUME NEW c \in Clients PROVE ~Fold(c)
  BY DEF Fold, FindByContentHash
<1> QED BY <1>1, <1>2, <1>3, <1>4, <1>5, <1>6, <1>7, <1>8 DEF ToolNext

(* One agent, whose writes are not folded, has a file store: whatever is   *)
(* held, renamed and reused, the command it sends has, on the file that    *)
(* its spelling of the path names, the effect that command has on files,   *)
(* and no other; and views show each line of a readable file under its     *)
(* number.  Deleting a directory removes all of it unless the scope holds  *)
(* more files than list_by_metadata_key returns.                           *)
THEOREM OneAgentHasFiles == ASSUME OneClient PROVE ToolSpec => ToolIsFileStore
<1>1. ToolInit => ToolInv /\ Promise!FileInit
  <2> SUFFICES ASSUME ToolInit PROVE ToolInv /\ Promise!FileInit
    OBVIOUS
  <2>1. rows = <<>> /\ cmd = [c \in Clients |-> NoWrite]
    BY DEF ToolInit
  <2>2. Tidy(rows) /\ DOMAIN rows = {}
    BY <2>1 DEF Tidy
  <2>3. ToolInv
    BY <2>1, <2>2 DEF ToolInv, Ready, NoWrite
  <2>4. \A p \in Paths : FileAt(p) = [there |-> FALSE]
    BY <2>2, Seen, NothingThere
  <2>5. \A c \in Clients : cmd[c].asked = NoCommand
    BY <2>1 DEF NoWrite
  <2> QED BY <2>3, <2>4, <2>5 DEF Promise!FileInit, Promise!NoFile, Promise!NoCommand, NoCommand
<1>2. ToolInv /\ [ToolNext]_toolVars => ToolInv' /\ [Promise!FileNext]_<<Shown, Asked>>
  BY DedupStep, WriteStep
<1>3. (Promise!FileInit /\ [][Promise!FileNext]_<<Shown, Asked>>) => ToolIsFileStore
  BY DEF ToolIsFileStore, Promise!FileSpec, Promise!fileVars, Shown, Asked
<1> QED BY <1>1, <1>2, <1>3, PTL DEF ToolSpec

-----------------------------------------------------------------------------
(***************************************************************************)
(* The schema migrations, for any memories, any number of alembic runs and *)
(* any order of images from kkx0008 on.                                    *)
(*                                                                         *)
(* What the statements of the eleven migrations do to the two columns a    *)
(* hold can be kept in, and to one that both kinds of image need, is found *)
(* by looking at each of them (UpgradeFact, DowngradeFact).                *)
(***************************************************************************)

QuarantinedAt == "quarantined_at"
ReviewStatus == "review_status"
TrustLevel == "trust"

LEMMA NamesDiffer ==
  /\ QuarantinedAt # ReviewStatus /\ QuarantinedAt # TrustLevel /\ ReviewStatus # TrustLevel
  /\ "memories" \notin {QuarantinedAt, ReviewStatus, TrustLevel}
  BY DEF QuarantinedAt, ReviewStatus, TrustLevel

Kinds == {"add", "ensure", "index", "drop", "clear", "unindex", "commit", "carry"}
Making == {"add", "ensure", "index"}
Taking == {"drop", "clear", "unindex"}

UpgradeFact(r, i, s) ==
  /\ s.k \in Kinds /\ s.o # "database"
  /\ (s.k \in Making /\ s.o = QuarantinedAt) => s.k = "add" /\ r = 8 /\ i = 4
  /\ (s.k \in Making /\ s.o = ReviewStatus) => s.k = "add" /\ r = 9 /\ i = 3
  /\ (s.k \in Making /\ s.o = TrustLevel) => r = 8 /\ i = 2
  /\ s.k \in Taking => s.o \notin {ReviewStatus, TrustLevel, "memories"}
  /\ (s.k \in Taking /\ s.o = QuarantinedAt) => s.k = "drop" /\ r = 9 /\ i > 8
  /\ s.k = "carry" => r = 9 /\ i = 8
  /\ (r = 8 /\ i \in 2..4) => s.k = "add"
  /\ (r = 8 /\ i = 2) => s.o = TrustLevel
  /\ (r = 8 /\ i = 4) => s.o = QuarantinedAt
  /\ (r = 9 /\ i \in 3..7) => s.k \in {"add", "carry"}
  /\ (r = 9 /\ i = 3) => s.o = ReviewStatus
  /\ (r = 9 /\ i = 8) => s.k = "carry"

DowngradeFact(r, i, s) ==
  /\ s.k \in Kinds /\ s.o # "database"
  /\ (s.k \in Making /\ s.o = QuarantinedAt) => s.k = "add" /\ r = 9 /\ i = 1
  /\ s.k \in Making => s.o \notin {ReviewStatus, TrustLevel}
  /\ (s.k \in Taking /\ s.o = QuarantinedAt) => s.k = "drop" /\ r = 8 /\ i = 4
  /\ (s.k \in Taking /\ s.o = ReviewStatus) => s.k = "drop" /\ r = 9 /\ i > 3
  /\ (s.k \in Taking /\ s.o = TrustLevel) => r = 8
  /\ (s.k \in Taking /\ s.o = "memories") => r = 2
  /\ s.k = "carry" => r = 9 /\ i = 3
  /\ (r = 8 /\ i \in 3..7) => s.k \notin {"commit", "index", "unindex"}
  /\ (r = 8 /\ i = 6) => s.k = "drop" /\ s.o = TrustLevel
  /\ (r = 9 /\ i = 1) => s.k = "add" /\ s.o = QuarantinedAt
  /\ (r = 9 /\ i = 2) => s.k = "add"
  /\ (r = 9 /\ i = 3) => s.k = "carry"

LEMMA UpgradeFacts ==
  ASSUME NEW r \in 1..Latest
  PROVE  /\ Len(Upgrade[r]) \in Nat /\ DOMAIN Upgrade[r] = 1..Len(Upgrade[r])
         /\ r = 8 => Len(Upgrade[r]) >= 4
         /\ r = 9 => Len(Upgrade[r]) >= 8
         /\ \A i \in 1..Len(Upgrade[r]) : UpgradeFact(r, i, Upgrade[r][i])
<1>1. CASE r = 1
  BY <1>1 DEF Upgrade, UpTenancy, UpAccess, UpAudit, Stmt, UpgradeFact, Kinds, Making, Taking,
         QuarantinedAt, ReviewStatus, TrustLevel
<1>2. CASE r = 2
  BY <1>2 DEF Upgrade, UpSessions, UpMessages, UpMemories, UpLinks, Stmt, UpgradeFact, Kinds, Making, Taking,
         QuarantinedAt, ReviewStatus, TrustLevel
<1>3. CASE r = 3
  BY <1>3 DEF Upgrade, UpAttachments, UpChunks, Stmt, UpgradeFact, Kinds, Making, Taking,
         QuarantinedAt, ReviewStatus, TrustLevel
<1>4. CASE r = 4
  BY <1>4 DEF Upgrade, Up4, Stmt, UpgradeFact, Kinds, Making, Taking,
         QuarantinedAt, ReviewStatus, TrustLevel
<1>5. CASE r = 5
  BY <1>5 DEF Upgrade, Up5, Stmt, Commit, UpgradeFact, Kinds, Making, Taking,
         QuarantinedAt, ReviewStatus, TrustLevel
<1>6. CASE r = 6
  BY <1>6 DEF Upgrade, Up6, Stmt, Commit, UpgradeFact, Kinds, Making, Taking,
         QuarantinedAt, ReviewStatus, TrustLevel
<1>7. CASE r = 7
  BY <1>7 DEF Upgrade, Up7, Stmt, Commit, UpgradeFact, Kinds, Making, Taking,
         QuarantinedAt, ReviewStatus, TrustLevel
<1>8. CASE r = 8
  BY <1>8 DEF Upgrade, Up8, Stmt, Commit, UpgradeFact, Kinds, Making, Taking,
         QuarantinedAt, ReviewStatus, TrustLevel
<1>9. CASE r = 9
  <2>1. Upgrade[r] = Up9
    BY <1>9 DEF Upgrade
  <2>2. Len(Up9) = 14 /\ DOMAIN Up9 = 1..14
    BY DEF Up9, Stmt, Commit, Carry
  <2>3. ASSUME NEW i \in 1..14 PROVE UpgradeFact(9, i, Up9[i])
    <3> DEFINE s == Up9[i]
    <3>1. /\ i \in 1..2 => s.k = "ensure"
          /\ i \in 3..7 => s.k = "add"
          /\ i = 8 => s.k = "carry"
          /\ i = 9 => s.k = "add"
          /\ i = 10 => s.k = "commit"
          /\ i = 11 => s.k = "index"
          /\ i = 12 => s.k = "unindex"
          /\ i \in 13..14 => s.k = "drop"
      BY DEF Up9, Stmt, Commit, Carry
    <3>2. (s.o = ReviewStatus <=> i = 3) /\ (s.o = QuarantinedAt <=> i = 14)
      BY DEF Up9, Stmt, Commit, Carry, ReviewStatus, QuarantinedAt
    <3>3. s.o \notin {TrustLevel, "memories", "database"}
      BY DEF Up9, Stmt, Commit, Carry, TrustLevel
    <3> HIDE DEF s
    <3>4. s.k \in Kinds
      BY <3>1 DEF Kinds
    <3>5. UpgradeFact(9, i, s)
      BY <3>1, <3>2, <3>3, <3>4, NamesDiffer DEF UpgradeFact, Making, Taking
    <3> QED BY <3>5 DEF s
  <2> QED BY <1>9, <2>1, <2>2, <2>3
<1>10. CASE r = 10
  BY <1>10 DEF Upgrade, Up10, SwapTsv, Stmt, UpgradeFact, Kinds, Making, Taking,
         QuarantinedAt, ReviewStatus, TrustLevel
<1>11. CASE r = 11
  BY <1>11 DEF Upgrade, Up11, Stmt, UpgradeFact, Kinds, Making, Taking,
         QuarantinedAt, ReviewStatus, TrustLevel
<1> QED BY <1>1, <1>2, <1>3, <1>4, <1>5, <1>6, <1>7, <1>8, <1>9, <1>10, <1>11 DEF Latest

LEMMA DowngradeFacts ==
  ASSUME NEW r \in 1..Latest
  PROVE  /\ Len(Downgrade[r]) \in Nat /\ DOMAIN Downgrade[r] = 1..Len(Downgrade[r])
         /\ r = 8 => Len(Downgrade[r]) = 7
         /\ r = 9 => Len(Downgrade[r]) >= 3
         /\ \A i \in 1..Len(Downgrade[r]) : DowngradeFact(r, i, Downgrade[r][i])
<1>1. CASE r = 1
  BY <1>1 DEF Downgrade, Down1, Stmt, DowngradeFact, Kinds, Making, Taking,
         QuarantinedAt, ReviewStatus, TrustLevel
<1>2. CASE r = 2
  BY <1>2 DEF Downgrade, Down2, Stmt, DowngradeFact, Kinds, Making, Taking,
         QuarantinedAt, ReviewStatus, TrustLevel
<1>3. CASE r = 3
  BY <1>3 DEF Downgrade, Down3, Stmt, DowngradeFact, Kinds, Making, Taking,
         QuarantinedAt, ReviewStatus, TrustLevel
<1>4. CASE r = 4
  BY <1>4 DEF Downgrade, Down4, Stmt, DowngradeFact, Kinds, Making, Taking,
         QuarantinedAt, ReviewStatus, TrustLevel
<1>5. CASE r = 5
  BY <1>5 DEF Downgrade, Down5, Stmt, Commit, DowngradeFact, Kinds, Making, Taking,
         QuarantinedAt, ReviewStatus, TrustLevel
<1>6. CASE r = 6
  BY <1>6 DEF Downgrade, Down6, Stmt, Commit, DowngradeFact, Kinds, Making, Taking,
         QuarantinedAt, ReviewStatus, TrustLevel
<1>7. CASE r = 7
  BY <1>7 DEF Downgrade, Down7, Stmt, Commit, DowngradeFact, Kinds, Making, Taking,
         QuarantinedAt, ReviewStatus, TrustLevel
<1>8. CASE r = 8
  BY <1>8 DEF Downgrade, Down8, Stmt, Commit, DowngradeFact, Kinds, Making, Taking,
         QuarantinedAt, ReviewStatus, TrustLevel
<1>9. CASE r = 9
  <2>1. Downgrade[r] = Down9
    BY <1>9 DEF Downgrade
  <2>2. Len(Down9) = 14 /\ DOMAIN Down9 = 1..14
    BY DEF Down9, Stmt, Commit, Carry
  <2>3. ASSUME NEW i \in 1..14 PROVE DowngradeFact(9, i, Down9[i])
    <3> DEFINE s == Down9[i]
    <3>1. /\ i \in 1..2 => s.k = "add"
          /\ i = 3 => s.k = "carry"
          /\ i = 4 => s.k = "commit"
          /\ i = 5 => s.k = "index"
          /\ i = 6 => s.k = "unindex"
          /\ i \in 7..12 => s.k = "drop"
          /\ i \in 13..14 => s.k = "clear"
      BY DEF Down9, Stmt, Commit, Carry
    <3>2. (s.o = ReviewStatus <=> i = 12) /\ (s.o = QuarantinedAt <=> i = 1)
      BY DEF Down9, Stmt, Commit, Carry, ReviewStatus, QuarantinedAt
    <3>3. s.o \notin {TrustLevel, "memories", "database"}
      BY DEF Down9, Stmt, Commit, Carry, TrustLevel
    <3> HIDE DEF s
    <3>4. s.k \in Kinds
      BY <3>1 DEF Kinds
    <3>5. DowngradeFact(9, i, s)
      BY <3>1, <3>2, <3>3, <3>4, NamesDiffer DEF DowngradeFact, Making, Taking
    <3> QED BY <3>5 DEF s
  <2> QED BY <1>9, <2>1, <2>2, <2>3
<1>10. CASE r = 10
  <2>1. Downgrade[r] = Down10
    BY <1>10 DEF Downgrade
  <2>2. Len(Down10) = 11 /\ DOMAIN Down10 = 1..11
    BY DEF Down10, SwapTsv, Stmt
  <2>3. ASSUME NEW i \in 1..11 PROVE DowngradeFact(10, i, Down10[i])
    BY DEF Down10, SwapTsv, Stmt, DowngradeFact, Kinds, Making, Taking,
           QuarantinedAt, ReviewStatus, TrustLevel
  <2> QED BY <1>10, <2>1, <2>2, <2>3
<1>11. CASE r = 11
  BY <1>11 DEF Downgrade, Down11, Stmt, DowngradeFact, Kinds, Making, Taking,
         QuarantinedAt, ReviewStatus, TrustLevel
<1> QED BY <1>1, <1>2, <1>3, <1>4, <1>5, <1>6, <1>7, <1>8, <1>9, <1>10, <1>11 DEF Latest

(* Every statement is about an object, and dropping one takes the columns  *)
(* of memories only if it is that column or the table.                     *)
LEMMA StatementObjects ==
  ASSUME NEW r \in 1..Latest
  PROVE  /\ \A i \in 1..Len(Upgrade[r]) : Upgrade[r][i].o \in Objects
         /\ \A i \in 1..Len(Downgrade[r]) : Downgrade[r][i].o \in Objects
<1>1. r \in DOMAIN Upgrade
  BY DEF Upgrade, Latest
<1>2. \A i \in 1..Len(Upgrade[r]) : Upgrade[r][i] \in ToSet(Upgrade[r])
  BY UpgradeFacts, DowngradeFacts DEF ToSet
<1>3. \A i \in 1..Len(Downgrade[r]) : Downgrade[r][i] \in ToSet(Downgrade[r])
  BY UpgradeFacts, DowngradeFacts DEF ToSet
<1> QED BY <1>1, <1>2, <1>3 DEF Objects

LEMMA ColumnsAreObjects ==
  /\ QuarantinedAt \in Objects /\ ReviewStatus \in Objects /\ TrustLevel \in Objects
  /\ \A o \in Objects : /\ QuarantinedAt \in Whole[o] <=> o \in {QuarantinedAt, "memories"}
                        /\ ReviewStatus \in Whole[o] <=> o \in {ReviewStatus, "memories"}
                        /\ TrustLevel \in Whole[o] <=> o \in {TrustLevel, "memories"}
<1>1. QuarantinedAt \in Objects /\ ReviewStatus \in Objects /\ TrustLevel \in Objects
  <2>1. 8 \in 1..Latest /\ 9 \in 1..Latest
    BY DEF Latest
  <2>2. Upgrade[8][4].o \in Objects /\ Upgrade[8][2].o \in Objects
    BY <2>1, StatementObjects, UpgradeFacts
  <2>3. Upgrade[8][4].o = QuarantinedAt /\ Upgrade[8][2].o = TrustLevel
    BY <2>1, UpgradeFacts DEF UpgradeFact
  <2>4. Upgrade[9][3].o \in Objects
    BY <2>1, StatementObjects, UpgradeFacts
  <2>5. Upgrade[9][3].o = ReviewStatus
    BY <2>1, UpgradeFacts DEF UpgradeFact
  <2> QED BY <2>2, <2>3, <2>4, <2>5
<1>2. "database" \notin Objects
  <2>1. DOMAIN Upgrade = 1..Latest
    BY DEF Upgrade, Latest
  <2>2. ASSUME NEW r \in 1..Latest, NEW st \in ToSet(Upgrade[r]) \cup ToSet(Downgrade[r])
        PROVE  st.o # "database"
    BY UpgradeFacts, DowngradeFacts DEF ToSet, UpgradeFact, DowngradeFact
  <2> QED BY <2>1, <2>2 DEF Objects
<1>3. \A x \in {QuarantinedAt, ReviewStatus, TrustLevel} : PartOf(x) = "memories"
  BY DEF PartOf, QuarantinedAt, ReviewStatus, TrustLevel
<1>4. PartOf("memories") = "database"
  BY DEF PartOf
<1> QED BY <1>1, <1>2, <1>3, <1>4 DEF Whole
LEMMA SchemaColumns ==
  /\ \A rev \in 0..Latest : Schemas[rev] \subseteq Objects
  /\ \A rev \in 0..Latest : TrustLevel \in Schemas[rev] => rev >= 8
  /\ QuarantinedAt \in Schemas[8]
  /\ \A rev \in 9..Latest : ReviewStatus \in Schemas[rev] /\ TrustLevel \in Schemas[rev]
<1>1. \A rev \in 0..Latest : Schemas[rev] = SchemaAt(rev)
  BY DEF Schemas
<1>2. \A rev \in 0..Latest : SchemaAt(rev) \subseteq Objects
  BY DEF SchemaAt
<1>3. ASSUME NEW rev \in 0..Latest, TrustLevel \in SchemaAt(rev) PROVE rev >= 8
  <2>1. PICK r \in 1..rev : \E i \in DOMAIN Upgrade[r] : Makes(r, i, TrustLevel)
    BY <1>3 DEF SchemaAt
  <2>2. r \in 1..Latest /\ Latest \in Nat
    BY DEF Latest
  <2>4. PICK i \in DOMAIN Upgrade[r] : Makes(r, i, TrustLevel)
    BY <2>1
  <2>3. UpgradeFact(r, i, Upgrade[r][i])
    BY <2>2, UpgradeFacts
  <2> QED BY <2>4, <2>2, <2>3 DEF UpgradeFact, Makes, Making
<1>4. ASSUME NEW x \in {QuarantinedAt, ReviewStatus, TrustLevel}, NEW rev \in 8..Latest,
             NEW r \in 8..rev, NEW i \in DOMAIN Upgrade[r], Makes(r, i, x),
             x = QuarantinedAt => rev = 8
      PROVE  x \in SchemaAt(rev)
  <2>1. rev \in 1..Latest /\ Latest \in Nat
    BY DEF Latest
  <2>2. ASSUME NEW q \in r..rev, NEW j \in DOMAIN Upgrade[q], Takes(q, j, x)
        PROVE  FALSE
    <3>1. q \in 1..Latest /\ UpgradeFact(q, j, Upgrade[q][j]) /\ Upgrade[q][j].o \in Objects
      BY <2>1, UpgradeFacts, StatementObjects
    <3>2. Upgrade[q][j].k \in Taking /\ Upgrade[q][j].o \in {x, "memories"}
      BY <2>2, <3>1, ColumnsAreObjects DEF Takes, Taking
    <3>3. x = QuarantinedAt /\ q = 9
      BY <3>1, <3>2 DEF UpgradeFact
    <3> QED BY <3>3, <1>4
  <2>3. x \in Objects /\ r \in 1..rev
    BY <2>1, ColumnsAreObjects
  <2> QED BY <2>2, <2>3, <1>4 DEF SchemaAt
<1>5. 8 \in 1..Latest /\ 9 \in 1..Latest
  BY DEF Latest
<1>6. /\ 4 \in DOMAIN Upgrade[8] /\ Makes(8, 4, QuarantinedAt)
      /\ 2 \in DOMAIN Upgrade[8] /\ Makes(8, 2, TrustLevel)
      /\ 3 \in DOMAIN Upgrade[9] /\ Makes(9, 3, ReviewStatus)
  <2>1. 4 \in 1..Len(Upgrade[8]) /\ 2 \in 1..Len(Upgrade[8]) /\ 3 \in 1..Len(Upgrade[9])
    BY <1>5, UpgradeFacts
  <2>2. UpgradeFact(8, 4, Upgrade[8][4]) /\ UpgradeFact(8, 2, Upgrade[8][2])
        /\ UpgradeFact(9, 3, Upgrade[9][3])
    BY <2>1, <1>5, UpgradeFacts
  <2>3. Upgrade[9][3].k \in Making /\ Upgrade[9][3].o = ReviewStatus
    BY <2>2 DEF UpgradeFact, Making
  <2>4. /\ Upgrade[8][4].k \in Making /\ Upgrade[8][4].o = QuarantinedAt
        /\ Upgrade[8][2].k \in Making /\ Upgrade[8][2].o = TrustLevel
    BY <2>2 DEF UpgradeFact, Making
  <2> QED BY <2>1, <2>3, <2>4, <1>5, UpgradeFacts DEF Makes, Making
<1>7. QuarantinedAt \in SchemaAt(8)
  BY <1>4, <1>6 DEF Latest
<1>8. ASSUME NEW rev \in 9..Latest PROVE ReviewStatus \in SchemaAt(rev) /\ TrustLevel \in SchemaAt(rev)
  <2>1. ReviewStatus # QuarantinedAt /\ TrustLevel # QuarantinedAt
    BY DEF ReviewStatus, TrustLevel, QuarantinedAt
  <2>2. rev \in 8..Latest /\ 8 \in 8..rev /\ 9 \in 8..rev
    BY DEF Latest
  <2> QED BY <2>1, <2>2, <1>4, <1>6
<1>9. 8 \in 0..Latest /\ \A rev \in 9..Latest : rev \in 0..Latest
  BY DEF Latest
<1> QED BY <1>1, <1>2, <1>3, <1>7, <1>8, <1>9

(* An image that works finds the column it keeps a hold in.                *)
LEMMA WorksNeeds ==
  ASSUME image \in 8..Latest, Works
  PROVE  /\ image = 8 => QuarantinedAt \in db.objs
         /\ image # 8 => ReviewStatus \in db.objs /\ TrustLevel \in db.objs
<1>1. PartOf(QuarantinedAt) = "memories" /\ PartOf(ReviewStatus) = "memories" /\ PartOf(TrustLevel) = "memories"
  BY DEF PartOf, QuarantinedAt, ReviewStatus, TrustLevel
<1>2. {QuarantinedAt, ReviewStatus, TrustLevel} \cap {"tsv", "tsv_by_config", "ix_hnsw", "ix_tsv_gin", "ix_body_trgm"}
      = {}
  BY DEF QuarantinedAt, ReviewStatus, TrustLevel
<1>3. /\ QuarantinedAt \in Schemas[8] /\ ReviewStatus \in Schemas[Latest] /\ TrustLevel \in Schemas[Latest]
      /\ image # 8 => ReviewStatus \in Schemas[image] /\ TrustLevel \in Schemas[image]
  BY SchemaColumns DEF Latest
<1>4. {QuarantinedAt, ReviewStatus, TrustLevel} \subseteq Columns
  BY <1>1, <1>2, <1>3 DEF Columns
<1>5. Schemas[image] \cap Columns \subseteq db.objs
  BY DEF Works
<1> QED BY <1>3, <1>4, <1>5

-----------------------------------------------------------------------------
(* What a statement does to the three columns and to the rows.             *)

SchemaRow == [quarantined : BOOLEAN, status : {"none", "approved", "pending"}]
SchemaState == [objs : SUBSET Objects, broken : SUBSET Objects, rev : 0..Latest,
           rows : [Memories -> SchemaRow]]

Keeps(s, x, before, after) ==
  x \in after <=> \/ s.k \in Making /\ s.o = x
                  \/ x \in before /\ ~(s.k \in Taking /\ s.o \in {x, "memories"})

RowKept(s, upwards, before, after) ==
  /\ after.quarantined = CASE s.k = "drop" /\ s.o = QuarantinedAt -> FALSE
                           [] s.k = "carry" /\ ~upwards /\ before.status = "pending" -> TRUE
                           [] OTHER -> before.quarantined
  /\ after.status = CASE s.k = "add" /\ s.o = ReviewStatus -> "approved"
                      [] s.k = "drop" /\ s.o = ReviewStatus -> "none"
                      [] s.k = "carry" /\ upwards /\ before.quarantined -> "pending"
                      [] OTHER -> before.status

LEMMA EffectFacts ==
  ASSUME NEW d \in SchemaState, NEW s, s.k \in Kinds, s.o \in Objects, NEW upwards \in BOOLEAN
  PROVE  /\ Effect(s, d, upwards) \in SchemaState
         /\ Effect(s, d, upwards).rev = d.rev
         /\ \A x \in {QuarantinedAt, ReviewStatus, TrustLevel} : Keeps(s, x, d.objs, Effect(s, d, upwards).objs)
         /\ \A m \in Memories : RowKept(s, upwards, d.rows[m], Effect(s, d, upwards).rows[m])
<1> DEFINE e == Effect(s, d, upwards)
           objs == CASE s.k \in {"add", "ensure", "index"} -> d.objs \cup {s.o}
                       [] s.k \in {"drop", "clear", "unindex"} -> d.objs \ Whole[s.o]
                       [] OTHER -> d.objs
           broken == IF s.k \in {"drop", "clear", "unindex"} THEN d.broken \ Whole[s.o]
                     ELSE d.broken
           cells == RowsAfter(s, d.rows, upwards)
<1>1. e.objs = objs /\ e.broken = broken /\ e.rows = cells /\ e.rev = d.rev
      /\ e = [objs |-> objs, broken |-> broken, rev |-> d.rev, rows |-> cells]
  <2>1. e = [d EXCEPT !.rows = cells, !.objs = objs, !.broken = broken]
    BY DEF Effect
  <2> HIDE DEF e, objs, broken, cells
  <2> QED BY <2>1 DEF SchemaState
<1>2. objs \in SUBSET Objects /\ broken \in SUBSET Objects
  BY DEF SchemaState
<1>3. \A x \in {QuarantinedAt, ReviewStatus, TrustLevel} : Keeps(s, x, d.objs, objs)
  <2>1. \A x \in {QuarantinedAt, ReviewStatus, TrustLevel} : x \in Whole[s.o] <=> s.o \in {x, "memories"}
    BY ColumnsAreObjects
  <2> QED BY <2>1 DEF Keeps, Making, Taking, Kinds
<1>4. cells \in [Memories -> SchemaRow]
  <2>1. d.rows \in [Memories -> SchemaRow]
    BY DEF SchemaState
  <2>2. \A v \in BOOLEAN, st \in {"none", "approved", "pending"}, row \in SchemaRow :
          [row EXCEPT !.quarantined = v] \in SchemaRow /\ [row EXCEPT !.status = st] \in SchemaRow
    BY DEF SchemaRow
  <2> HIDE DEF SchemaRow
  <2> QED BY <2>1, <2>2 DEF RowsAfter
<1>5. \A m \in Memories : RowKept(s, upwards, d.rows[m], cells[m])
  BY DEF RowKept, RowsAfter, SchemaRow, SchemaState, ReviewStatus, QuarantinedAt
<1> QED BY <1>1, <1>2, <1>3, <1>4, <1>5 DEF SchemaState
-----------------------------------------------------------------------------
(* The invariant.  From revision 8 on one of the two columns is there      *)
(* (Columned), and the rows of a memory that waits are marked in every     *)
(* column there is (Marked); only in the migration's own transaction, from *)
(* the statement that adds a column to the UPDATE that carries the hold    *)
(* over, does the old column speak alone (MovingUp, MovingDown), and no    *)
(* autocommit block lies between them.                                     *)

Jobs == [state : {"idle", "running", "failed"}, upwards : BOOLEAN, pc : Nat \ {0},
         target : 0..Latest, open : BOOLEAN]

StateOK ==
  /\ db \in SchemaState /\ tx \in SchemaState
  /\ job \in Jobs
  /\ ~Running => tx = db
  /\ Running => IF job.upwards THEN db.rev <= tx.rev /\ tx.rev <= job.target
                ELSE job.target <= tx.rev
  /\ (Running /\ AtTarget) => job.pc = 1

RaisingTo(r) == Running /\ job.upwards /\ tx.rev = r - 1
LoweringFrom(r) == Running /\ ~job.upwards /\ tx.rev = r

Columned(d) == d.rev >= 8 => QuarantinedAt \in d.objs \/ ReviewStatus \in d.objs
Trusted(d) == TrustLevel \in d.objs => QuarantinedAt \in d.objs \/ d.rev >= 8

MovingUp == RaisingTo(9) /\ job.pc \in 4..8
MovingDown == LoweringFrom(9) /\ job.pc \in 2..3

CommittedColumns == Columned(db) /\ Trusted(db)

OpenColumns ==
  /\ Columned(tx) \/ (LoweringFrom(8) /\ job.pc \in 5..8)
  /\ Trusted(tx) \/ (RaisingTo(8) /\ job.pc \in 3..4)
  /\ (RaisingTo(8) /\ job.pc >= 5) => QuarantinedAt \in tx.objs
  /\ (RaisingTo(9) /\ job.pc >= 4) => ReviewStatus \in tx.objs
  /\ (LoweringFrom(9) /\ job.pc >= 2) => QuarantinedAt \in tx.objs
  /\ (LoweringFrom(8) /\ job.pc >= 7) => TrustLevel \notin tx.objs

OpenAgainstCommitted ==
  /\ (Running /\ job.upwards /\ ReviewStatus \in db.objs) => ReviewStatus \in tx.objs
  /\ (Running /\ job.upwards /\ QuarantinedAt \in db.objs) => QuarantinedAt \in tx.objs \/ tx.rev >= 8
  /\ (Running /\ ~job.upwards /\ QuarantinedAt \in db.objs) => QuarantinedAt \in tx.objs \/ tx.rev < 9
  /\ MovingUp => ReviewStatus \notin db.objs
  /\ MovingDown => QuarantinedAt \notin db.objs

Marked(d, m) ==
  /\ QuarantinedAt \in d.objs => d.rows[m].quarantined
  /\ ReviewStatus \in d.objs => d.rows[m].status = "pending"

(* What the migration's transaction shows of a memory that waits.          *)
MarkedInTx(m) ==
  /\ MovingUp => tx.rows[m].quarantined
  /\ MovingDown => tx.rows[m].status = "pending"
  /\ ~MovingUp /\ ~MovingDown => Marked(tx, m)

RowsOK ==
  \A m \in Memories :
    hold[m] = "waiting"
    => /\ QuarantinedAt \in db.objs \/ db.rev >= 8
       /\ m \notin exposed => Marked(db, m) /\ MarkedInTx(m)

MigrationInv ==
  /\ MigrationTypeOK /\ StateOK
  /\ CommittedColumns /\ OpenColumns /\ OpenAgainstCommitted
  /\ RowsOK

LEMMA MigrationStarts ==
  ASSUME MigrationInit
  PROVE  MigrationInv
<1>1. PICK rev \in 0..Latest : db = [Empty EXCEPT !.objs = Schemas[rev], !.rev = rev]
  BY DEF MigrationInit
<1> DEFINE cells == [m \in Memories |-> [quarantined |-> FALSE, status |-> "none"]]
<1>2. cells \in [Memories -> SchemaRow]
  BY DEF SchemaRow
<1>3. db = [objs |-> Schemas[rev], broken |-> {}, rev |-> rev, rows |-> cells]
  BY <1>1 DEF Empty
<1> HIDE DEF cells
<1>4. db \in SchemaState /\ db.objs = Schemas[rev] /\ db.rev = rev /\ tx = db
  BY <1>2, <1>3, SchemaColumns DEF SchemaState, MigrationInit
<1>5. job = Idle /\ ~Running
  BY DEF MigrationInit, Running, Idle
<1>6. StateOK
  BY <1>4, <1>5 DEF StateOK, Idle, Latest, Jobs
<1>7. CommittedColumns
  BY <1>4, SchemaColumns DEF CommittedColumns, Columned, Trusted, Latest
<1>8. OpenColumns /\ OpenAgainstCommitted
  BY <1>4, <1>5, <1>7 DEF CommittedColumns, OpenColumns, OpenAgainstCommitted, RaisingTo,
                          LoweringFrom, MovingUp, MovingDown, Columned, Trusted
<1>9. \A m \in Memories : hold[m] = "none"
  BY DEF MigrationInit
<1>10. MigrationTypeOK
  <2>1. hold \in [Memories -> {"none", "waiting", "over"}]
    BY DEF MigrationInit
  <2>2. db.rev \in 0..Latest /\ tx.rev \in 0..Latest /\ job.state = "idle"
    BY <1>4, <1>5 DEF SchemaState, Idle
  <2> QED BY <2>1, <2>2 DEF MigrationInit, MigrationTypeOK
<1>11. RowsOK
  BY <1>9 DEF RowsOK
<1> QED BY <1>6, <1>7, <1>8, <1>10, <1>11 DEF MigrationInv

(* A hold is given up only where neither image could keep it.              *)
LEMMA HoldsInNew ==
  ASSUME hold \in [Memories -> {"none", "waiting", "over"}], NEW d \in SchemaState, hold' = HoldIn(d)
  PROVE  /\ hold' \in [Memories -> {"none", "waiting", "over"}]
         /\ \A m \in Memories : hold'[m] = "waiting"
              => hold[m] = "waiting" /\ (QuarantinedAt \in d.objs \/ d.rev >= 8)
  BY DEF HoldIn, SchemaState, QuarantinedAt

LEMMA StartKeeps ==
  ASSUME MigrationInv, NEW goal \in 0..Latest, Start(goal)
  PROVE  MigrationInv'
<1> USE DEF MigrationInv
<1>1. tx' = db /\ db' = db /\ hold' = hold /\ exposed' = exposed /\ image' = image /\ torn' = torn
  BY DEF Start
<1> DEFINE up == goal > db.rev
<1>2. up \in BOOLEAN
  OBVIOUS
<1>3. job' = [state |-> "running", upwards |-> up, pc |-> 1, target |-> goal, open |-> FALSE]
  BY DEF Start
<1>0. (up => goal > db.rev) /\ (~up => goal <= db.rev)
  BY DEF StateOK, SchemaState, Latest
<1> HIDE DEF up
<1>4. Running' /\ job'.upwards = up /\ job'.pc = 1 /\ job'.target = goal /\ goal # db.rev
  BY <1>3 DEF Running, Start, up
<1>5. StateOK'
  <2>1. db.rev \in 0..Latest
    BY DEF StateOK, SchemaState
  <2>2. (db \in SchemaState /\ tx \in SchemaState)'
    BY <1>1 DEF StateOK
  <2>3. (job \in Jobs)'
    BY <1>2, <1>3 DEF Jobs
  <2>4. (IF job.upwards THEN db.rev <= tx.rev /\ tx.rev <= job.target
         ELSE job.target <= tx.rev)'
    BY <2>1, <1>1, <1>2, <1>0, <1>4 DEF Latest
  <2> QED BY <2>2, <2>3, <2>4, <1>4 DEF StateOK
<1>6. (CommittedColumns /\ OpenColumns /\ OpenAgainstCommitted)'
  BY <1>1, <1>4 DEF CommittedColumns, OpenColumns, OpenAgainstCommitted, RaisingTo, LoweringFrom,
                    MovingUp, MovingDown, Columned, Trusted
<1>7. RowsOK'
  BY <1>1, <1>4 DEF RowsOK, MarkedInTx, Marked, MovingUp, MovingDown
<1>8. MigrationTypeOK'
  BY <1>1, <1>3 DEF MigrationTypeOK
<1> QED BY <1>5, <1>6, <1>7, <1>8
(* The statement a run is at, and what is known of it.                     *)
LEMMA AtStatement ==
  ASSUME MigrationInv, Running, ~AtTarget
  PROVE  /\ Len(Statements) \in Nat
         /\ job.upwards => /\ tx.rev + 1 \in 1..Latest /\ Statements = Upgrade[tx.rev + 1]
                           /\ tx.rev + 1 <= job.target
         /\ ~job.upwards => /\ tx.rev \in 1..Latest /\ Statements = Downgrade[tx.rev]
                            /\ job.target <= tx.rev - 1
         /\ job.pc <= Len(Statements)
            => /\ Statements[job.pc].k \in Kinds /\ Statements[job.pc].o \in Objects
               /\ job.upwards => UpgradeFact(tx.rev + 1, job.pc, Statements[job.pc])
               /\ ~job.upwards => DowngradeFact(tx.rev, job.pc, Statements[job.pc])
<1>1. tx.rev \in 0..Latest /\ job.target \in 0..Latest /\ Latest \in Nat /\ tx.rev # job.target
      /\ job.pc \in Nat \ {0} /\ job.upwards \in BOOLEAN
  BY DEF MigrationInv, StateOK, SchemaState, AtTarget, Latest, Jobs
<1>2. CASE job.upwards
  <2>1. tx.rev + 1 \in 1..Latest /\ tx.rev + 1 <= job.target
    BY <1>1, <1>2 DEF MigrationInv, StateOK
  <2>2. Statements = Upgrade[tx.rev + 1]
    BY <1>2 DEF Statements
  <2>3. Len(Statements) \in Nat
    BY <2>1, <2>2, UpgradeFacts
  <2>4. ASSUME job.pc <= Len(Statements)
        PROVE  /\ Statements[job.pc].k \in Kinds /\ Statements[job.pc].o \in Objects
               /\ UpgradeFact(tx.rev + 1, job.pc, Statements[job.pc])
    <3>1. job.pc \in 1..Len(Upgrade[tx.rev + 1])
      BY <1>1, <2>2, <2>3, <2>4
    <3>2. UpgradeFact(tx.rev + 1, job.pc, Statements[job.pc])
      BY <3>1, <2>1, <2>2, UpgradeFacts
    <3> QED BY <3>1, <3>2, <2>1, <2>2, StatementObjects DEF UpgradeFact
  <2> QED BY <1>2, <2>1, <2>2, <2>3, <2>4
<1>3. CASE ~job.upwards
  <2>1. tx.rev \in 1..Latest /\ job.target <= tx.rev - 1
    BY <1>1, <1>3 DEF MigrationInv, StateOK
  <2>2. Statements = Downgrade[tx.rev]
    BY <1>3 DEF Statements
  <2>3. Len(Statements) \in Nat
    BY <2>1, <2>2, DowngradeFacts
  <2>4. ASSUME job.pc <= Len(Statements)
        PROVE  /\ Statements[job.pc].k \in Kinds /\ Statements[job.pc].o \in Objects
               /\ DowngradeFact(tx.rev, job.pc, Statements[job.pc])
    <3>1. job.pc \in 1..Len(Downgrade[tx.rev])
      BY <1>1, <2>2, <2>3, <2>4
    <3>2. DowngradeFact(tx.rev, job.pc, Statements[job.pc])
      BY <3>1, <2>1, <2>2, DowngradeFacts
    <3> QED BY <3>1, <3>2, <2>1, <2>2, StatementObjects DEF DowngradeFact
  <2> QED BY <1>3, <2>1, <2>2, <2>3, <2>4
<1> QED BY <1>2, <1>3

(* A run that ends leaves one state, the committed one.                    *)
LEMMA EndKeeps ==
  ASSUME StateOK, ~Running', tx' = db', db' \in SchemaState,
         (job \in Jobs)',
         CommittedColumns', MigrationTypeOK',
         \A m \in Memories :
           hold'[m] = "waiting" => /\ QuarantinedAt \in db'.objs \/ db'.rev >= 8
                                   /\ m \notin exposed' => Marked(db, m)'
  PROVE  MigrationInv'
<1>1. StateOK'
  BY DEF StateOK
<1>2. OpenColumns' /\ OpenAgainstCommitted'
  BY DEF CommittedColumns, OpenColumns, OpenAgainstCommitted, RaisingTo, LoweringFrom,
         MovingUp, MovingDown, Columned, Trusted
<1>3. RowsOK'
  BY DEF RowsOK, MarkedInTx, Marked, MovingUp, MovingDown, RaisingTo, LoweringFrom
<1> QED BY <1>1, <1>2, <1>3 DEF MigrationInv

LEMMA FailureKeeps ==
  ASSUME MigrationInv, Running, job' = [job EXCEPT !.state = "failed"], tx' = db, db' = db,
         torn' = (torn \/ job.open), hold' = HoldIn(db), exposed' = exposed, image' = image
  PROVE  MigrationInv'
<1>1. (job \in Jobs)' /\ ~Running'
  BY DEF MigrationInv, StateOK, Running, Jobs
<1>2. /\ hold' \in [Memories -> {"none", "waiting", "over"}]
      /\ \A m \in Memories : hold'[m] = "waiting"
           => hold[m] = "waiting" /\ (QuarantinedAt \in db.objs \/ db.rev >= 8)
  BY HoldsInNew DEF MigrationInv, StateOK, MigrationTypeOK
<1>3. MigrationTypeOK'
  <2>1. (torn \/ job.open) \in BOOLEAN
    BY DEF MigrationInv, StateOK, MigrationTypeOK
  <2> QED BY <1>1, <1>2, <2>1 DEF MigrationInv, StateOK, SchemaState, MigrationTypeOK
<1>4. CommittedColumns'
  BY DEF MigrationInv, CommittedColumns, Columned, Trusted
<1>5. \A m \in Memories :
        hold'[m] = "waiting" => /\ QuarantinedAt \in db'.objs \/ db'.rev >= 8
                                /\ m \notin exposed' => Marked(db, m)'
  BY <1>2 DEF MigrationInv, RowsOK, Marked
<1> QED BY <1>1, <1>3, <1>4, <1>5, EndKeeps DEF MigrationInv, StateOK

LEMMA FinishKeeps ==
  ASSUME MigrationInv, Finish
  PROVE  MigrationInv'
<1>1. Running /\ AtTarget /\ db' = tx /\ hold' = HoldIn(tx) /\ job' = Idle /\ tx' = tx
      /\ exposed' = exposed /\ image' = image /\ torn' = torn
  BY DEF Finish
<1>2. (job \in Jobs)' /\ ~Running'
  BY <1>1 DEF Running, Idle, Latest, Jobs
<1>3. /\ hold' \in [Memories -> {"none", "waiting", "over"}]
      /\ \A m \in Memories : hold'[m] = "waiting"
           => hold[m] = "waiting" /\ (QuarantinedAt \in tx.objs \/ tx.rev >= 8)
  BY <1>1, HoldsInNew DEF MigrationInv, StateOK, MigrationTypeOK
<1>4. MigrationTypeOK'
  BY <1>1, <1>2, <1>3 DEF MigrationInv, StateOK, SchemaState, MigrationTypeOK, Jobs
<1>5. job.pc = 1
  BY <1>1 DEF MigrationInv, StateOK
<1>6. CommittedColumns'
  BY <1>1, <1>5 DEF MigrationInv, OpenColumns, CommittedColumns, Columned, Trusted
<1>7. \A m \in Memories :
        hold'[m] = "waiting" => /\ QuarantinedAt \in db'.objs \/ db'.rev >= 8
                                /\ m \notin exposed' => Marked(db, m)'
  <2>1. ~MovingUp /\ ~MovingDown
    BY <1>5 DEF MovingUp, MovingDown
  <2> QED BY <1>1, <1>3, <2>1 DEF MigrationInv, RowsOK, MarkedInTx, Marked
<1> QED BY <1>1, <1>2, <1>4, <1>6, <1>7, EndKeeps DEF MigrationInv, StateOK

LEMMA DieKeeps ==
  ASSUME MigrationInv, Die
  PROVE  MigrationInv'
<1>1. Running /\ job' = Idle /\ torn' = (torn \/ job.open) /\ tx' = db' /\ hold' = hold
      /\ exposed' = exposed /\ image' = image
  BY DEF Die
<1>2. (job \in Jobs)' /\ ~Running'
  BY <1>1 DEF Running, Idle, Latest, Jobs
<1>3. /\ db' \in SchemaState /\ db'.rev = db.rev /\ db'.rows = db.rows
      /\ \A x \in {QuarantinedAt, ReviewStatus, TrustLevel} : x \in db'.objs <=> x \in db.objs
  <2>1. CASE db' = db
    BY <2>1 DEF MigrationInv, StateOK
  <2>2. CASE /\ ~AtTarget /\ job.pc <= Len(Statements)
             /\ Statements[job.pc].k = "index"
             /\ db' = [db EXCEPT !.objs = @ \cup {Statements[job.pc].o},
                                 !.broken = @ \cup {Statements[job.pc].o}]
    <3>1. Statements[job.pc].o \in Objects
          /\ Statements[job.pc].o \notin {QuarantinedAt, ReviewStatus, TrustLevel}
      BY <1>1, <2>2, AtStatement
         DEF UpgradeFact, DowngradeFact, Making, MigrationInv, StateOK
    <3> QED BY <2>2, <3>1 DEF MigrationInv, StateOK, SchemaState
  <2> QED BY <2>1, <2>2 DEF Die
<1>4. MigrationTypeOK'
  <2>1. (torn \/ job.open) \in BOOLEAN
    BY DEF MigrationInv, StateOK, MigrationTypeOK
  <2> QED BY <1>1, <1>2, <1>3, <2>1 DEF MigrationInv, StateOK, SchemaState, MigrationTypeOK, Jobs
<1>5. CommittedColumns'
  BY <1>3 DEF MigrationInv, CommittedColumns, Columned, Trusted
<1>6. \A m \in Memories :
        hold'[m] = "waiting" => /\ QuarantinedAt \in db'.objs \/ db'.rev >= 8
                                /\ m \notin exposed' => Marked(db, m)'
  BY <1>1, <1>3 DEF MigrationInv, RowsOK, Marked
<1> QED BY <1>1, <1>2, <1>3, <1>4, <1>5, <1>6, EndKeeps DEF MigrationInv, StateOK
LEMMA StampKeeps ==
  ASSUME MigrationInv, Stamp
  PROVE  MigrationInv'
<1>1. Running /\ ~AtTarget /\ job.pc > Len(Statements)
  BY DEF Stamp
<1>2. /\ db' = db /\ hold' = hold /\ exposed' = exposed /\ image' = image /\ torn' = torn
      /\ tx' = [tx EXCEPT !.rev = IF job.upwards THEN @ + 1 ELSE @ - 1]
      /\ job' = [job EXCEPT !.pc = 1]
  BY DEF Stamp
<1>3. tx \in SchemaState /\ job \in Jobs
  BY DEF MigrationInv, StateOK
<1>4. /\ Running' /\ job'.pc = 1 /\ job'.upwards = job.upwards /\ job'.target = job.target
      /\ (job \in Jobs)'
  BY <1>1, <1>2, <1>3 DEF Running, Jobs
<1>5. /\ tx'.objs = tx.objs /\ tx'.rows = tx.rows
      /\ tx'.rev = IF job.upwards THEN tx.rev + 1 ELSE tx.rev - 1
  BY <1>2, <1>3 DEF SchemaState
<1>6. /\ db.rev \in 0..Latest /\ tx.rev \in 0..Latest /\ Latest = 11
      /\ job.upwards => tx.rev + 1 <= job.target /\ tx.rev + 1 \in 1..Latest /\ db.rev <= tx.rev
                        /\ tx'.rev = tx.rev + 1
      /\ ~job.upwards => job.target <= tx.rev - 1 /\ tx.rev \in 1..Latest /\ tx'.rev = tx.rev - 1
  BY <1>1, <1>5, AtStatement DEF MigrationInv, StateOK, SchemaState, Latest
<1>7. tx'.rev \in 0..Latest /\ (tx \in SchemaState)'
  <2>1. tx'.rev \in 0..Latest
    BY <1>3, <1>6
  <2> QED BY <1>2, <1>3, <1>5, <2>1 DEF SchemaState
<1>8. StateOK'
  <2>1. (IF job.upwards THEN db.rev <= tx.rev /\ tx.rev <= job.target
         ELSE job.target <= tx.rev)'
    BY <1>2, <1>3, <1>4, <1>6
  <2> QED BY <1>2, <1>4, <1>7, <2>1 DEF MigrationInv, StateOK
<1>9. /\ (job.upwards /\ tx.rev = 7) => job.pc >= 5
      /\ (job.upwards /\ tx.rev = 8) => job.pc >= 9
      /\ (~job.upwards /\ tx.rev = 8) => job.pc >= 8
      /\ (~job.upwards /\ tx.rev = 9) => job.pc >= 4
  <2>1. 8 \in 1..Latest /\ 9 \in 1..Latest /\ job.pc \in Nat
    BY <1>3, <1>6 DEF Jobs
  <2>2. /\ Len(Upgrade[8]) \in Nat /\ Len(Upgrade[8]) >= 4
        /\ Len(Upgrade[9]) \in Nat /\ Len(Upgrade[9]) >= 8
        /\ Len(Downgrade[8]) = 7
        /\ Len(Downgrade[9]) \in Nat /\ Len(Downgrade[9]) >= 3
    BY <2>1, UpgradeFacts, DowngradeFacts
  <2>3. /\ job.upwards => job.pc > Len(Upgrade[tx.rev + 1])
        /\ ~job.upwards => job.pc > Len(Downgrade[tx.rev])
    BY <1>1, AtStatement
  <2>4. (job.upwards /\ tx.rev = 7) => job.pc > Len(Upgrade[8])
    BY <2>3
  <2>5. (job.upwards /\ tx.rev = 8) => job.pc > Len(Upgrade[9])
    BY <2>3
  <2>6. /\ (~job.upwards /\ tx.rev = 8) => job.pc > Len(Downgrade[8])
        /\ (~job.upwards /\ tx.rev = 9) => job.pc > Len(Downgrade[9])
    BY <2>3
  <2> QED BY <2>1, <2>2, <2>4, <2>5, <2>6
<1>10. CommittedColumns'
  BY <1>2 DEF MigrationInv, CommittedColumns, Columned, Trusted
<1>11. OpenColumns' /\ OpenAgainstCommitted'
  <2>1. ~MovingUp' /\ ~MovingDown'
    BY <1>4 DEF MovingUp, MovingDown
  <2>2. Columned(tx)'
    BY <1>1, <1>3, <1>5, <1>6, <1>9
       DEF MigrationInv, OpenColumns, Columned, RaisingTo, LoweringFrom
  <2>3. Trusted(tx)'
    BY <1>1, <1>3, <1>5, <1>6, <1>9
       DEF MigrationInv, OpenColumns, Trusted, RaisingTo, LoweringFrom, Jobs
  <2>4. OpenColumns'
    BY <1>4, <2>2, <2>3 DEF OpenColumns
  <2>5. /\ (Running /\ job.upwards /\ ReviewStatus \in db.objs) => ReviewStatus \in tx.objs
        /\ (Running /\ job.upwards /\ QuarantinedAt \in db.objs) => QuarantinedAt \in tx.objs \/ tx.rev >= 8
        /\ (Running /\ ~job.upwards /\ QuarantinedAt \in db.objs) => QuarantinedAt \in tx.objs \/ tx.rev < 9
    BY DEF MigrationInv, OpenAgainstCommitted
  <2>6. (Running /\ ~job.upwards /\ QuarantinedAt \in db.objs)' => (QuarantinedAt \in tx.objs \/ tx.rev < 9)'
    BY <1>1, <1>2, <1>4, <1>5, <1>6, <2>5
  <2>7. (Running /\ job.upwards /\ QuarantinedAt \in db.objs)' => (QuarantinedAt \in tx.objs \/ tx.rev >= 8)'
    BY <1>1, <1>2, <1>4, <1>5, <1>6, <2>5
  <2> QED BY <1>1, <1>2, <1>4, <1>5, <2>1, <2>4, <2>5, <2>6, <2>7 DEF OpenAgainstCommitted
<1>12. RowsOK'
  <2>1. ~MovingUp /\ ~MovingDown
    BY <1>1, <1>3, <1>9 DEF MovingUp, MovingDown, RaisingTo, LoweringFrom
  <2>2. ~MovingUp' /\ ~MovingDown'
    BY <1>4 DEF MovingUp, MovingDown
  <2> QED BY <1>2, <1>5, <2>1, <2>2 DEF MigrationInv, RowsOK, MarkedInTx, Marked
<1>13. MigrationTypeOK'
  BY <1>2, <1>4, <1>7 DEF MigrationInv, MigrationTypeOK
<1> QED BY <1>8, <1>10, <1>11, <1>12, <1>13 DEF MigrationInv

LEMMA DeployKeeps ==
  ASSUME MigrationInv, NEW i \in Images, Deploy(i)
  PROVE  MigrationInv'
  BY DEF Deploy, MigrationInv, MigrationTypeOK, StateOK, CommittedColumns, OpenColumns,
         OpenAgainstCommitted, RowsOK, Marked, MarkedInTx, MovingUp, MovingDown, RaisingTo,
         LoweringFrom, Running, AtTarget, Columned, Trusted

(* While a hold moves the rows are locked.                                 *)
LEMMA MovingLocks ==
  ASSUME MigrationInv, Unlocked
  PROVE  ~MovingUp /\ ~MovingDown
<1>1. tx.objs = db.objs
  BY DEF Unlocked
<1>2. /\ MovingUp => ReviewStatus \in tx.objs /\ ReviewStatus \notin db.objs
      /\ MovingDown => QuarantinedAt \in tx.objs /\ QuarantinedAt \notin db.objs
  BY DEF MigrationInv, OpenColumns, OpenAgainstCommitted, MovingUp, MovingDown
<1> QED BY <1>1, <1>2

(* Writing a row of the one state the rows are in while they are unlocked. *)
LEMMA SetRowKeeps ==
  ASSUME MigrationInv, Unlocked, NEW m \in Memories, NEW row \in SchemaRow, SetRow(m, row),
         job' = job, image' = image, torn' = torn, exposed' \in SUBSET Memories,
         exposed \subseteq exposed',
         NEW to \in {"waiting", "over"}, hold' = [hold EXCEPT ![m] = to],
         to = "waiting" => /\ QuarantinedAt \in db.objs \/ db.rev >= 8
                           /\ m \notin exposed' => /\ QuarantinedAt \in db.objs => row.quarantined
                                                   /\ ReviewStatus \in db.objs => row.status = "pending"
  PROVE  MigrationInv'
<1>1. /\ db' \in SchemaState /\ db'.objs = db.objs /\ db'.rev = db.rev
      /\ db'.rows = [db.rows EXCEPT ![m] = row]
      /\ tx' \in SchemaState /\ tx'.objs = tx.objs /\ tx'.rev = tx.rev
      /\ tx'.rows = [tx.rows EXCEPT ![m] = row]
      /\ db.rows \in [Memories -> SchemaRow] /\ tx.rows \in [Memories -> SchemaRow]
  BY DEF SetRow, MigrationInv, StateOK, SchemaState
<1>2. tx.objs = db.objs /\ tx.rows = db.rows
  BY DEF Unlocked
<1>3. ~Running => tx' = db'
  BY DEF SetRow, MigrationInv, StateOK
<1>4. Running' = Running /\ AtTarget' = AtTarget
  BY <1>1 DEF Running, AtTarget
<1>5. StateOK'
  BY <1>1, <1>3, <1>4 DEF MigrationInv, StateOK
<1>6. CommittedColumns' /\ OpenColumns' /\ OpenAgainstCommitted'
  BY <1>1, <1>4 DEF MigrationInv, CommittedColumns, OpenColumns, OpenAgainstCommitted,
         MovingUp, MovingDown, RaisingTo, LoweringFrom, Columned, Trusted
<1>7. ~MovingUp' /\ ~MovingDown' /\ ~MovingUp /\ ~MovingDown
  BY <1>1, <1>4, MovingLocks DEF MovingUp, MovingDown, RaisingTo, LoweringFrom
<1>8. hold \in [Memories -> {"none", "waiting", "over"}]
  BY DEF MigrationInv, MigrationTypeOK
<1>9. RowsOK'
  <2> SUFFICES ASSUME NEW n \in Memories, hold'[n] = "waiting"
               PROVE  /\ QuarantinedAt \in db'.objs \/ db'.rev >= 8
                      /\ n \notin exposed' => Marked(db, n)' /\ MarkedInTx(n)'
    BY DEF RowsOK
  <2>1. CASE n = m
    <3>1. to = "waiting" /\ db'.rows[n] = row /\ tx'.rows[n] = row
      BY <1>1, <1>8, <2>1
    <3> QED BY <1>1, <1>2, <1>7, <2>1, <3>1 DEF Marked, MarkedInTx
  <2>2. CASE n # m
    <3>1. hold[n] = "waiting" /\ db'.rows[n] = db.rows[n] /\ tx'.rows[n] = tx.rows[n]
      BY <1>1, <1>8, <2>2
    <3> QED BY <1>1, <1>7, <3>1 DEF MigrationInv, RowsOK, Marked, MarkedInTx
  <2> QED BY <2>1, <2>2
<1>10. MigrationTypeOK'
  BY <1>1, <1>8 DEF MigrationInv, MigrationTypeOK, SchemaState
<1> QED BY <1>5, <1>6, <1>9, <1>10 DEF MigrationInv

LEMMA HoldKeeps ==
  ASSUME MigrationInv, NEW m \in Memories, Hold(m)
  PROVE  MigrationInv'
<1> DEFINE row == [quarantined |-> image = 8,
                   status |-> IF image > 8 THEN "pending"
                              ELSE IF "review_status" \in db.objs THEN "approved" ELSE "none"]
<1>1. image \in 8..Latest /\ Works /\ Unlocked
  BY MigrationAssumption DEF MigrationInv, MigrationTypeOK, Hold
<1>2. row \in SchemaRow /\ row.quarantined = (image = 8) /\ (image # 8 => row.status = "pending")
  BY <1>1 DEF SchemaRow, Latest
<1>3. /\ SetRow(m, row) /\ hold' = [hold EXCEPT ![m] = "waiting"] /\ job' = job /\ image' = image
      /\ torn' = torn
      /\ exposed' = IF {QuarantinedAt, ReviewStatus} \subseteq db.objs THEN exposed \cup {m} ELSE exposed
  BY DEF Hold, QuarantinedAt, ReviewStatus
<1> HIDE DEF row
<1>4. /\ image = 8 => QuarantinedAt \in db.objs
      /\ image # 8 => ReviewStatus \in db.objs /\ (QuarantinedAt \in db.objs \/ db.rev >= 8)
  BY <1>1, WorksNeeds DEF MigrationInv, CommittedColumns, Trusted
<1>5. exposed' \in SUBSET Memories /\ exposed \subseteq exposed'
  BY <1>3 DEF MigrationInv, MigrationTypeOK
<1>6. m \notin exposed' => /\ QuarantinedAt \in db.objs => row.quarantined
                           /\ ReviewStatus \in db.objs => row.status = "pending"
  BY <1>2, <1>3, <1>4
<1> QED BY <1>1, <1>2, <1>3, <1>4, <1>5, <1>6, SetRowKeeps

LEMMA ReleaseKeeps ==
  ASSUME MigrationInv, NEW m \in Memories, Release(m)
  PROVE  MigrationInv'
<1> DEFINE row == IF image = 8 THEN [db.rows[m] EXCEPT !.quarantined = FALSE]
                  ELSE [db.rows[m] EXCEPT !.status = "approved"]
<1>1. row \in SchemaRow
  <2>1. db.rows[m] \in SchemaRow
    BY DEF MigrationInv, StateOK, SchemaState
  <2>2. \A v \in BOOLEAN, st \in {"none", "approved", "pending"}, r \in SchemaRow :
          [r EXCEPT !.quarantined = v] \in SchemaRow /\ [r EXCEPT !.status = st] \in SchemaRow
    BY DEF SchemaRow
  <2> QED BY <2>1, <2>2
<1>2. /\ SetRow(m, row) /\ hold' = [hold EXCEPT ![m] = "over"] /\ job' = job /\ image' = image
      /\ torn' = torn /\ exposed' = exposed /\ Unlocked
  BY DEF Release
<1>3. exposed' \in SUBSET Memories /\ exposed \subseteq exposed'
  BY <1>2 DEF MigrationInv, MigrationTypeOK
<1> QED BY <1>1, <1>2, <1>3, SetRowKeeps
(* A statement that succeeds: what it does to the columns and the rows.    *)
Advance(s) ==
  /\ Running /\ Running' /\ job.pc \in Nat \ {0} /\ job.upwards \in BOOLEAN
  /\ job'.pc = job.pc + 1 /\ job'.upwards = job.upwards
  /\ tx.rev \in Nat /\ tx'.rev = tx.rev
  /\ s.k \in Kinds
  /\ job.upwards => UpgradeFact(tx.rev + 1, job.pc, s)
  /\ ~job.upwards => DowngradeFact(tx.rev, job.pc, s)
  /\ s.k = "add" => s.o \notin tx.objs
  /\ s.k = "drop" => s.o \in tx.objs
  /\ Keeps(s, QuarantinedAt, tx.objs, tx'.objs)
  /\ Keeps(s, ReviewStatus, tx.objs, tx'.objs)
  /\ Keeps(s, TrustLevel, tx.objs, tx'.objs)
  /\ \A m \in Memories : RowKept(s, job.upwards, tx.rows[m], tx'.rows[m])
  /\ (~job.upwards /\ tx.rev = 8) => job.pc <= 7
  /\ \/ db' = tx' /\ s.k \in {"commit", "index", "unindex"}
     \/ db' = db /\ s.k \notin {"commit", "index", "unindex"}

LEMMA AdvanceOpenColumns ==
  ASSUME MigrationInv, NEW s, Advance(s)
  PROVE  OpenColumns'
<1> USE NamesDiffer
<1>1. OpenColumns
  BY DEF MigrationInv
<1>2. Columned(tx)' \/ (LoweringFrom(8) /\ job.pc \in 5..8)'
  <2>1. CASE job.upwards
    BY <1>1, <2>1 DEF Advance, OpenColumns, Columned, LoweringFrom, RaisingTo, Keeps, UpgradeFact,
                      Kinds, Making, Taking
  <2>2. CASE ~job.upwards
    BY <1>1, <2>2 DEF Advance, OpenColumns, Columned, LoweringFrom, RaisingTo, Keeps,
                      DowngradeFact, Kinds, Making, Taking
  <2> QED BY <2>1, <2>2
<1>3. Trusted(tx)' \/ (RaisingTo(8) /\ job.pc \in 3..4)'
  BY <1>1 DEF Advance, OpenColumns, Trusted, LoweringFrom, RaisingTo, Keeps, UpgradeFact,
              DowngradeFact, Kinds, Making, Taking
<1>4. (RaisingTo(8) /\ job.pc >= 5)' => (QuarantinedAt \in tx.objs)'
  BY <1>1 DEF Advance, OpenColumns, LoweringFrom, RaisingTo, Keeps, UpgradeFact,
              DowngradeFact, Kinds, Making, Taking
<1>5. (RaisingTo(9) /\ job.pc >= 4)' => (ReviewStatus \in tx.objs)'
  BY <1>1 DEF Advance, OpenColumns, LoweringFrom, RaisingTo, Keeps, UpgradeFact,
              DowngradeFact, Kinds, Making, Taking
<1>6. (LoweringFrom(9) /\ job.pc >= 2)' => (QuarantinedAt \in tx.objs)'
  BY <1>1 DEF Advance, OpenColumns, LoweringFrom, RaisingTo, Keeps, UpgradeFact,
              DowngradeFact, Kinds, Making, Taking
<1>7. (LoweringFrom(8) /\ job.pc >= 7)' => (TrustLevel \notin tx.objs)'
  BY <1>1 DEF Advance, OpenColumns, LoweringFrom, RaisingTo, Keeps, UpgradeFact,
              DowngradeFact, Kinds, Making, Taking
<1> QED BY <1>2, <1>3, <1>4, <1>5, <1>6, <1>7 DEF OpenColumns

LEMMA AdvanceCommittedColumns ==
  ASSUME MigrationInv, NEW s, Advance(s)
  PROVE  CommittedColumns'
<1>1. OpenColumns' /\ CommittedColumns
  BY AdvanceOpenColumns DEF MigrationInv
<1>2. CASE db' = db
  BY <1>1, <1>2 DEF CommittedColumns, Columned, Trusted
<1>3. CASE db' = tx' /\ s.k \in {"commit", "index", "unindex"}
  <2>1. ~(LoweringFrom(8) /\ job.pc \in 5..8)' /\ ~(RaisingTo(8) /\ job.pc \in 3..4)'
    BY <1>3 DEF Advance, LoweringFrom, RaisingTo, UpgradeFact, DowngradeFact
  <2> QED BY <1>1, <1>3, <2>1 DEF OpenColumns, CommittedColumns, Columned, Trusted
<1> QED BY <1>2, <1>3 DEF Advance

LEMMA AdvanceOpenAgainstCommitted ==
  ASSUME MigrationInv, NEW s, Advance(s)
  PROVE  OpenAgainstCommitted'
<1> USE NamesDiffer
<1>1. OpenAgainstCommitted /\ OpenColumns
  BY DEF MigrationInv
<1>2. /\ (Running /\ job.upwards /\ ReviewStatus \in db.objs)' => (ReviewStatus \in tx.objs)'
      /\ (Running /\ job.upwards /\ QuarantinedAt \in db.objs)'
         => (QuarantinedAt \in tx.objs \/ tx.rev >= 8)'
      /\ (Running /\ ~job.upwards /\ QuarantinedAt \in db.objs)'
         => (QuarantinedAt \in tx.objs \/ tx.rev < 9)'
  <2>1. CASE db' = tx'
    BY <2>1
  <2>2. CASE db' = db /\ job.upwards
    BY <1>1, <2>2 DEF Advance, OpenAgainstCommitted, Keeps, UpgradeFact, Kinds, Making, Taking
  <2>3. CASE db' = db /\ ~job.upwards
    BY <1>1, <2>3 DEF Advance, OpenAgainstCommitted, Keeps, DowngradeFact, Kinds, Making, Taking
  <2> QED BY <2>1, <2>2, <2>3 DEF Advance
<1>3. MovingUp' => ReviewStatus \notin db'.objs
  <2> SUFFICES ASSUME MovingUp' PROVE ReviewStatus \notin db'.objs
    OBVIOUS
  <2>1. RaisingTo(9) /\ job.pc \in 3..7
    BY DEF MovingUp, RaisingTo, Advance
  <2>2. s.k \in {"add", "carry"} /\ (job.pc = 3 => s.k = "add" /\ s.o = ReviewStatus)
    BY <2>1 DEF Advance, RaisingTo, UpgradeFact
  <2>3. db' = db
    BY <2>2 DEF Advance
  <2>4. CASE job.pc = 3
    BY <1>1, <2>1, <2>2, <2>3, <2>4 DEF Advance, OpenAgainstCommitted, RaisingTo
  <2>5. CASE job.pc # 3
    BY <1>1, <2>1, <2>3, <2>5 DEF OpenAgainstCommitted, MovingUp
  <2> QED BY <2>4, <2>5
<1>4. MovingDown' => QuarantinedAt \notin db'.objs
  <2> SUFFICES ASSUME MovingDown' PROVE QuarantinedAt \notin db'.objs
    OBVIOUS
  <2>1. LoweringFrom(9) /\ job.pc \in 1..2
    BY DEF MovingDown, LoweringFrom, Advance
  <2>2. s.k = "add" /\ (job.pc = 1 => s.o = QuarantinedAt)
    BY <2>1 DEF Advance, LoweringFrom, DowngradeFact
  <2>3. db' = db
    BY <2>2 DEF Advance
  <2>4. CASE job.pc = 1
    BY <1>1, <2>1, <2>2, <2>3, <2>4 DEF Advance, OpenAgainstCommitted, LoweringFrom
  <2>5. CASE job.pc # 1
    BY <1>1, <2>1, <2>3, <2>5 DEF OpenAgainstCommitted, MovingDown
  <2> QED BY <2>4, <2>5
<1> QED BY <1>2, <1>3, <1>4 DEF OpenAgainstCommitted

(* Only at the carrying UPDATE, and where a column is added, is there      *)
(* something to show.                                                      *)
LEMMA AdvanceMarked ==
  ASSUME MigrationInv, NEW s, Advance(s), NEW m \in Memories \ exposed, hold[m] = "waiting"
  PROVE  MarkedInTx(m)'
<1> USE NamesDiffer
<1>1. OpenAgainstCommitted /\ OpenColumns /\ MarkedInTx(m)
      /\ (QuarantinedAt \in db.objs \/ db.rev >= 8)
      /\ RowKept(s, job.upwards, tx.rows[m], tx'.rows[m])
      /\ (Running /\ job.upwards => db.rev <= tx.rev) /\ db.rev \in Nat
  BY DEF MigrationInv, RowsOK, StateOK, SchemaState, Advance, Latest
<1>2. CASE MovingUp
  <2>1. s.k \in {"add", "carry"} /\ (s.k = "add" => s.o \notin {QuarantinedAt, ReviewStatus})
        /\ job.pc \in 4..8 /\ job.upwards /\ (s.k = "carry" <=> job.pc = 8)
    BY <1>2 DEF MovingUp, RaisingTo, Advance, UpgradeFact, Kinds, Making
  <2>2. tx.rows[m].quarantined /\ tx'.rows[m].quarantined
    BY <1>1, <1>2, <2>1 DEF MarkedInTx, RowKept
  <2>3. CASE job.pc < 8
    <3>1. MovingUp' /\ ~MovingDown'
      BY <1>2, <2>1, <2>3 DEF MovingUp, MovingDown, RaisingTo, LoweringFrom, Advance
    <3> QED BY <2>2, <3>1 DEF MarkedInTx
  <2>4. CASE job.pc = 8
    <3>1. ~MovingUp' /\ ~MovingDown'
      BY <1>2, <2>1, <2>4 DEF MovingUp, MovingDown, RaisingTo, LoweringFrom, Advance
    <3>2. tx'.rows[m].status = "pending"
      BY <1>1, <2>1, <2>2, <2>4 DEF RowKept
    <3> QED BY <2>2, <3>1, <3>2 DEF MarkedInTx, Marked
  <2> QED BY <2>1, <2>3, <2>4
<1>3. CASE MovingDown
  <2>1. job.pc \in 2..3 /\ ~job.upwards /\ (job.pc = 2 => s.k = "add")
        /\ (s.k = "carry" <=> job.pc = 3) /\ (s.k = "add" => s.o \notin {QuarantinedAt, ReviewStatus})
    BY <1>3 DEF MovingDown, LoweringFrom, Advance, DowngradeFact, Kinds, Making
  <2>2. tx.rows[m].status = "pending" /\ tx'.rows[m].status = "pending"
    BY <1>1, <1>3, <2>1 DEF MarkedInTx, RowKept
  <2>3. CASE job.pc = 2
    <3>1. MovingDown' /\ ~MovingUp'
      BY <1>3, <2>1, <2>3 DEF MovingUp, MovingDown, RaisingTo, LoweringFrom, Advance
    <3> QED BY <2>2, <3>1 DEF MarkedInTx
  <2>4. CASE job.pc = 3
    <3>1. ~MovingUp' /\ ~MovingDown'
      BY <1>3, <2>1, <2>4 DEF MovingUp, MovingDown, RaisingTo, LoweringFrom, Advance
    <3>2. tx'.rows[m].quarantined
      BY <1>1, <2>1, <2>2, <2>4 DEF RowKept
    <3> QED BY <2>2, <3>1, <3>2 DEF MarkedInTx, Marked
  <2> QED BY <2>1, <2>3, <2>4
<1>4. CASE ~MovingUp /\ ~MovingDown
  <2>1. Marked(tx, m)
    BY <1>1, <1>4 DEF MarkedInTx
  <2>2. CASE s.k = "add" /\ s.o = ReviewStatus
    <3>1. job.upwards /\ tx.rev = 8 /\ job.pc = 3 /\ ReviewStatus \notin tx.objs
      BY <2>2 DEF Advance, UpgradeFact, DowngradeFact, Making
    <3>2. QuarantinedAt \in tx.objs
      BY <1>1, <3>1 DEF OpenColumns, Columned, LoweringFrom
    <3>3. tx'.rows[m].quarantined
      BY <1>1, <2>1, <2>2, <3>2 DEF Marked, RowKept
    <3>4. MovingUp' /\ ~MovingDown'
      BY <3>1 DEF MovingUp, MovingDown, RaisingTo, LoweringFrom, Advance
    <3> QED BY <3>3, <3>4 DEF MarkedInTx
  <2>3. CASE s.k = "add" /\ s.o = QuarantinedAt
    <3>1. QuarantinedAt \notin tx.objs
      BY <2>3 DEF Advance
    <3>2. ~job.upwards /\ tx.rev = 9 /\ job.pc = 1
      <4>1. job.upwards => tx.rev = 7
        BY <2>3 DEF Advance, UpgradeFact, Making
      <4>2. ~job.upwards
        BY <1>1, <3>1, <4>1 DEF OpenAgainstCommitted, Advance
      <4> QED BY <2>3, <4>2 DEF Advance, DowngradeFact, Making
    <3>3. ReviewStatus \in tx.objs
      BY <1>1, <3>1, <3>2 DEF OpenColumns, Columned, LoweringFrom
    <3>4. tx'.rows[m].status = "pending"
      BY <1>1, <2>1, <2>3, <3>3 DEF Marked, RowKept
    <3>5. MovingDown' /\ ~MovingUp'
      BY <3>2 DEF MovingUp, MovingDown, RaisingTo, LoweringFrom, Advance
    <3> QED BY <3>4, <3>5 DEF MarkedInTx
  <2>4. CASE ~(s.k \in Making /\ s.o \in {ReviewStatus, QuarantinedAt})
    <3>1. /\ s.k # "carry"
          /\ ReviewStatus \in tx'.objs => ReviewStatus \in tx.objs /\ ~(s.k = "drop" /\ s.o = ReviewStatus)
          /\ QuarantinedAt \in tx'.objs
             => QuarantinedAt \in tx.objs /\ ~(s.k = "drop" /\ s.o = QuarantinedAt)
      <4>1. s.k # "carry"
        BY <1>4 DEF Advance, UpgradeFact, DowngradeFact, MovingUp, MovingDown, RaisingTo,
                    LoweringFrom
      <4> QED BY <2>4, <4>1 DEF Advance, Keeps, Taking
    <3>2. Marked(tx, m)'
      BY <1>1, <2>1, <2>4, <3>1 DEF Marked, RowKept, Making
    <3>3. ~MovingUp' /\ ~MovingDown'
      <4>1. CASE job.upwards
        BY <1>4, <2>4, <4>1 DEF MovingUp, MovingDown, RaisingTo, LoweringFrom, Advance,
                                UpgradeFact, Making
      <4>2. CASE ~job.upwards
        BY <1>4, <2>4, <4>2 DEF MovingUp, MovingDown, RaisingTo, LoweringFrom, Advance,
                                DowngradeFact, Making
      <4> QED BY <4>1, <4>2
    <3> QED BY <3>2, <3>3 DEF MarkedInTx
  <2>5. (s.k \in Making /\ s.o \in {ReviewStatus, QuarantinedAt}) => s.k = "add"
    BY DEF Advance, UpgradeFact, DowngradeFact
  <2> QED BY <2>2, <2>3, <2>4, <2>5
<1> QED BY <1>2, <1>3, <1>4

LEMMA AdvanceRows ==
  ASSUME MigrationInv, NEW s, Advance(s), exposed' = exposed,
         \A m \in Memories : hold'[m] = "waiting"
           => hold[m] = "waiting" /\ (QuarantinedAt \in db'.objs \/ db'.rev >= 8)
  PROVE  RowsOK'
<1>1. ASSUME NEW m \in Memories \ exposed, hold'[m] = "waiting"
      PROVE  Marked(db, m)' /\ MarkedInTx(m)'
  <2>1. hold[m] = "waiting" /\ Marked(db, m)
    BY <1>1 DEF MigrationInv, RowsOK
  <2>2. MarkedInTx(m)'
    BY <2>1, AdvanceMarked
  <2>3. CASE db' = db
    BY <2>1, <2>2, <2>3 DEF Marked
  <2>4. CASE db' = tx' /\ s.k \in {"commit", "index", "unindex"}
    <3>1. ~MovingUp' /\ ~MovingDown'
      <4>1. CASE job.upwards
        BY <2>4, <4>1 DEF MovingUp, MovingDown, RaisingTo, LoweringFrom, Advance, UpgradeFact
      <4>2. CASE ~job.upwards
        BY <2>4, <4>2 DEF MovingUp, MovingDown, RaisingTo, LoweringFrom, Advance, DowngradeFact
      <4> QED BY <4>1, <4>2
    <3> QED BY <2>2, <2>4, <3>1 DEF MarkedInTx, Marked
  <2> QED BY <2>2, <2>3, <2>4 DEF Advance
<1> QED BY <1>1 DEF RowsOK
LEMMA ExecuteKeeps ==
  ASSUME MigrationInv, Execute
  PROVE  MigrationInv'
<1> DEFINE s == Statements[job.pc]
           e == Effect(s, tx, job.upwards)
           opened == IF s.k = "commit" THEN job.pc > 1
                     ELSE job.open \/ s.k \in {"index", "unindex"}
<1>1. Running /\ ~AtTarget /\ job.pc <= Len(Statements)
  BY DEF Execute
<1>2. hold' = HoldIn(db') /\ image' = image /\ exposed' = exposed
  BY DEF Execute
<1>3. CASE Fails(s, tx) /\ job' = [job EXCEPT !.state = "failed"] /\ tx' = db
           /\ torn' = (torn \/ job.open) /\ db' = db
  <2>1. hold' = HoldIn(db)
    BY <1>2, <1>3
  <2> QED BY <1>1, <1>2, <1>3, <2>1, FailureKeeps
<1>4. CASE /\ ~Fails(s, tx)
           /\ job' = [job EXCEPT !.pc = @ + 1, !.open = opened]
           /\ tx' = e
           /\ db' = IF s.k \in {"commit", "index", "unindex"} THEN e ELSE db
           /\ torn' = torn
  <2>1. /\ tx \in SchemaState /\ db \in SchemaState /\ job.pc \in Nat \ {0} /\ job.upwards \in BOOLEAN
        /\ job \in Jobs
    BY DEF MigrationInv, StateOK, Jobs
  <2>2. opened \in BOOLEAN
    <3>1. (job.pc > 1) \in BOOLEAN /\ (job.open \/ s.k \in {"index", "unindex"}) \in BOOLEAN
      OBVIOUS
    <3> QED BY <3>1
  <2>3. /\ Running' /\ job'.pc = job.pc + 1 /\ job'.upwards = job.upwards
        /\ job'.target = job.target
        /\ (job \in Jobs)'
    <3>1. job' = [job EXCEPT !.pc = @ + 1, !.open = opened]
      BY <1>4
    <3>2. [job EXCEPT !.pc = @ + 1, !.open = opened]
          \in Jobs
      <4> DEFINE next == job.pc + 1
      <4>1. next \in Nat \ {0}
        BY <2>1
      <4> HIDE DEF opened, next
      <4>2. [job EXCEPT !.pc = next, !.open = opened]
            \in Jobs
        BY <2>1, <2>2, <4>1 DEF Jobs
      <4> QED BY <4>2 DEF next
    <3>3. job'.state = job.state /\ job'.pc = job.pc + 1 /\ job'.upwards = job.upwards
          /\ job'.target = job.target
      <4> HIDE DEF opened
      <4> QED BY <2>1, <3>1
    <3> QED BY <1>1, <3>1, <3>2, <3>3 DEF Running
  <2>4. /\ s.k \in Kinds /\ s.o \in Objects
        /\ job.upwards => UpgradeFact(tx.rev + 1, job.pc, s)
        /\ ~job.upwards => tx.rev \in 1..Latest /\ DowngradeFact(tx.rev, job.pc, s)
                           /\ Statements = Downgrade[tx.rev]
    BY <1>1, AtStatement
  <2>5. /\ s.k = "add" => s.o \notin tx.objs
        /\ s.k = "drop" => s.o \in tx.objs
    BY <1>4 DEF Fails
  <2>6. (~job.upwards /\ tx.rev = 8) => job.pc <= 7
    BY <1>1, <2>4, DowngradeFacts
  <2> HIDE DEF s
  <2>7. /\ e \in SchemaState /\ e.rev = tx.rev
        /\ Keeps(s, QuarantinedAt, tx.objs, e.objs) /\ Keeps(s, ReviewStatus, tx.objs, e.objs)
        /\ Keeps(s, TrustLevel, tx.objs, e.objs)
        /\ \A m \in Memories : RowKept(s, job.upwards, tx.rows[m], e.rows[m])
    BY <2>1, <2>4, EffectFacts
  <2>8. /\ tx' = e /\ db' \in SchemaState
        /\ \/ db' = tx' /\ s.k \in {"commit", "index", "unindex"}
           \/ db' = db /\ s.k \notin {"commit", "index", "unindex"}
    BY <1>4, <2>1, <2>7
  <2> HIDE DEF e, opened
  <2>9. tx.rev \in Nat /\ tx'.rev = tx.rev
    BY <2>1, <2>7, <2>8 DEF SchemaState
  <2>10. Advance(s)
    BY <1>1, <2>1, <2>3, <2>4, <2>5, <2>6, <2>7, <2>8, <2>9 DEF Advance
  <2>11. /\ hold' \in [Memories -> {"none", "waiting", "over"}]
         /\ \A m \in Memories : hold'[m] = "waiting"
              => hold[m] = "waiting" /\ (QuarantinedAt \in db'.objs \/ db'.rev >= 8)
    BY <1>2, <2>8, HoldsInNew DEF MigrationInv, MigrationTypeOK
  <2>12. MigrationTypeOK'
    BY <1>2, <1>4, <2>3, <2>7, <2>8, <2>11 DEF MigrationInv, MigrationTypeOK, SchemaState
  <2>13. StateOK'
    <3>1. AtTarget' = AtTarget
      BY <2>3, <2>9 DEF AtTarget
    <3>2. (IF job.upwards THEN db.rev <= tx.rev /\ tx.rev <= job.target
           ELSE job.target <= tx.rev)'
      BY <1>1, <2>3, <2>8, <2>9 DEF MigrationInv, StateOK
    <3> QED BY <1>1, <2>3, <2>7, <2>8, <3>1, <3>2 DEF StateOK
  <2> QED BY <1>2, <2>10, <2>11, <2>12, <2>13, AdvanceOpenColumns, AdvanceCommittedColumns,
             AdvanceOpenAgainstCommitted, AdvanceRows DEF MigrationInv
<1> QED BY <1>3, <1>4 DEF Execute

LEMMA MigrationInvMeans ==
  ASSUME MigrationInv
  PROVE  HoldCarried
<1> SUFFICES ASSUME NEW m \in Memories \ exposed, hold[m] = "waiting", Works
             PROVE  IF image = 8 THEN db.rows[m].quarantined ELSE db.rows[m].status = "pending"
  BY DEF HoldCarried
<1>1. Marked(db, m)
  BY DEF MigrationInv, RowsOK
<1>2. image \in 8..Latest
  BY MigrationAssumption DEF MigrationInv, MigrationTypeOK
<1> QED BY <1>1, <1>2, WorksNeeds DEF Marked

LEMMA MigrationInvInductive ==
  ASSUME MigrationInv, [MigrationNext]_migrationVars
  PROVE  MigrationInv'
<1>1. CASE UNCHANGED migrationVars
  BY <1>1 DEF migrationVars, MigrationInv, MigrationTypeOK, StateOK, CommittedColumns,
         OpenColumns, OpenAgainstCommitted, RowsOK, Marked, MarkedInTx, MovingUp, MovingDown,
         RaisingTo, LoweringFrom, Running, AtTarget, Columned, Trusted
<1>2. ASSUME NEW goal \in 0..Latest, Start(goal) PROVE MigrationInv'
  BY <1>2, StartKeeps
<1>3. CASE Execute
  BY <1>3, ExecuteKeeps
<1>4. CASE Stamp
  BY <1>4, StampKeeps
<1>5. CASE Finish
  BY <1>5, FinishKeeps
<1>6. CASE Die
  BY <1>6, DieKeeps
<1>7. ASSUME NEW m \in Memories, Hold(m) PROVE MigrationInv'
  BY <1>7, HoldKeeps
<1>8. ASSUME NEW m \in Memories, Release(m) PROVE MigrationInv'
  BY <1>8, ReleaseKeeps
<1>9. ASSUME NEW i \in Images, Deploy(i) PROVE MigrationInv'
  BY <1>9, DeployKeeps
<1> QED BY <1>1, <1>2, <1>3, <1>4, <1>5, <1>6, <1>7, <1>8, <1>9 DEF MigrationNext

(* Whatever the runs of alembic, wherever they die and whichever images    *)
(* are deployed meanwhile, a memory that waits for a person is found by no *)
(* image that works.                                                       *)
THEOREM HoldSurvives == MigrationSpec => [](MigrationTypeOK /\ HoldCarried)
<1>1. MigrationInit => MigrationInv
  BY MigrationStarts
<1>2. MigrationInv /\ [MigrationNext]_migrationVars => MigrationInv'
  BY MigrationInvInductive
<1>3. MigrationInv => MigrationTypeOK /\ HoldCarried
  BY MigrationInvMeans DEF MigrationInv
<1> QED BY <1>1, <1>2, <1>3, PTL DEF MigrationSpec

-----------------------------------------------------------------------------
(***************************************************************************)
(* The schema of a revision.                                               *)
(*                                                                         *)
(* Tables say of every object which statement makes it and which takes it  *)
(* away, and each statement is checked against them once (UpTable,         *)
(* DownTable).  What the statements before the i-th of a migration leave   *)
(* is a set (Raised, Lowered) that each statement moves on by its own      *)
(* effect (RaisesBy, LowersBy) from the schema of one revision to that of  *)
(* the next (RaisesTo, LowersTo), and on that set no statement fails       *)
(* (UpgradeRuns, DowngradeRuns): what it names, is part of or uses is      *)
(* there, and what it drops has no users left.                             *)
(***************************************************************************)

(* Born and Spot are the migration and the statement that make an object,  *)
(* Fall the statement of the migration's downgrade that removes it.        *)

Born(o) ==
  CASE o \in {"vector", "pg_trgm", "citext", "uuid_ossp", "scope_t", "role_t", "actor_t",
          "orgs", "workspaces", "projects", "users", "memberships", "api_keys",
          "jwt_revocations", "audit_log"} -> 1
    [] o \in {"agent_t", "message_role_t", "memory_tier_t", "sensitivity_t",
          "memory_kind_t", "memory_source_t", "link_t", "sessions", "conversations",
          "messages", "memories", "tsv", "ix_hnsw", "ix_tsv_gin", "ix_body_trgm",
          "memory_links"} -> 2
    [] o \in {"attachment_status_t", "attachments", "attachment_chunks", "chunk_tsv",
          "ix_chunk_hnsw", "ix_chunk_tsv_gin"} -> 3
    [] o \in {"email_verified"} -> 4
    [] o \in {"conflict_checked_at", "ix_conflict_pending"} -> 5
    [] o \in {"embed_attempts", "embed_error", "embed_failed_at", "embed_next_attempt_at",
          "ix_embed_failed"} -> 6
    [] o \in {"content_hash", "ix_content_hash"} -> 7
    [] o \in {"memory_trust_t", "trust", "pii_flags", "quarantined_at", "quarantine_reason",
          "ix_quarantined"} -> 8
    [] o \in {"review_status_t", "review_mode_t", "review_status", "review_reason",
          "reviewed_at", "reviewed_by", "confidence", "review_mode", "ix_review_pending"} -> 9
    [] o \in {"text_search_config", "ts_config", "chunk_ts_config", "tsv_by_config",
          "chunk_tsv_by_config"} -> 10
    [] o \in {"entry_hash", "prev_hash", "ix_audit_log_org_id_desc", "audit_guard",
          "audit_log_append_only"} -> 11
    [] OTHER -> 0

Spot(o) ==
  CASE o \in {"vector", "agent_t", "attachment_status_t", "email_verified",
          "conflict_checked_at", "embed_attempts", "content_hash", "memory_trust_t",
          "review_status_t", "text_search_config", "entry_hash"} -> 1
    [] o \in {"pg_trgm", "message_role_t", "attachments", "embed_error", "trust",
          "review_mode_t", "ts_config", "prev_hash"} -> 2
    [] o \in {"citext", "memory_tier_t", "attachment_chunks", "ix_conflict_pending",
          "embed_failed_at", "ix_content_hash", "pii_flags", "review_status",
          "chunk_ts_config", "ix_audit_log_org_id_desc"} -> 3
    [] o \in {"uuid_ossp", "sensitivity_t", "chunk_tsv", "embed_next_attempt_at",
          "quarantined_at", "review_reason", "audit_guard"} -> 4
    [] o \in {"scope_t", "memory_kind_t", "ix_chunk_hnsw", "quarantine_reason",
          "reviewed_at", "audit_log_append_only"} -> 5
    [] o \in {"role_t", "memory_source_t", "ix_chunk_tsv_gin", "ix_embed_failed",
          "reviewed_by", "tsv_by_config"} -> 6
    [] o \in {"actor_t", "link_t", "ix_quarantined", "confidence"} -> 7
    [] o \in {"orgs", "sessions"} -> 8
    [] o \in {"workspaces", "conversations", "review_mode"} -> 9
    [] o \in {"projects", "messages", "chunk_tsv_by_config"} -> 10
    [] o \in {"users", "memories", "ix_review_pending"} -> 11
    [] o \in {"memberships", "tsv"} -> 12
    [] o \in {"api_keys", "ix_hnsw"} -> 13
    [] o \in {"jwt_revocations", "ix_tsv_gin"} -> 14
    [] o \in {"audit_log", "ix_body_trgm"} -> 15
    [] o \in {"memory_links"} -> 16
    [] OTHER -> 0

Fall(o) ==
  CASE o \in {"audit_log", "memory_links", "ix_chunk_tsv_gin", "email_verified",
          "audit_log_append_only"} -> 1
    [] o \in {"jwt_revocations", "ix_body_trgm", "ix_chunk_hnsw", "ix_conflict_pending",
          "ix_embed_failed", "ix_content_hash", "ix_quarantined", "tsv_by_config",
          "audit_guard"} -> 2
    [] o \in {"api_keys", "ix_tsv_gin", "attachment_chunks", "chunk_tsv",
          "conflict_checked_at", "embed_next_attempt_at", "content_hash", "quarantine_reason",
          "ix_audit_log_org_id_desc"} -> 3
    [] o \in {"memberships", "ix_hnsw", "attachments", "embed_failed_at", "quarantined_at",
          "prev_hash"} -> 4
    [] o \in {"users", "memories", "tsv", "attachment_status_t", "embed_error", "pii_flags",
          "entry_hash"} -> 5
    [] o \in {"projects", "messages", "embed_attempts", "trust", "ix_review_pending",
          "chunk_tsv_by_config"} -> 6
    [] o \in {"workspaces", "conversations", "memory_trust_t", "review_mode"} -> 7
    [] o \in {"orgs", "sessions", "confidence"} -> 8
    [] o \in {"actor_t", "link_t", "reviewed_by", "ts_config"} -> 9
    [] o \in {"role_t", "memory_source_t", "reviewed_at", "chunk_ts_config"} -> 10
    [] o \in {"scope_t", "memory_kind_t", "review_reason", "text_search_config"} -> 11
    [] o \in {"sensitivity_t", "review_status"} -> 12
    [] o \in {"memory_tier_t", "review_mode_t"} -> 13
    [] o \in {"message_role_t", "review_status_t"} -> 14
    [] o \in {"agent_t"} -> 15
    [] OTHER -> 0

(* What the upgrades take away, and where.                                 *)
Taken(o) ==
  CASE o \in {"ix_quarantined", "quarantine_reason", "quarantined_at"} -> 9
    [] o \in {"ix_tsv_gin", "tsv", "ix_chunk_tsv_gin", "chunk_tsv"} -> 10
    [] OTHER -> 0

TakenAt(o) ==
  CASE o = "ix_tsv_gin" -> 4 [] o = "tsv" -> 5
    [] o = "ix_chunk_tsv_gin" -> 8 [] o = "chunk_tsv" -> 9
    [] o = "ix_quarantined" -> 12 [] o = "quarantine_reason" -> 13 [] o = "quarantined_at" -> 14
    [] OTHER -> 0

(* Where the downgrade makes it again.                                     *)
Back(o) ==
  CASE o = "quarantined_at" -> 1 [] o = "quarantine_reason" -> 2 [] o = "ix_quarantined" -> 5
    [] o = "tsv" -> 3 [] o = "ix_tsv_gin" -> 4
    [] o = "chunk_tsv" -> 7 [] o = "ix_chunk_tsv_gin" -> 8
    [] OTHER -> 0

Swapped == {"ix_tsv_gin", "ix_chunk_tsv_gin"}

(* The object is o, or is part of it.                                      *)
Within(x, o) == x = o \/ PartOf(x) = o \/ PartOf(PartOf(x)) = o

UpStep(r, i, s) ==
  /\ s.k \in Making => \/ Born(s.o) = r /\ Spot(s.o) = i
                       \/ r = 10 /\ s.o \in Swapped /\ i = TakenAt(s.o) + 3
  /\ s.k \in Taking => Taken(s.o) = r /\ TakenAt(s.o) = i
  /\ s.k = "add" => s.o \notin Extensions /\ s.o # "ix_quarantined"
  /\ s.k = "index" => i > 2 /\ Upgrade[r][i - 1].k = "commit"

DownStep(r, i, s) ==
  /\ s.k \in Making => Taken(s.o) = r /\ Back(s.o) = i
  /\ s.k \in Taking => \/ Born(s.o) = r /\ Fall(s.o) = i
                       \/ r = 10 /\ s.o \in Swapped /\ i = Back(s.o) - 3
  /\ s.k = "drop" => s.o \notin Swapped
  /\ s.k = "add" => s.o # "ix_quarantined"
  /\ s.k = "index" => i > 2 /\ Downgrade[r][i - 1].k = "commit"

(* One line for each statement.                                            *)
Is(s, k, o) == s.k = k /\ s.o = o

Founds(r, i, k, o) == Is(Upgrade[r][i], k, o) /\ Born(o) = r /\ Spot(o) = i
Sheds(r, i, k, o) == Is(Upgrade[r][i], k, o) /\ Taken(o) = r /\ TakenAt(o) = i
Fells(r, i, k, o) == Is(Downgrade[r][i], k, o) /\ Born(o) = r /\ Fall(o) = i
Returns(r, i, k, o) == Is(Downgrade[r][i], k, o) /\ Taken(o) = r /\ Back(o) = i

Remakes(r, i, o) == Downgrade[r][i].k \in {"add", "ensure", "index"} /\ Downgrade[r][i].o = o
Removes(r, i, o) ==
  Downgrade[r][i].k \in {"drop", "clear", "unindex"} /\ o \in Whole[Downgrade[r][i].o]

LEMMA UpTable ==
  ASSUME NEW r \in 1..Latest
  PROVE  /\ \A i \in 1..Len(Upgrade[r]) : UpStep(r, i, Upgrade[r][i])
         /\ \A x : Born(x) = r => Spot(x) \in 1..Len(Upgrade[r]) /\ Makes(r, Spot(x), x)
         /\ \A x : Taken(x) = r => /\ TakenAt(x) \in 1..Len(Upgrade[r])
                                  /\ Upgrade[r][TakenAt(x)].k \in Taking
                                  /\ Upgrade[r][TakenAt(x)].o = x
<1>1. CASE r = 1
  <2>1. /\ Founds(1, 1, "ensure", "vector")
        /\ Founds(1, 2, "ensure", "pg_trgm")
        /\ Founds(1, 3, "ensure", "citext")
        /\ Founds(1, 4, "ensure", "uuid_ossp")
        /\ Founds(1, 5, "add", "scope_t")
        /\ Founds(1, 6, "add", "role_t")
        /\ Founds(1, 7, "add", "actor_t")
        /\ Founds(1, 8, "add", "orgs")
        /\ Founds(1, 9, "add", "workspaces")
        /\ Founds(1, 10, "add", "projects")
        /\ Founds(1, 11, "add", "users")
        /\ Founds(1, 12, "add", "memberships")
        /\ Founds(1, 13, "add", "api_keys")
        /\ Founds(1, 14, "add", "jwt_revocations")
        /\ Founds(1, 15, "add", "audit_log")
    BY DEF Is, Founds, Sheds, Born, Spot, Upgrade, UpTenancy, UpAccess, UpAudit, Stmt
  <2>2. Len(Upgrade[1]) = 15
    BY DEF Upgrade, UpTenancy, UpAccess, UpAudit, Stmt
  <2>3. \A i \in 1..15 : UpStep(1, i, Upgrade[1][i])
    BY <2>1 DEF Is, Founds, Sheds, UpStep, Making, Taking, Extensions
  <2>4. \A x : Born(x) = 1 => Spot(x) \in 1..15 /\ Makes(1, Spot(x), x)
    BY <2>1 DEF Is, Founds, Born, Makes
  <2>5. \A x : Taken(x) = 1 => /\ TakenAt(x) \in 1..15 /\ Upgrade[1][TakenAt(x)].k \in Taking
                             /\ Upgrade[1][TakenAt(x)].o = x
    BY DEF Taken
  <2> QED BY <1>1, <2>2, <2>3, <2>4, <2>5
<1>2. CASE r = 2
  <2>1. /\ Founds(2, 1, "add", "agent_t")
        /\ Founds(2, 2, "add", "message_role_t")
        /\ Founds(2, 3, "add", "memory_tier_t")
        /\ Founds(2, 4, "add", "sensitivity_t")
        /\ Founds(2, 5, "add", "memory_kind_t")
        /\ Founds(2, 6, "add", "memory_source_t")
        /\ Founds(2, 7, "add", "link_t")
        /\ Founds(2, 8, "add", "sessions")
        /\ Founds(2, 9, "add", "conversations")
        /\ Founds(2, 10, "add", "messages")
        /\ Founds(2, 11, "add", "memories")
        /\ Founds(2, 12, "add", "tsv")
        /\ Founds(2, 13, "add", "ix_hnsw")
        /\ Founds(2, 14, "add", "ix_tsv_gin")
        /\ Founds(2, 15, "add", "ix_body_trgm")
        /\ Founds(2, 16, "add", "memory_links")
    BY DEF Is, Founds, Sheds, Born, Spot, Upgrade, UpSessions, UpMessages, UpMemories, UpLinks, Stmt
  <2>2. Len(Upgrade[2]) = 16
    BY DEF Upgrade, UpSessions, UpMessages, UpMemories, UpLinks, Stmt
  <2>3. \A i \in 1..16 : UpStep(2, i, Upgrade[2][i])
    BY <2>1 DEF Is, Founds, Sheds, UpStep, Making, Taking, Extensions
  <2>4. \A x : Born(x) = 2 => Spot(x) \in 1..16 /\ Makes(2, Spot(x), x)
    BY <2>1 DEF Is, Founds, Born, Makes
  <2>5. \A x : Taken(x) = 2 => /\ TakenAt(x) \in 1..16 /\ Upgrade[2][TakenAt(x)].k \in Taking
                             /\ Upgrade[2][TakenAt(x)].o = x
    BY DEF Taken
  <2> QED BY <1>2, <2>2, <2>3, <2>4, <2>5
<1>3. CASE r = 3
  <2>1. /\ Founds(3, 1, "add", "attachment_status_t")
        /\ Founds(3, 2, "add", "attachments")
        /\ Founds(3, 3, "add", "attachment_chunks")
        /\ Founds(3, 4, "add", "chunk_tsv")
        /\ Founds(3, 5, "add", "ix_chunk_hnsw")
        /\ Founds(3, 6, "add", "ix_chunk_tsv_gin")
    BY DEF Is, Founds, Sheds, Born, Spot, Upgrade, UpAttachments, UpChunks, Stmt
  <2>2. Len(Upgrade[3]) = 6
    BY DEF Upgrade, UpAttachments, UpChunks, Stmt
  <2>3. \A i \in 1..6 : UpStep(3, i, Upgrade[3][i])
    BY <2>1 DEF Is, Founds, Sheds, UpStep, Making, Taking, Extensions
  <2>4. \A x : Born(x) = 3 => Spot(x) \in 1..6 /\ Makes(3, Spot(x), x)
    BY <2>1 DEF Is, Founds, Born, Makes
  <2>5. \A x : Taken(x) = 3 => /\ TakenAt(x) \in 1..6 /\ Upgrade[3][TakenAt(x)].k \in Taking
                             /\ Upgrade[3][TakenAt(x)].o = x
    BY DEF Taken
  <2> QED BY <1>3, <2>2, <2>3, <2>4, <2>5
<1>4. CASE r = 4
  <2>1. /\ Founds(4, 1, "add", "email_verified")
    BY DEF Is, Founds, Sheds, Born, Spot, Upgrade, Up4, Stmt
  <2>2. Len(Upgrade[4]) = 1
    BY DEF Upgrade, Up4, Stmt
  <2>3. \A i \in 1..1 : UpStep(4, i, Upgrade[4][i])
    BY <2>1 DEF Is, Founds, Sheds, UpStep, Making, Taking, Extensions
  <2>4. \A x : Born(x) = 4 => Spot(x) \in 1..1 /\ Makes(4, Spot(x), x)
    BY <2>1 DEF Is, Founds, Born, Makes
  <2>5. \A x : Taken(x) = 4 => /\ TakenAt(x) \in 1..1 /\ Upgrade[4][TakenAt(x)].k \in Taking
                             /\ Upgrade[4][TakenAt(x)].o = x
    BY DEF Taken
  <2> QED BY <1>4, <2>2, <2>3, <2>4, <2>5
<1>5. CASE r = 5
  <2>1. /\ Founds(5, 1, "add", "conflict_checked_at")
        /\ Is(Upgrade[5][2], "commit", "block")
        /\ Founds(5, 3, "index", "ix_conflict_pending")
    BY DEF Is, Founds, Sheds, Born, Spot, Upgrade, Up5, Stmt, Commit
  <2>2. Len(Upgrade[5]) = 3
    BY DEF Upgrade, Up5, Stmt, Commit
  <2>3. \A i \in 1..3 : UpStep(5, i, Upgrade[5][i])
    BY <2>1 DEF Is, Founds, Sheds, UpStep, Making, Taking, Extensions
  <2>4. \A x : Born(x) = 5 => Spot(x) \in 1..3 /\ Makes(5, Spot(x), x)
    BY <2>1 DEF Is, Founds, Born, Makes
  <2>5. \A x : Taken(x) = 5 => /\ TakenAt(x) \in 1..3 /\ Upgrade[5][TakenAt(x)].k \in Taking
                             /\ Upgrade[5][TakenAt(x)].o = x
    BY DEF Taken
  <2> QED BY <1>5, <2>2, <2>3, <2>4, <2>5
<1>6. CASE r = 6
  <2>1. /\ Founds(6, 1, "add", "embed_attempts")
        /\ Founds(6, 2, "add", "embed_error")
        /\ Founds(6, 3, "add", "embed_failed_at")
        /\ Founds(6, 4, "add", "embed_next_attempt_at")
        /\ Is(Upgrade[6][5], "commit", "block")
        /\ Founds(6, 6, "index", "ix_embed_failed")
    BY DEF Is, Founds, Sheds, Born, Spot, Upgrade, Up6, Stmt, Commit
  <2>2. Len(Upgrade[6]) = 6
    BY DEF Upgrade, Up6, Stmt, Commit
  <2>3. \A i \in 1..6 : UpStep(6, i, Upgrade[6][i])
    BY <2>1 DEF Is, Founds, Sheds, UpStep, Making, Taking, Extensions
  <2>4. \A x : Born(x) = 6 => Spot(x) \in 1..6 /\ Makes(6, Spot(x), x)
    BY <2>1 DEF Is, Founds, Born, Makes
  <2>5. \A x : Taken(x) = 6 => /\ TakenAt(x) \in 1..6 /\ Upgrade[6][TakenAt(x)].k \in Taking
                             /\ Upgrade[6][TakenAt(x)].o = x
    BY DEF Taken
  <2> QED BY <1>6, <2>2, <2>3, <2>4, <2>5
<1>7. CASE r = 7
  <2>1. /\ Founds(7, 1, "add", "content_hash")
        /\ Is(Upgrade[7][2], "commit", "block")
        /\ Founds(7, 3, "index", "ix_content_hash")
    BY DEF Is, Founds, Sheds, Born, Spot, Upgrade, Up7, Stmt, Commit
  <2>2. Len(Upgrade[7]) = 3
    BY DEF Upgrade, Up7, Stmt, Commit
  <2>3. \A i \in 1..3 : UpStep(7, i, Upgrade[7][i])
    BY <2>1 DEF Is, Founds, Sheds, UpStep, Making, Taking, Extensions
  <2>4. \A x : Born(x) = 7 => Spot(x) \in 1..3 /\ Makes(7, Spot(x), x)
    BY <2>1 DEF Is, Founds, Born, Makes
  <2>5. \A x : Taken(x) = 7 => /\ TakenAt(x) \in 1..3 /\ Upgrade[7][TakenAt(x)].k \in Taking
                             /\ Upgrade[7][TakenAt(x)].o = x
    BY DEF Taken
  <2> QED BY <1>7, <2>2, <2>3, <2>4, <2>5
<1>8. CASE r = 8
  <2>1. /\ Founds(8, 1, "ensure", "memory_trust_t")
        /\ Founds(8, 2, "add", "trust")
        /\ Founds(8, 3, "add", "pii_flags")
        /\ Founds(8, 4, "add", "quarantined_at")
        /\ Founds(8, 5, "add", "quarantine_reason")
        /\ Is(Upgrade[8][6], "commit", "block")
        /\ Founds(8, 7, "index", "ix_quarantined")
    BY DEF Is, Founds, Sheds, Born, Spot, Upgrade, Up8, Stmt, Commit
  <2>2. Len(Upgrade[8]) = 7
    BY DEF Upgrade, Up8, Stmt, Commit
  <2>3. \A i \in 1..7 : UpStep(8, i, Upgrade[8][i])
    BY <2>1 DEF Is, Founds, Sheds, UpStep, Making, Taking, Extensions
  <2>4. \A x : Born(x) = 8 => Spot(x) \in 1..7 /\ Makes(8, Spot(x), x)
    BY <2>1 DEF Is, Founds, Born, Makes
  <2>5. \A x : Taken(x) = 8 => /\ TakenAt(x) \in 1..7 /\ Upgrade[8][TakenAt(x)].k \in Taking
                             /\ Upgrade[8][TakenAt(x)].o = x
    BY DEF Taken
  <2> QED BY <1>8, <2>2, <2>3, <2>4, <2>5
<1>9. CASE r = 9
  <2>1. /\ Founds(9, 1, "ensure", "review_status_t")
        /\ Founds(9, 2, "ensure", "review_mode_t")
        /\ Founds(9, 3, "add", "review_status")
        /\ Founds(9, 4, "add", "review_reason")
        /\ Founds(9, 5, "add", "reviewed_at")
        /\ Founds(9, 6, "add", "reviewed_by")
        /\ Founds(9, 7, "add", "confidence")
        /\ Is(Upgrade[9][8], "carry", "rows")
        /\ Founds(9, 9, "add", "review_mode")
        /\ Is(Upgrade[9][10], "commit", "block")
        /\ Founds(9, 11, "index", "ix_review_pending")
        /\ Sheds(9, 12, "unindex", "ix_quarantined")
        /\ Sheds(9, 13, "drop", "quarantine_reason")
        /\ Sheds(9, 14, "drop", "quarantined_at")
    BY DEF Is, Founds, Sheds, Born, Spot, Taken, TakenAt, Upgrade, Up9, Stmt, Commit, Carry
  <2>2. Len(Upgrade[9]) = 14
    BY DEF Upgrade, Up9, Stmt, Commit, Carry
  <2>3. \A i \in 1..14 : UpStep(9, i, Upgrade[9][i])
    BY <2>1 DEF Is, Founds, Sheds, UpStep, Making, Taking, Extensions
  <2>4. \A x : Born(x) = 9 => Spot(x) \in 1..14 /\ Makes(9, Spot(x), x)
    BY <2>1 DEF Is, Founds, Born, Makes
  <2>5. \A x : Taken(x) = 9 => /\ TakenAt(x) \in 1..14 /\ Upgrade[9][TakenAt(x)].k \in Taking
                             /\ Upgrade[9][TakenAt(x)].o = x
    BY <2>1 DEF Is, Sheds, Taking, Taken
  <2> QED BY <1>9, <2>2, <2>3, <2>4, <2>5
<1>10. CASE r = 10
  <2>1. /\ Founds(10, 1, "add", "text_search_config")
        /\ Founds(10, 2, "add", "ts_config")
        /\ Founds(10, 3, "add", "chunk_ts_config")
        /\ Sheds(10, 4, "clear", "ix_tsv_gin")
        /\ Sheds(10, 5, "drop", "tsv")
        /\ Founds(10, 6, "add", "tsv_by_config")
        /\ Is(Upgrade[10][7], "add", "ix_tsv_gin")
        /\ Sheds(10, 8, "clear", "ix_chunk_tsv_gin")
        /\ Sheds(10, 9, "drop", "chunk_tsv")
        /\ Founds(10, 10, "add", "chunk_tsv_by_config")
        /\ Is(Upgrade[10][11], "add", "ix_chunk_tsv_gin")
    BY DEF Is, Founds, Sheds, Born, Spot, Taken, TakenAt, Upgrade, Up10, SwapTsv, Stmt
  <2>2. Len(Upgrade[10]) = 11
    BY DEF Upgrade, Up10, SwapTsv, Stmt
  <2>3. \A i \in 1..11 : UpStep(10, i, Upgrade[10][i])
    BY <2>1 DEF Is, Founds, Sheds, UpStep, Making, Taking, Extensions, Swapped, TakenAt
  <2>4. \A x : Born(x) = 10 => Spot(x) \in 1..11 /\ Makes(10, Spot(x), x)
    BY <2>1 DEF Is, Founds, Born, Makes
  <2>5. \A x : Taken(x) = 10 => /\ TakenAt(x) \in 1..11 /\ Upgrade[10][TakenAt(x)].k \in Taking
                             /\ Upgrade[10][TakenAt(x)].o = x
    BY <2>1 DEF Is, Sheds, Taking, Taken
  <2> QED BY <1>10, <2>2, <2>3, <2>4, <2>5
<1>11. CASE r = 11
  <2>1. /\ Founds(11, 1, "add", "entry_hash")
        /\ Founds(11, 2, "add", "prev_hash")
        /\ Founds(11, 3, "add", "ix_audit_log_org_id_desc")
        /\ Founds(11, 4, "ensure", "audit_guard")
        /\ Founds(11, 5, "add", "audit_log_append_only")
    BY DEF Is, Founds, Sheds, Born, Spot, Upgrade, Up11, Stmt
  <2>2. Len(Upgrade[11]) = 5
    BY DEF Upgrade, Up11, Stmt
  <2>3. \A i \in 1..5 : UpStep(11, i, Upgrade[11][i])
    BY <2>1 DEF Is, Founds, Sheds, UpStep, Making, Taking, Extensions
  <2>4. \A x : Born(x) = 11 => Spot(x) \in 1..5 /\ Makes(11, Spot(x), x)
    BY <2>1 DEF Is, Founds, Born, Makes
  <2>5. \A x : Taken(x) = 11 => /\ TakenAt(x) \in 1..5 /\ Upgrade[11][TakenAt(x)].k \in Taking
                             /\ Upgrade[11][TakenAt(x)].o = x
    BY DEF Taken
  <2> QED BY <1>11, <2>2, <2>3, <2>4, <2>5
<1> QED BY <1>1, <1>2, <1>3, <1>4, <1>5, <1>6, <1>7, <1>8, <1>9, <1>10, <1>11 DEF Latest

LEMMA DownTable ==
  ASSUME NEW r \in 1..Latest
  PROVE  /\ \A i \in 1..Len(Downgrade[r]) : DownStep(r, i, Downgrade[r][i])
         /\ \A x : Born(x) = r /\ x \notin Extensions
              => /\ Fall(x) \in 1..Len(Downgrade[r]) /\ Downgrade[r][Fall(x)].k \in Taking
                 /\ Within(x, Downgrade[r][Fall(x)].o)
         /\ \A x : Taken(x) = r => Back(x) \in 1..Len(Downgrade[r]) /\ Remakes(r, Back(x), x)
<1>1. CASE r = 1
  <2>1. /\ Fells(1, 1, "drop", "audit_log")
        /\ Fells(1, 2, "drop", "jwt_revocations")
        /\ Fells(1, 3, "drop", "api_keys")
        /\ Fells(1, 4, "drop", "memberships")
        /\ Fells(1, 5, "drop", "users")
        /\ Fells(1, 6, "drop", "projects")
        /\ Fells(1, 7, "drop", "workspaces")
        /\ Fells(1, 8, "drop", "orgs")
        /\ Fells(1, 9, "clear", "actor_t")
        /\ Fells(1, 10, "clear", "role_t")
        /\ Fells(1, 11, "clear", "scope_t")
    BY DEF Is, Fells, Returns, Born, Fall, Downgrade, Down1, Stmt
  <2>2. Len(Downgrade[1]) = 11
    BY DEF Downgrade, Down1, Stmt
  <2>3. \A i \in 1..11 : DownStep(1, i, Downgrade[1][i])
    BY <2>1 DEF Is, Fells, Returns, DownStep, Making, Taking, Swapped
  <2>4. \A x : Born(x) = 1 /\ x \notin Extensions
              => /\ Fall(x) \in 1..11 /\ Downgrade[1][Fall(x)].k \in Taking
                 /\ Within(x, Downgrade[1][Fall(x)].o)
    BY <2>1 DEF Is, Fells, Born, Taking, Within, Extensions
  <2>5. \A x : Taken(x) = 1 => Back(x) \in 1..11 /\ Remakes(1, Back(x), x)
    BY DEF Taken
  <2> QED BY <1>1, <2>2, <2>3, <2>4, <2>5
<1>2. CASE r = 2
  <2>1. /\ Fells(2, 1, "drop", "memory_links")
        /\ Fells(2, 2, "clear", "ix_body_trgm")
        /\ Fells(2, 3, "clear", "ix_tsv_gin")
        /\ Fells(2, 4, "clear", "ix_hnsw")
        /\ Fells(2, 5, "drop", "memories")
        /\ Fells(2, 6, "drop", "messages")
        /\ Fells(2, 7, "drop", "conversations")
        /\ Fells(2, 8, "drop", "sessions")
        /\ Fells(2, 9, "clear", "link_t")
        /\ Fells(2, 10, "clear", "memory_source_t")
        /\ Fells(2, 11, "clear", "memory_kind_t")
        /\ Fells(2, 12, "clear", "sensitivity_t")
        /\ Fells(2, 13, "clear", "memory_tier_t")
        /\ Fells(2, 14, "clear", "message_role_t")
        /\ Fells(2, 15, "clear", "agent_t")
        /\ Fall("tsv") = 5 /\ PartOf("tsv") = "memories"
    BY DEF Is, Fells, Returns, Born, Fall, PartOf, Downgrade, Down2, Stmt
  <2>2. Len(Downgrade[2]) = 15
    BY DEF Downgrade, Down2, Stmt
  <2>3. \A i \in 1..15 : DownStep(2, i, Downgrade[2][i])
    BY <2>1 DEF Is, Fells, Returns, DownStep, Making, Taking, Swapped
  <2>4. \A x : Born(x) = 2 /\ x \notin Extensions
              => /\ Fall(x) \in 1..15 /\ Downgrade[2][Fall(x)].k \in Taking
                 /\ Within(x, Downgrade[2][Fall(x)].o)
    BY <2>1 DEF Is, Fells, Born, Taking, Within, Extensions
  <2>5. \A x : Taken(x) = 2 => Back(x) \in 1..15 /\ Remakes(2, Back(x), x)
    BY DEF Taken
  <2> QED BY <1>2, <2>2, <2>3, <2>4, <2>5
<1>3. CASE r = 3
  <2>1. /\ Fells(3, 1, "clear", "ix_chunk_tsv_gin")
        /\ Fells(3, 2, "clear", "ix_chunk_hnsw")
        /\ Fells(3, 3, "drop", "attachment_chunks")
        /\ Fells(3, 4, "drop", "attachments")
        /\ Fells(3, 5, "clear", "attachment_status_t")
        /\ Fall("chunk_tsv") = 3 /\ PartOf("chunk_tsv") = "attachment_chunks"
    BY DEF Is, Fells, Returns, Born, Fall, PartOf, Downgrade, Down3, Stmt
  <2>2. Len(Downgrade[3]) = 5
    BY DEF Downgrade, Down3, Stmt
  <2>3. \A i \in 1..5 : DownStep(3, i, Downgrade[3][i])
    BY <2>1 DEF Is, Fells, Returns, DownStep, Making, Taking, Swapped
  <2>4. \A x : Born(x) = 3 /\ x \notin Extensions
              => /\ Fall(x) \in 1..5 /\ Downgrade[3][Fall(x)].k \in Taking
                 /\ Within(x, Downgrade[3][Fall(x)].o)
    BY <2>1 DEF Is, Fells, Born, Taking, Within, Extensions
  <2>5. \A x : Taken(x) = 3 => Back(x) \in 1..5 /\ Remakes(3, Back(x), x)
    BY DEF Taken
  <2> QED BY <1>3, <2>2, <2>3, <2>4, <2>5
<1>4. CASE r = 4
  <2>1. /\ Fells(4, 1, "drop", "email_verified")
    BY DEF Is, Fells, Returns, Born, Fall, Downgrade, Down4, Stmt
  <2>2. Len(Downgrade[4]) = 1
    BY DEF Downgrade, Down4, Stmt
  <2>3. \A i \in 1..1 : DownStep(4, i, Downgrade[4][i])
    BY <2>1 DEF Is, Fells, Returns, DownStep, Making, Taking, Swapped
  <2>4. \A x : Born(x) = 4 /\ x \notin Extensions
              => /\ Fall(x) \in 1..1 /\ Downgrade[4][Fall(x)].k \in Taking
                 /\ Within(x, Downgrade[4][Fall(x)].o)
    BY <2>1 DEF Is, Fells, Born, Taking, Within, Extensions
  <2>5. \A x : Taken(x) = 4 => Back(x) \in 1..1 /\ Remakes(4, Back(x), x)
    BY DEF Taken
  <2> QED BY <1>4, <2>2, <2>3, <2>4, <2>5
<1>5. CASE r = 5
  <2>1. /\ Is(Downgrade[5][1], "commit", "block")
        /\ Fells(5, 2, "unindex", "ix_conflict_pending")
        /\ Fells(5, 3, "drop", "conflict_checked_at")
    BY DEF Is, Fells, Returns, Born, Fall, Downgrade, Down5, Stmt, Commit
  <2>2. Len(Downgrade[5]) = 3
    BY DEF Downgrade, Down5, Stmt, Commit
  <2>3. \A i \in 1..3 : DownStep(5, i, Downgrade[5][i])
    BY <2>1 DEF Is, Fells, Returns, DownStep, Making, Taking, Swapped
  <2>4. \A x : Born(x) = 5 /\ x \notin Extensions
              => /\ Fall(x) \in 1..3 /\ Downgrade[5][Fall(x)].k \in Taking
                 /\ Within(x, Downgrade[5][Fall(x)].o)
    BY <2>1 DEF Is, Fells, Born, Taking, Within, Extensions
  <2>5. \A x : Taken(x) = 5 => Back(x) \in 1..3 /\ Remakes(5, Back(x), x)
    BY DEF Taken
  <2> QED BY <1>5, <2>2, <2>3, <2>4, <2>5
<1>6. CASE r = 6
  <2>1. /\ Is(Downgrade[6][1], "commit", "block")
        /\ Fells(6, 2, "unindex", "ix_embed_failed")
        /\ Fells(6, 3, "drop", "embed_next_attempt_at")
        /\ Fells(6, 4, "drop", "embed_failed_at")
        /\ Fells(6, 5, "drop", "embed_error")
        /\ Fells(6, 6, "drop", "embed_attempts")
    BY DEF Is, Fells, Returns, Born, Fall, Downgrade, Down6, Stmt, Commit
  <2>2. Len(Downgrade[6]) = 6
    BY DEF Downgrade, Down6, Stmt, Commit
  <2>3. \A i \in 1..6 : DownStep(6, i, Downgrade[6][i])
    BY <2>1 DEF Is, Fells, Returns, DownStep, Making, Taking, Swapped
  <2>4. \A x : Born(x) = 6 /\ x \notin Extensions
              => /\ Fall(x) \in 1..6 /\ Downgrade[6][Fall(x)].k \in Taking
                 /\ Within(x, Downgrade[6][Fall(x)].o)
    BY <2>1 DEF Is, Fells, Born, Taking, Within, Extensions
  <2>5. \A x : Taken(x) = 6 => Back(x) \in 1..6 /\ Remakes(6, Back(x), x)
    BY DEF Taken
  <2> QED BY <1>6, <2>2, <2>3, <2>4, <2>5
<1>7. CASE r = 7
  <2>1. /\ Is(Downgrade[7][1], "commit", "block")
        /\ Fells(7, 2, "unindex", "ix_content_hash")
        /\ Fells(7, 3, "drop", "content_hash")
    BY DEF Is, Fells, Returns, Born, Fall, Downgrade, Down7, Stmt, Commit
  <2>2. Len(Downgrade[7]) = 3
    BY DEF Downgrade, Down7, Stmt, Commit
  <2>3. \A i \in 1..3 : DownStep(7, i, Downgrade[7][i])
    BY <2>1 DEF Is, Fells, Returns, DownStep, Making, Taking, Swapped
  <2>4. \A x : Born(x) = 7 /\ x \notin Extensions
              => /\ Fall(x) \in 1..3 /\ Downgrade[7][Fall(x)].k \in Taking
                 /\ Within(x, Downgrade[7][Fall(x)].o)
    BY <2>1 DEF Is, Fells, Born, Taking, Within, Extensions
  <2>5. \A x : Taken(x) = 7 => Back(x) \in 1..3 /\ Remakes(7, Back(x), x)
    BY DEF Taken
  <2> QED BY <1>7, <2>2, <2>3, <2>4, <2>5
<1>8. CASE r = 8
  <2>1. /\ Is(Downgrade[8][1], "commit", "block")
        /\ Fells(8, 2, "unindex", "ix_quarantined")
        /\ Fells(8, 3, "drop", "quarantine_reason")
        /\ Fells(8, 4, "drop", "quarantined_at")
        /\ Fells(8, 5, "drop", "pii_flags")
        /\ Fells(8, 6, "drop", "trust")
        /\ Fells(8, 7, "clear", "memory_trust_t")
    BY DEF Is, Fells, Returns, Born, Fall, Downgrade, Down8, Stmt, Commit
  <2>2. Len(Downgrade[8]) = 7
    BY DEF Downgrade, Down8, Stmt, Commit
  <2>3. \A i \in 1..7 : DownStep(8, i, Downgrade[8][i])
    BY <2>1 DEF Is, Fells, Returns, DownStep, Making, Taking, Swapped
  <2>4. \A x : Born(x) = 8 /\ x \notin Extensions
              => /\ Fall(x) \in 1..7 /\ Downgrade[8][Fall(x)].k \in Taking
                 /\ Within(x, Downgrade[8][Fall(x)].o)
    BY <2>1 DEF Is, Fells, Born, Taking, Within, Extensions
  <2>5. \A x : Taken(x) = 8 => Back(x) \in 1..7 /\ Remakes(8, Back(x), x)
    BY DEF Taken
  <2> QED BY <1>8, <2>2, <2>3, <2>4, <2>5
<1>9. CASE r = 9
  <2>1. /\ Returns(9, 1, "add", "quarantined_at")
        /\ Returns(9, 2, "add", "quarantine_reason")
        /\ Is(Downgrade[9][3], "carry", "rows")
        /\ Is(Downgrade[9][4], "commit", "block")
        /\ Returns(9, 5, "index", "ix_quarantined")
        /\ Fells(9, 6, "unindex", "ix_review_pending")
        /\ Fells(9, 7, "drop", "review_mode")
        /\ Fells(9, 8, "drop", "confidence")
        /\ Fells(9, 9, "drop", "reviewed_by")
        /\ Fells(9, 10, "drop", "reviewed_at")
        /\ Fells(9, 11, "drop", "review_reason")
        /\ Fells(9, 12, "drop", "review_status")
        /\ Fells(9, 13, "clear", "review_mode_t")
        /\ Fells(9, 14, "clear", "review_status_t")
    BY DEF Is, Fells, Returns, Born, Fall, Taken, Back, Downgrade, Down9, Stmt, Commit, Carry
  <2>2. Len(Downgrade[9]) = 14
    BY DEF Downgrade, Down9, Stmt, Commit, Carry
  <2>3. \A i \in 1..14 : DownStep(9, i, Downgrade[9][i])
    BY <2>1 DEF Is, Fells, Returns, DownStep, Making, Taking, Swapped
  <2>4. \A x : Born(x) = 9 /\ x \notin Extensions
              => /\ Fall(x) \in 1..14 /\ Downgrade[9][Fall(x)].k \in Taking
                 /\ Within(x, Downgrade[9][Fall(x)].o)
    BY <2>1 DEF Is, Fells, Born, Taking, Within, Extensions
  <2>5. \A x : Taken(x) = 9 => Back(x) \in 1..14 /\ Remakes(9, Back(x), x)
    BY <2>1 DEF Is, Returns, Remakes, Taken
  <2> QED BY <1>9, <2>2, <2>3, <2>4, <2>5
<1>10. CASE r = 10
  <2>1. /\ Is(Downgrade[10][1], "clear", "ix_tsv_gin")
        /\ Fells(10, 2, "drop", "tsv_by_config")
        /\ Returns(10, 3, "add", "tsv")
        /\ Returns(10, 4, "add", "ix_tsv_gin")
        /\ Is(Downgrade[10][5], "clear", "ix_chunk_tsv_gin")
        /\ Fells(10, 6, "drop", "chunk_tsv_by_config")
        /\ Returns(10, 7, "add", "chunk_tsv")
        /\ Returns(10, 8, "add", "ix_chunk_tsv_gin")
        /\ Fells(10, 9, "drop", "ts_config")
        /\ Fells(10, 10, "drop", "chunk_ts_config")
        /\ Fells(10, 11, "drop", "text_search_config")
    BY DEF Is, Fells, Returns, Born, Fall, Taken, Back, Downgrade, Down10, SwapTsv, Stmt
  <2>2. Len(Downgrade[10]) = 11
    BY DEF Downgrade, Down10, SwapTsv, Stmt
  <2>3. \A i \in 1..11 : DownStep(10, i, Downgrade[10][i])
    BY <2>1 DEF Is, Fells, Returns, DownStep, Making, Taking, Swapped, Back
  <2>4. \A x : Born(x) = 10 /\ x \notin Extensions
              => /\ Fall(x) \in 1..11 /\ Downgrade[10][Fall(x)].k \in Taking
                 /\ Within(x, Downgrade[10][Fall(x)].o)
    BY <2>1 DEF Is, Fells, Born, Taking, Within, Extensions
  <2>5. \A x : Taken(x) = 10 => Back(x) \in 1..11 /\ Remakes(10, Back(x), x)
    BY <2>1 DEF Is, Returns, Remakes, Taken
  <2> QED BY <1>10, <2>2, <2>3, <2>4, <2>5
<1>11. CASE r = 11
  <2>1. /\ Fells(11, 1, "clear", "audit_log_append_only")
        /\ Fells(11, 2, "clear", "audit_guard")
        /\ Fells(11, 3, "drop", "ix_audit_log_org_id_desc")
        /\ Fells(11, 4, "drop", "prev_hash")
        /\ Fells(11, 5, "drop", "entry_hash")
    BY DEF Is, Fells, Returns, Born, Fall, Downgrade, Down11, Stmt
  <2>2. Len(Downgrade[11]) = 5
    BY DEF Downgrade, Down11, Stmt
  <2>3. \A i \in 1..5 : DownStep(11, i, Downgrade[11][i])
    BY <2>1 DEF Is, Fells, Returns, DownStep, Making, Taking, Swapped
  <2>4. \A x : Born(x) = 11 /\ x \notin Extensions
              => /\ Fall(x) \in 1..5 /\ Downgrade[11][Fall(x)].k \in Taking
                 /\ Within(x, Downgrade[11][Fall(x)].o)
    BY <2>1 DEF Is, Fells, Born, Taking, Within, Extensions
  <2>5. \A x : Taken(x) = 11 => Back(x) \in 1..5 /\ Remakes(11, Back(x), x)
    BY DEF Taken
  <2> QED BY <1>11, <2>2, <2>3, <2>4, <2>5
<1> QED BY <1>1, <1>2, <1>3, <1>4, <1>5, <1>6, <1>7, <1>8, <1>9, <1>10, <1>11 DEF Latest

-----------------------------------------------------------------------------
(* An object is made after what it is part of and what it uses, and goes   *)
(* no later.                                                               *)
Inside(x, p) ==
  /\ PartOf(x) = p /\ Born(p) # 0
  /\ Born(p) < Born(x) \/ (Born(p) = Born(x) /\ Spot(p) < Spot(x) /\ Fall(x) <= Fall(p))
  /\ x = "ix_quarantined" \/ Taken(p) = 0

Needs(x, u) ==
  /\ Born(u) # 0 /\ Taken(u) = 0 /\ Taken(x) = 0
  /\ Born(u) < Born(x) \/ (Born(u) = Born(x) /\ Spot(u) < Spot(x))
  /\ u \in Extensions \/ Born(u) < Born(x) \/ Fall(x) < Fall(u)
  /\ PartOf(u) = "database" \/ (PartOf(u) = PartOf(x) /\ PartOf(PartOf(u)) = "database")

LEMMA Parts ==
  ASSUME NEW x, PartOf(x) # "database"
  PROVE  Inside(x, PartOf(x))
<1>1. /\ Inside("email_verified", "users")
      /\ Inside("review_mode", "projects")
      /\ Inside("text_search_config", "projects")
      /\ Inside("entry_hash", "audit_log")
      /\ Inside("prev_hash", "audit_log")
      /\ Inside("ix_audit_log_org_id_desc", "audit_log")
      /\ Inside("audit_log_append_only", "audit_log")
      /\ Inside("chunk_ts_config", "attachment_chunks")
      /\ Inside("chunk_tsv", "attachment_chunks")
      /\ Inside("chunk_tsv_by_config", "attachment_chunks")
      /\ Inside("ix_chunk_tsv_gin", "attachment_chunks")
      /\ Inside("ix_chunk_hnsw", "attachment_chunks")
      /\ Inside("ix_tsv_gin", "memories")
      /\ Inside("ix_body_trgm", "memories")
      /\ Inside("ix_hnsw", "memories")
      /\ Inside("tsv", "memories")
      /\ Inside("tsv_by_config", "memories")
      /\ Inside("ts_config", "memories")
      /\ Inside("conflict_checked_at", "memories")
      /\ Inside("embed_attempts", "memories")
      /\ Inside("embed_error", "memories")
      /\ Inside("embed_failed_at", "memories")
      /\ Inside("embed_next_attempt_at", "memories")
      /\ Inside("content_hash", "memories")
      /\ Inside("trust", "memories")
      /\ Inside("pii_flags", "memories")
      /\ Inside("quarantined_at", "memories")
      /\ Inside("quarantine_reason", "memories")
      /\ Inside("review_status", "memories")
      /\ Inside("review_reason", "memories")
      /\ Inside("reviewed_at", "memories")
      /\ Inside("reviewed_by", "memories")
      /\ Inside("confidence", "memories")
      /\ Inside("ix_conflict_pending", "conflict_checked_at")
      /\ Inside("ix_embed_failed", "embed_failed_at")
      /\ Inside("ix_content_hash", "content_hash")
      /\ Inside("ix_quarantined", "quarantined_at")
      /\ Inside("ix_review_pending", "review_status")
  BY DEF Inside, PartOf, Born, Spot, Fall, Taken
<1>2. x \in {"email_verified", "review_mode", "text_search_config", "entry_hash", "prev_hash",
             "ix_audit_log_org_id_desc", "audit_log_append_only", "chunk_ts_config", "chunk_tsv",
             "chunk_tsv_by_config", "ix_chunk_tsv_gin", "ix_chunk_hnsw", "ix_tsv_gin",
             "ix_body_trgm", "ix_hnsw", "tsv", "tsv_by_config", "ts_config",
             "conflict_checked_at", "embed_attempts", "embed_error", "embed_failed_at",
             "embed_next_attempt_at", "content_hash", "trust", "pii_flags", "quarantined_at",
             "quarantine_reason", "review_status", "review_reason", "reviewed_at", "reviewed_by",
             "confidence", "ix_conflict_pending", "ix_embed_failed", "ix_content_hash",
             "ix_quarantined", "ix_review_pending"}
  BY DEF PartOf
<1> QED BY <1>1, <1>2 DEF Inside

LEMMA Requirements ==
  ASSUME NEW x, NEW u \in Uses(x)
  PROVE  Needs(x, u)
<1>1. CASE x = "workspaces"
  <2>1. /\ Needs("workspaces", "orgs")
    BY DEF Needs, Extensions, PartOf, Born, Spot, Fall, Taken
  <2> QED BY <1>1, <2>1 DEF Uses
<1>2. CASE x = "projects"
  <2>1. /\ Needs("projects", "orgs")
        /\ Needs("projects", "workspaces")
    BY DEF Needs, Extensions, PartOf, Born, Spot, Fall, Taken
  <2> QED BY <1>2, <2>1 DEF Uses
<1>3. CASE x = "users"
  <2>1. /\ Needs("users", "citext")
    BY DEF Needs, Extensions, PartOf, Born, Spot, Fall, Taken
  <2> QED BY <1>3, <2>1 DEF Uses
<1>4. CASE x = "memberships"
  <2>1. /\ Needs("memberships", "users")
        /\ Needs("memberships", "scope_t")
        /\ Needs("memberships", "role_t")
    BY DEF Needs, Extensions, PartOf, Born, Spot, Fall, Taken
  <2> QED BY <1>4, <2>1 DEF Uses
<1>5. CASE x = "api_keys"
  <2>1. /\ Needs("api_keys", "orgs")
        /\ Needs("api_keys", "users")
        /\ Needs("api_keys", "scope_t")
    BY DEF Needs, Extensions, PartOf, Born, Spot, Fall, Taken
  <2> QED BY <1>5, <2>1 DEF Uses
<1>6. CASE x = "jwt_revocations"
  <2>1. /\ Needs("jwt_revocations", "users")
    BY DEF Needs, Extensions, PartOf, Born, Spot, Fall, Taken
  <2> QED BY <1>6, <2>1 DEF Uses
<1>7. CASE x = "audit_log"
  <2>1. /\ Needs("audit_log", "orgs")
        /\ Needs("audit_log", "actor_t")
    BY DEF Needs, Extensions, PartOf, Born, Spot, Fall, Taken
  <2> QED BY <1>7, <2>1 DEF Uses
<1>8. CASE x = "sessions"
  <2>1. /\ Needs("sessions", "orgs")
        /\ Needs("sessions", "projects")
        /\ Needs("sessions", "agent_t")
    BY DEF Needs, Extensions, PartOf, Born, Spot, Fall, Taken
  <2> QED BY <1>8, <2>1 DEF Uses
<1>9. CASE x = "conversations"
  <2>1. /\ Needs("conversations", "orgs")
        /\ Needs("conversations", "sessions")
        /\ Needs("conversations", "vector")
    BY DEF Needs, Extensions, PartOf, Born, Spot, Fall, Taken
  <2> QED BY <1>9, <2>1 DEF Uses
<1>10. CASE x = "messages"
  <2>1. /\ Needs("messages", "orgs")
        /\ Needs("messages", "conversations")
        /\ Needs("messages", "message_role_t")
    BY DEF Needs, Extensions, PartOf, Born, Spot, Fall, Taken
  <2> QED BY <1>10, <2>1 DEF Uses
<1>11. CASE x = "memories"
  <2>1. /\ Needs("memories", "orgs")
        /\ Needs("memories", "users")
        /\ Needs("memories", "scope_t")
        /\ Needs("memories", "memory_source_t")
        /\ Needs("memories", "memory_kind_t")
        /\ Needs("memories", "memory_tier_t")
        /\ Needs("memories", "sensitivity_t")
        /\ Needs("memories", "vector")
    BY DEF Needs, Extensions, PartOf, Born, Spot, Fall, Taken
  <2> QED BY <1>11, <2>1 DEF Uses
<1>12. CASE x = "ix_body_trgm"
  <2>1. /\ Needs("ix_body_trgm", "pg_trgm")
    BY DEF Needs, Extensions, PartOf, Born, Spot, Fall, Taken
  <2> QED BY <1>12, <2>1 DEF Uses
<1>13. CASE x = "memory_links"
  <2>1. /\ Needs("memory_links", "memories")
        /\ Needs("memory_links", "link_t")
    BY DEF Needs, Extensions, PartOf, Born, Spot, Fall, Taken
  <2> QED BY <1>13, <2>1 DEF Uses
<1>14. CASE x = "attachments"
  <2>1. /\ Needs("attachments", "orgs")
        /\ Needs("attachments", "users")
        /\ Needs("attachments", "scope_t")
        /\ Needs("attachments", "sensitivity_t")
        /\ Needs("attachments", "attachment_status_t")
    BY DEF Needs, Extensions, PartOf, Born, Spot, Fall, Taken
  <2> QED BY <1>14, <2>1 DEF Uses
<1>15. CASE x = "attachment_chunks"
  <2>1. /\ Needs("attachment_chunks", "orgs")
        /\ Needs("attachment_chunks", "attachments")
        /\ Needs("attachment_chunks", "vector")
    BY DEF Needs, Extensions, PartOf, Born, Spot, Fall, Taken
  <2> QED BY <1>15, <2>1 DEF Uses
<1>16. CASE x = "trust"
  <2>1. /\ Needs("trust", "memory_trust_t")
    BY DEF Needs, Extensions, PartOf, Born, Spot, Fall, Taken
  <2> QED BY <1>16, <2>1 DEF Uses
<1>17. CASE x = "review_status"
  <2>1. /\ Needs("review_status", "review_status_t")
    BY DEF Needs, Extensions, PartOf, Born, Spot, Fall, Taken
  <2> QED BY <1>17, <2>1 DEF Uses
<1>18. CASE x = "review_mode"
  <2>1. /\ Needs("review_mode", "review_mode_t")
    BY DEF Needs, Extensions, PartOf, Born, Spot, Fall, Taken
  <2> QED BY <1>18, <2>1 DEF Uses
<1>19. CASE x = "reviewed_by"
  <2>1. /\ Needs("reviewed_by", "users")
    BY DEF Needs, Extensions, PartOf, Born, Spot, Fall, Taken
  <2> QED BY <1>19, <2>1 DEF Uses
<1>20. CASE x = "tsv_by_config"
  <2>1. /\ Needs("tsv_by_config", "ts_config")
    BY DEF Needs, Extensions, PartOf, Born, Spot, Fall, Taken
  <2> QED BY <1>20, <2>1 DEF Uses
<1>21. CASE x = "chunk_tsv_by_config"
  <2>1. /\ Needs("chunk_tsv_by_config", "chunk_ts_config")
    BY DEF Needs, Extensions, PartOf, Born, Spot, Fall, Taken
  <2> QED BY <1>21, <2>1 DEF Uses
<1>22. CASE x = "audit_log_append_only"
  <2>1. /\ Needs("audit_log_append_only", "audit_guard")
    BY DEF Needs, Extensions, PartOf, Born, Spot, Fall, Taken
  <2> QED BY <1>22, <2>1 DEF Uses
<1> QED BY <1>1, <1>2, <1>3, <1>4, <1>5, <1>6, <1>7, <1>8, <1>9, <1>10, <1>11, <1>12, <1>13,
           <1>14, <1>15, <1>16, <1>17, <1>18, <1>19, <1>20, <1>21, <1>22 DEF Uses

LEMMA Domains ==
  ASSUME NEW r \in 1..Latest
  PROVE  /\ Len(Upgrade[r]) \in Nat /\ DOMAIN Upgrade[r] = 1..Len(Upgrade[r])
         /\ Len(Downgrade[r]) \in Nat /\ DOMAIN Downgrade[r] = 1..Len(Downgrade[r])
  BY UpgradeFacts, DowngradeFacts

LEMMA Numbers ==
  \A x : /\ Born(x) \in 0..Latest /\ Spot(x) \in Nat /\ Fall(x) \in Nat
         /\ Taken(x) \in 0..Latest /\ TakenAt(x) \in Nat /\ Back(x) \in Nat
  BY DEF Born, Spot, Fall, Taken, TakenAt, Back, Latest

LEMMA Known ==
  ASSUME NEW x, Born(x) # 0
  PROVE  /\ Born(x) \in 1..Latest /\ Spot(x) \in DOMAIN Upgrade[Born(x)]
         /\ Makes(Born(x), Spot(x), x) /\ x \in Objects
<1>1. Born(x) \in 1..Latest
  BY Numbers DEF Latest
<1>2. Spot(x) \in 1..Len(Upgrade[Born(x)]) /\ Makes(Born(x), Spot(x), x)
  BY <1>1, UpTable
<1>3. Upgrade[Born(x)][Spot(x)].o \in Objects
  BY <1>1, <1>2, StatementObjects
<1> QED BY <1>1, <1>2, <1>3, Domains DEF Makes

(* What an upgrade takes away came from an earlier one.                    *)
LEMMA Passing ==
  ASSUME NEW x, Taken(x) # 0
  PROVE  /\ Taken(x) \in 1..Latest /\ Born(x) # 0 /\ Born(x) < Taken(x)
         /\ x \in Swapped => Taken(x) = 10 /\ Back(x) > 3
<1>1. x \in {"ix_quarantined", "quarantine_reason", "quarantined_at", "ix_tsv_gin", "tsv",
            "ix_chunk_tsv_gin", "chunk_tsv"}
  BY DEF Taken
<1>2. /\ Born("ix_quarantined") = 8 /\ Born("quarantine_reason") = 8
      /\ Born("quarantined_at") = 8 /\ Born("ix_tsv_gin") = 2 /\ Born("tsv") = 2
      /\ Born("ix_chunk_tsv_gin") = 3 /\ Born("chunk_tsv") = 3
  BY DEF Born
<1> QED BY <1>1, <1>2 DEF Taken, Back, Swapped, Latest

LEMMA TakesWhere ==
  ASSUME NEW r \in 1..Latest, NEW j \in DOMAIN Upgrade[r], NEW x, Takes(r, j, x)
  PROVE  Taken(x) = r /\ TakenAt(x) <= j
<1> DEFINE s == Upgrade[r][j]
<1>1. j \in 1..Len(Upgrade[r]) /\ UpStep(r, j, s) /\ UpgradeFact(r, j, s)
  BY Domains, UpTable, UpgradeFacts
<1>2. s.k \in Taking /\ s.o \in Objects /\ x \in Whole[s.o]
  BY <1>1, StatementObjects DEF Takes, Taking
<1>3. Taken(s.o) = r /\ TakenAt(s.o) = j /\ s.o # "database"
  BY <1>1, <1>2 DEF UpStep, UpgradeFact
<1>4. x = s.o \/ PartOf(x) = s.o \/ PartOf(PartOf(x)) = s.o
  BY <1>2 DEF Whole
<1> HIDE DEF s
<1>5. r # 0
  BY DEF Latest
<1>6. CASE x = s.o
  BY <1>3, <1>6, Numbers
<1>7. CASE PartOf(x) = s.o
  <2>1. x = "ix_quarantined" /\ s.o = "quarantined_at"
    BY <1>3, <1>5, <1>7, Parts DEF Inside, PartOf
  <2> QED BY <1>3, <2>1 DEF Taken, TakenAt
<1>8. CASE PartOf(PartOf(x)) = s.o
  <2>1. PartOf(x) = "ix_quarantined"
    BY <1>3, <1>5, <1>8, Parts DEF Inside
  <2> QED BY <2>1 DEF PartOf
<1> QED BY <1>4, <1>6, <1>7, <1>8

LEMMA TakesThere ==
  ASSUME NEW x, Taken(x) # 0
  PROVE  /\ Taken(x) \in 1..Latest /\ TakenAt(x) \in DOMAIN Upgrade[Taken(x)]
         /\ Takes(Taken(x), TakenAt(x), x)
<1>1. Taken(x) \in 1..Latest /\ x \in Objects
  BY Passing, Known
<1>2. /\ TakenAt(x) \in 1..Len(Upgrade[Taken(x)]) /\ Upgrade[Taken(x)][TakenAt(x)].k \in Taking
      /\ Upgrade[Taken(x)][TakenAt(x)].o = x
  BY <1>1, UpTable
<1>3. x \in Whole[x]
  BY <1>1 DEF Whole
<1> QED BY <1>1, <1>2, <1>3, Domains DEF Takes, Taking

LEMMA RemovesWhere ==
  ASSUME NEW r \in 1..Latest, NEW j \in DOMAIN Downgrade[r], NEW x, Removes(r, j, x)
  PROVE  \/ Born(x) > r
         \/ Born(x) = r /\ Fall(x) <= j
         \/ x \in Swapped /\ r = 10 /\ j = Back(x) - 3
<1> DEFINE s == Downgrade[r][j]
<1>1. j \in 1..Len(Downgrade[r]) /\ DownStep(r, j, s) /\ DowngradeFact(r, j, s)
  BY Domains, DownTable, DowngradeFacts
<1>2. s.k \in Taking /\ s.o \in Objects /\ x \in Whole[s.o]
  BY <1>1, StatementObjects DEF Removes, Taking
<1>3. /\ s.o # "database"
      /\ \/ Born(s.o) = r /\ Fall(s.o) = j
         \/ r = 10 /\ s.o \in Swapped /\ j = Back(s.o) - 3
  BY <1>1, <1>2 DEF DownStep, DowngradeFact
<1>4. x = s.o \/ PartOf(x) = s.o \/ PartOf(PartOf(x)) = s.o
  BY <1>2 DEF Whole
<1> HIDE DEF s
<1>5. PartOf(x) \notin Swapped /\ PartOf(PartOf(x)) \notin Swapped
  BY DEF PartOf, Swapped
<1>6. CASE x = s.o
  BY <1>3, <1>6, Numbers
<1>7. CASE PartOf(x) = s.o
  <2>1. Inside(x, PartOf(x)) /\ Born(PartOf(x)) = r /\ Fall(PartOf(x)) = j
    BY <1>3, <1>5, <1>7, Parts
  <2> QED BY <2>1, Numbers DEF Inside
<1>8. CASE PartOf(PartOf(x)) = s.o
  <2>1. PartOf("database") = "database"
    BY DEF PartOf
  <2>2. /\ Inside(PartOf(x), PartOf(PartOf(x))) /\ Inside(x, PartOf(x))
        /\ Born(PartOf(PartOf(x))) = r /\ Fall(PartOf(PartOf(x))) = j
    BY <1>3, <1>5, <1>8, <2>1, Parts
  <2> QED BY <2>2, Numbers DEF Inside
<1> QED BY <1>4, <1>6, <1>7, <1>8

LEMMA RemovesThere ==
  ASSUME NEW r \in 1..Latest, NEW x, Born(x) = r, x \notin Extensions
  PROVE  Fall(x) \in DOMAIN Downgrade[r] /\ Removes(r, Fall(x), x)
<1>1. /\ Fall(x) \in 1..Len(Downgrade[r]) /\ Downgrade[r][Fall(x)].k \in Taking
      /\ Within(x, Downgrade[r][Fall(x)].o)
  BY DownTable
<1>2. Born(x) # 0
  BY DEF Latest
<1>3. x \in Objects /\ Downgrade[r][Fall(x)].o \in Objects
  BY <1>1, <1>2, Known, StatementObjects
<1> QED BY <1>1, <1>3, Domains DEF Removes, Taking, Within, Whole

(* Who uses an object, or a part of it, is made after it and goes before   *)
(* it, or with it.                                                         *)
LEMMA UsersFirst ==
  ASSUME NEW o \in Objects, o # "database", NEW x \in Users[o]
  PROVE  /\ x \in Objects /\ Uses(x) # {} /\ Taken(x) = 0 /\ Taken(o) = 0
         /\ \/ o \in Extensions \/ Born(o) < Born(x)
            \/ Born(o) = Born(x) /\ Fall(x) < Fall(o)
<1>1. PICK u \in Uses(x) : u \in Whole[o]
  BY DEF Users
<1>2. x \in Objects /\ x \notin Whole[o]
  BY DEF Users
<1>3. u = o \/ PartOf(u) = o \/ PartOf(PartOf(u)) = o
  BY <1>1 DEF Whole
<1>4. Needs(x, u)
  BY <1>1, Requirements
<1>5. PartOf("database") = "database"
  BY DEF PartOf
<1>6. PartOf(x) # o
  BY <1>2 DEF Whole
<1>7. u = o
  BY <1>3, <1>4, <1>5, <1>6 DEF Needs
<1> QED BY <1>1, <1>2, <1>4, <1>7, Numbers DEF Needs

(* The objects after the statements before the i-th of a migration.        *)
Ahead(p, k, r, i) == p < r \/ (p = r /\ k < i)

Stands(o, p, k, r, i) ==
  /\ Ahead(p, k, r, i) /\ Makes(p, k, o)
  /\ \A q \in p..r : \A j \in DOMAIN Upgrade[q] :
       Takes(q, j, o) /\ Ahead(q, j, r, i) => q = p /\ j < k

Raised(r, i) ==
  {o \in Objects : \E p \in 1..r : \E k \in DOMAIN Upgrade[p] : Stands(o, p, k, r, i)}

Untouched(o, r, i) == \A j \in DOMAIN Downgrade[r] : j < i => ~Removes(r, j, o)

Returned(o, k, r, i) ==
  /\ k < i /\ Remakes(r, k, o)
  /\ \A j \in DOMAIN Downgrade[r] : k < j /\ j < i => ~Removes(r, j, o)

Lowered(r, i) ==
  {o \in Objects : \/ o \in Schemas[r] /\ Untouched(o, r, i)
                  \/ \E k \in DOMAIN Downgrade[r] : Returned(o, k, r, i)}

(* A statement of an upgrade moves on to the next set.                     *)
LEMMA RaisesBy ==
  ASSUME NEW r \in 1..Latest, NEW i \in DOMAIN Upgrade[r]
  PROVE  /\ Upgrade[r][i].k \in Making => Raised(r, i + 1) = Raised(r, i) \cup {Upgrade[r][i].o}
         /\ Upgrade[r][i].k \in Taking => Raised(r, i + 1) = Raised(r, i) \ Whole[Upgrade[r][i].o]
         /\ Upgrade[r][i].k \notin Making \cup Taking => Raised(r, i + 1) = Raised(r, i)
<1>0. r \in Nat /\ r \in 1..r /\ \A q \in 1..r : q \in 1..Latest
  BY DEF Latest
<1>1. i \in Nat /\ r \in Nat /\ r \in 1..r /\ Upgrade[r][i].o \in Objects
  BY <1>0, Domains, StatementObjects
<1>2. \A q \in 1..r : DOMAIN Upgrade[q] \subseteq Nat
  BY <1>0, Domains
<1>3. ASSUME NEW x, NEW p \in 1..r, NEW k \in DOMAIN Upgrade[p]
      PROVE  Stands(x, p, k, r, i + 1) <=>
               /\ (Stands(x, p, k, r, i) \/ (p = r /\ k = i /\ Makes(r, i, x)))
               /\ ~Takes(r, i, x)
  <2>1. \A q \in 1..r : \A j \in DOMAIN Upgrade[q] :
          Ahead(q, j, r, i + 1) <=> Ahead(q, j, r, i) \/ (q = r /\ j = i)
    BY <1>1, <1>2 DEF Ahead
  <2>2. k \in Nat /\ Ahead(p, k, r, i) => ~(p = r /\ k >= i)
    BY <1>1, <1>2 DEF Ahead
  <2>3. p..r \subseteq 1..r /\ r \in p..r
    BY <1>1
  <2>4. Makes(r, i, x) => ~Takes(r, i, x)
    BY DEF Makes, Takes
  <2>5. ASSUME Stands(x, p, k, r, i + 1)
        PROVE  (Stands(x, p, k, r, i) \/ (p = r /\ k = i /\ Makes(r, i, x))) /\ ~Takes(r, i, x)
    <3>1. Ahead(p, k, r, i) \/ (p = r /\ k = i)
      BY <2>1, <2>5 DEF Stands
    <3>2. ~Takes(r, i, x)
      <4>1. Ahead(r, i, r, i + 1)
        BY <1>1 DEF Ahead
      <4>2. Takes(r, i, x) => r = p /\ i < k
        BY <2>3, <2>5, <4>1 DEF Stands
      <4> QED BY <1>1, <1>2, <3>1, <4>2 DEF Ahead
    <3> QED BY <2>1, <2>3, <2>5, <3>1, <3>2 DEF Stands
  <2>6. ASSUME Stands(x, p, k, r, i), ~Takes(r, i, x) PROVE Stands(x, p, k, r, i + 1)
    BY <2>1, <2>3, <2>6 DEF Stands
  <2>7. ASSUME p = r, k = i, Makes(r, i, x) PROVE Stands(x, p, k, r, i + 1)
    BY <1>1, <1>2, <2>3, <2>4, <2>7 DEF Stands, Ahead
  <2> QED BY <2>4, <2>5, <2>6, <2>7
<1>4. ASSUME NEW x \in Objects
      PROVE  x \in Raised(r, i + 1) <=> (x \in Raised(r, i) \/ Makes(r, i, x)) /\ ~Takes(r, i, x)
  BY <1>1, <1>3 DEF Raised, Makes, Takes
<1>5. Raised(r, i) \subseteq Objects /\ Raised(r, i + 1) \subseteq Objects
  BY DEF Raised
<1> QED BY <1>1, <1>4, <1>5 DEF Makes, Takes, Making, Taking

LEMMA LowersBy ==
  ASSUME NEW r \in 1..Latest, NEW i \in DOMAIN Downgrade[r]
  PROVE  /\ Downgrade[r][i].k \in Making => Lowered(r, i + 1) = Lowered(r, i) \cup {Downgrade[r][i].o}
         /\ Downgrade[r][i].k \in Taking => Lowered(r, i + 1) = Lowered(r, i) \ Whole[Downgrade[r][i].o]
         /\ Downgrade[r][i].k \notin Making \cup Taking => Lowered(r, i + 1) = Lowered(r, i)
<1>1. i \in Nat /\ Downgrade[r][i].o \in Objects /\ DOMAIN Downgrade[r] \subseteq Nat
  BY Domains, StatementObjects
<1>2. \A x : Untouched(x, r, i + 1) <=> Untouched(x, r, i) /\ ~Removes(r, i, x)
  BY <1>1 DEF Untouched
<1>3. ASSUME NEW x, NEW k \in DOMAIN Downgrade[r]
      PROVE  Returned(x, k, r, i + 1)
             <=> \/ (Returned(x, k, r, i) /\ ~Removes(r, i, x))
                 \/ (k = i /\ Remakes(r, i, x))
  BY <1>1 DEF Returned
<1>4. \A x : Remakes(r, i, x) => ~Removes(r, i, x)
  BY DEF Remakes, Removes
<1>5. ASSUME NEW x \in Objects
      PROVE  x \in Lowered(r, i + 1) <=> (x \in Lowered(r, i) \/ Remakes(r, i, x)) /\ ~Removes(r, i, x)
  BY <1>2, <1>3, <1>4 DEF Lowered
<1>6. Lowered(r, i) \subseteq Objects /\ Lowered(r, i + 1) \subseteq Objects
  BY DEF Lowered
<1> QED BY <1>1, <1>5, <1>6 DEF Remakes, Removes, Making, Taking

(* A migration starts at the schema of one revision and ends at the next.  *)
LEMMA RaisesTo ==
  ASSUME NEW r \in 1..Latest
  PROVE  /\ Raised(r, 1) = Schemas[r - 1]
         /\ \A i \in Nat : i > Len(Upgrade[r]) => Raised(r, i) = Schemas[r]
<1>1. r \in Nat /\ r - 1 \in 0..Latest /\ r \in 0..Latest /\ 1..(r - 1) \subseteq 1..r /\ Latest \in Nat
  BY DEF Latest
<1>2. \A q \in 1..r : DOMAIN Upgrade[q] = 1..Len(Upgrade[q]) /\ Len(Upgrade[q]) \in Nat
  BY Domains, <1>1
<1>3. Schemas[r - 1] = SchemaAt(r - 1) /\ Schemas[r] = SchemaAt(r)
  BY <1>1 DEF Schemas
<1>4. Raised(r, 1) = SchemaAt(r - 1)
  <2>1. \A q \in 1..r : \A j \in DOMAIN Upgrade[q] : Ahead(q, j, r, 1) <=> q < r
    BY <1>1, <1>2 DEF Ahead
  <2>2. \A p \in 1..r : \A q : q \in p..(r - 1) <=> q \in p..r /\ q < r
    BY <1>1
  <2>3. \A p \in 1..r : \A q \in p..r : q \in 1..r
    BY <1>1
  <2>4. \A p : p \in 1..(r - 1) <=> p \in 1..r /\ p < r
    BY <1>1
  <2>5. ASSUME NEW x, NEW p \in 1..r, p < r, NEW k \in DOMAIN Upgrade[p]
        PROVE  Stands(x, p, k, r, 1) <=>
                 /\ Makes(p, k, x)
                 /\ \A q \in p..(r - 1) : \A j \in DOMAIN Upgrade[q] :
                      Takes(q, j, x) => q = p /\ j < k
    BY <2>1, <2>2, <2>3, <2>5 DEF Stands
  <2>6. ASSUME NEW x, NEW k \in DOMAIN Upgrade[r] PROVE ~Stands(x, r, k, r, 1)
    BY <1>1, <2>1 DEF Stands
  <2>7. \A p \in 1..r : p < r \/ p = r
    BY <1>1
  <2>8. ASSUME NEW x \in Objects PROVE x \in Raised(r, 1) <=> x \in SchemaAt(r - 1)
    <3> DEFINE Kept(p, k) ==
                 /\ Makes(p, k, x)
                 /\ \A q \in p..(r - 1) : \A j \in DOMAIN Upgrade[q] :
                      Takes(q, j, x) => q = p /\ j < k
    <3>1. x \in SchemaAt(r - 1) <=> \E p \in 1..(r - 1) : \E k \in DOMAIN Upgrade[p] : Kept(p, k)
      BY DEF SchemaAt
    <3>2. ASSUME NEW p \in 1..r, p < r, NEW k \in DOMAIN Upgrade[p]
          PROVE  Stands(x, p, k, r, 1) <=> Kept(p, k)
      BY <2>5, <3>2
    <3> HIDE DEF Kept
    <3>3. ASSUME x \in Raised(r, 1) PROVE x \in SchemaAt(r - 1)
      <4>1. PICK p \in 1..r : \E k \in DOMAIN Upgrade[p] : Stands(x, p, k, r, 1)
        BY <3>3 DEF Raised
      <4>2. PICK k \in DOMAIN Upgrade[p] : Stands(x, p, k, r, 1)
        BY <4>1
      <4>3. p < r /\ p \in 1..(r - 1)
        BY <2>4, <2>6, <2>7, <4>2
      <4>4. Kept(p, k)
        BY <3>2, <4>2, <4>3
      <4> QED BY <3>1, <4>3, <4>4
    <3>4. ASSUME x \in SchemaAt(r - 1) PROVE x \in Raised(r, 1)
      <4>1. PICK p \in 1..(r - 1) : \E k \in DOMAIN Upgrade[p] : Kept(p, k)
        BY <3>1, <3>4
      <4>2. PICK k \in DOMAIN Upgrade[p] : Kept(p, k)
        BY <4>1
      <4>3. p \in 1..r /\ p < r
        BY <2>4
      <4>4. Stands(x, p, k, r, 1)
        BY <3>2, <4>2, <4>3
      <4> QED BY <4>3, <4>4 DEF Raised
    <3> QED BY <3>3, <3>4
  <2> QED BY <2>8 DEF Raised, SchemaAt
<1>5. ASSUME NEW i \in Nat, i > Len(Upgrade[r]) PROVE Raised(r, i) = SchemaAt(r)
  <2>1. \A q \in 1..r : \A j \in DOMAIN Upgrade[q] : Ahead(q, j, r, i)
    BY <1>1, <1>2, <1>5 DEF Ahead
  <2>2. \A p \in 1..r : \A q \in p..r : q \in 1..r
    BY <1>1
  <2>3. ASSUME NEW x, NEW p \in 1..r, NEW k \in DOMAIN Upgrade[p]
        PROVE  Stands(x, p, k, r, i) <=>
                 /\ Makes(p, k, x)
                 /\ \A q \in p..r : \A j \in DOMAIN Upgrade[q] : Takes(q, j, x) => q = p /\ j < k
    BY <2>1, <2>2 DEF Stands
  <2> QED BY <2>3 DEF Raised, SchemaAt
<1> QED BY <1>3, <1>4, <1>5

(* Membership by the tables.                                               *)
LEMMA StandsThen ==
  ASSUME NEW r \in 1..Latest, NEW i \in Nat, NEW x, Born(x) # 0,
         Born(x) < r \/ (Born(x) = r /\ Spot(x) < i),
         Taken(x) = 0 \/ Taken(x) > r \/ (Taken(x) = r /\ i <= TakenAt(x))
  PROVE  x \in Raised(r, i)
<1>1. /\ Born(x) \in 1..Latest /\ Spot(x) \in DOMAIN Upgrade[Born(x)]
      /\ Makes(Born(x), Spot(x), x) /\ x \in Objects
  BY Known
<1>2. Born(x) \in 1..r /\ r \in Nat /\ Latest \in Nat /\ Ahead(Born(x), Spot(x), r, i)
  BY <1>1 DEF Latest, Ahead
<1>3. ASSUME NEW q \in Born(x)..r, NEW j \in DOMAIN Upgrade[q], Takes(q, j, x), Ahead(q, j, r, i)
      PROVE  FALSE
  <2>1. q \in 1..Latest
    BY <1>1, <1>2
  <2>2. j \in Nat
    BY <2>1, Domains
  <2>3. Taken(x) = q /\ TakenAt(x) <= j
    BY <1>3, <2>1, TakesWhere
  <2> QED BY <1>2, <1>3, <2>1, <2>2, <2>3, Numbers DEF Ahead
<1> QED BY <1>1, <1>2, <1>3 DEF Raised, Stands

LEMMA ThenStands ==
  ASSUME NEW r \in 1..Latest, NEW i \in Nat, NEW x \in Raised(r, i)
  PROVE  /\ Born(x) # 0 /\ x \in Objects
         /\ Born(x) < r \/ (Born(x) = r /\ Spot(x) < i)
<1>1. PICK p \in 1..r : \E k \in DOMAIN Upgrade[p] : Stands(x, p, k, r, i)
  BY DEF Raised
<1>0. PICK k \in DOMAIN Upgrade[p] : Stands(x, p, k, r, i)
  BY <1>1
<1>2. p \in 1..Latest /\ r \in Nat
  BY DEF Latest
<1>3. k \in 1..Len(Upgrade[p]) /\ UpStep(p, k, Upgrade[p][k]) /\ Upgrade[p][k].k \in Making
      /\ Upgrade[p][k].o = x
  BY <1>0, <1>2, Domains, UpTable DEF Stands, Makes, Making
<1>4. CASE Born(x) = p /\ Spot(x) = k
  BY <1>0, <1>2, <1>4 DEF Stands, Ahead, Raised
<1>5. CASE p = 10 /\ x \in Swapped
  <2>1. Taken(x) = 10
    BY <1>5 DEF Swapped, Taken
  <2>2. Born(x) # 0 /\ Born(x) < 10
    BY <2>1, Passing
  <2> QED BY <1>5, <1>2, <2>2, Numbers DEF Raised
<1> QED BY <1>3, <1>4, <1>5 DEF UpStep

LEMMA SchemaThen ==
  ASSUME NEW r \in 0..Latest, NEW x \in Schemas[r]
  PROVE  r # 0 /\ Born(x) # 0 /\ Born(x) <= r /\ x \in Objects
<1>1. Schemas[r] = SchemaAt(r)
  BY DEF Schemas
<1>2. r # 0 /\ r \in 1..Latest
  BY <1>1 DEF SchemaAt, Latest
<1>3. Len(Upgrade[r]) + 1 \in Nat /\ Len(Upgrade[r]) + 1 > Len(Upgrade[r])
  BY <1>2, Domains
<1>4. x \in Raised(r, Len(Upgrade[r]) + 1)
  BY <1>2, <1>3, RaisesTo
<1>5. Born(x) # 0 /\ x \in Objects /\ (Born(x) < r \/ Born(x) = r)
  BY <1>2, <1>3, <1>4, ThenStands
<1> QED BY <1>2, <1>5, Numbers DEF Latest

LEMMA ThenSchema ==
  ASSUME NEW r \in 1..Latest, NEW x, Born(x) # 0, Born(x) <= r, Taken(x) = 0 \/ Taken(x) > r
  PROVE  x \in Schemas[r]
<1>1. Len(Upgrade[r]) + 1 \in Nat /\ Len(Upgrade[r]) + 1 > Len(Upgrade[r])
  BY Domains
<1>2. Born(x) = r => Spot(x) < Len(Upgrade[r]) + 1
  BY Known, Domains, Numbers
<1>3. Born(x) < r \/ Born(x) = r
  BY Numbers DEF Latest
<1>4. x \in Raised(r, Len(Upgrade[r]) + 1)
  BY <1>1, <1>2, <1>3, StandsThen
<1> QED BY <1>1, <1>4, RaisesTo

(* An object that is in two schemas in a row, or came back.                *)
LEMMA SchemaMaker ==
  ASSUME NEW r \in 1..Latest, NEW x \in Schemas[r]
  PROVE  \/ x \in Schemas[r - 1] /\ Taken(x) # r
         \/ Born(x) = r
         \/ r = 10 /\ x \in Swapped /\ x \in Schemas[r - 1]
<1>1. r \in Nat /\ r - 1 \in 0..Latest /\ r \in 0..Latest /\ Latest \in Nat
  BY DEF Latest
<1>2. Schemas[r - 1] = SchemaAt(r - 1) /\ Schemas[r] = SchemaAt(r)
  BY <1>1 DEF Schemas
<1>3. PICK p \in 1..r : \E k \in DOMAIN Upgrade[p] :
        /\ Makes(p, k, x)
        /\ \A q \in p..r : \A j \in DOMAIN Upgrade[q] : Takes(q, j, x) => q = p /\ j < k
  BY <1>2 DEF SchemaAt
<1>4. PICK k \in DOMAIN Upgrade[p] :
        /\ Makes(p, k, x)
        /\ \A q \in p..r : \A j \in DOMAIN Upgrade[q] : Takes(q, j, x) => q = p /\ j < k
  BY <1>3
<1>5. p \in 1..Latest /\ x \in Objects
  BY <1>1, <1>2 DEF SchemaAt
<1>6. CASE p < r
  <2>1. p \in 1..(r - 1) /\ p..(r - 1) \subseteq p..r /\ r \in p..r
    BY <1>1, <1>6
  <2>2. x \in SchemaAt(r - 1)
    BY <1>4, <1>5, <2>1 DEF SchemaAt
  <2>3. Taken(x) # r
    <3>1. ASSUME Taken(x) = r PROVE FALSE
      <4>1. Taken(x) # 0
        BY <1>1, <3>1 DEF Latest
      <4>2. TakenAt(x) \in DOMAIN Upgrade[r] /\ Takes(r, TakenAt(x), x)
        BY <4>1, <3>1, TakesThere
      <4> QED BY <1>1, <1>4, <1>6, <2>1, <4>2
    <3> QED BY <3>1
  <2> QED BY <1>2, <2>2, <2>3
<1>7. CASE p = r
  <2>1. UpStep(r, k, Upgrade[r][k]) /\ Upgrade[r][k].k \in Making /\ Upgrade[r][k].o = x
    BY <1>4, <1>7, Domains, UpTable DEF Makes, Making
  <2>2. CASE Born(x) = r
    BY <2>2
  <2>3. CASE r = 10 /\ x \in Swapped
    <3>1. Taken(x) = 10
      BY <2>3 DEF Swapped, Taken
    <3>2. Born(x) # 0 /\ Born(x) < 10
      BY <3>1, Passing
    <3>3. 9 \in 1..Latest /\ Born(x) <= 9 /\ r - 1 = 9
      BY <2>3, <3>2, Numbers DEF Latest
    <3> QED BY <2>3, <3>1, <3>2, <3>3, ThenSchema
  <2> QED BY <2>1, <2>2, <2>3 DEF UpStep
<1> QED BY <1>1, <1>6, <1>7

LEMMA SchemaStays ==
  ASSUME NEW r \in 1..Latest, NEW x \in Schemas[r - 1], Taken(x) # r
  PROVE  x \in Schemas[r]
<1>1. r \in Nat /\ r - 1 \in 0..Latest /\ r \in 0..Latest /\ Latest \in Nat
  BY DEF Latest
<1>2. Schemas[r - 1] = SchemaAt(r - 1) /\ Schemas[r] = SchemaAt(r)
  BY <1>1 DEF Schemas
<1>3. PICK p \in 1..(r - 1) : \E k \in DOMAIN Upgrade[p] :
        /\ Makes(p, k, x)
        /\ \A q \in p..(r - 1) : \A j \in DOMAIN Upgrade[q] : Takes(q, j, x) => q = p /\ j < k
  BY <1>2 DEF SchemaAt
<1>4. \A q \in p..r : q \in p..(r - 1) \/ q = r
  BY <1>1
<1>5. \A j \in DOMAIN Upgrade[r] : ~Takes(r, j, x)
  BY TakesWhere
<1>6. p \in 1..r /\ x \in Objects
  BY <1>1, <1>2 DEF SchemaAt
<1> QED BY <1>2, <1>3, <1>4, <1>5, <1>6 DEF SchemaAt

(* A downgrade starts at the schema of its revision and ends, apart from   *)
(* the extensions, at the one below.                                       *)
LEMMA LowersTo ==
  ASSUME NEW r \in 1..Latest
  PROVE  /\ Lowered(r, 1) = Schemas[r]
         /\ \A i \in Nat : i > Len(Downgrade[r])
              => Schemas[r - 1] \subseteq Lowered(r, i) /\ Lowered(r, i) \subseteq Schemas[r - 1] \cup Extensions
<1>1. r \in Nat /\ r - 1 \in 0..Latest /\ r \in 0..Latest /\ Latest \in Nat
  BY DEF Latest
<1>2. DOMAIN Downgrade[r] = 1..Len(Downgrade[r]) /\ Len(Downgrade[r]) \in Nat
  BY Domains
<1>3. Lowered(r, 1) = Schemas[r]
  <2>1. Schemas[r] \subseteq Objects
    BY <1>1, SchemaColumns
  <2> QED BY <1>2, <2>1 DEF Lowered, Untouched, Returned
<1>4. ASSUME NEW i \in Nat, i > Len(Downgrade[r]), NEW x \in Schemas[r - 1]
      PROVE  x \in Lowered(r, i)
  <2>1. Born(x) # 0 /\ Born(x) <= r - 1 /\ x \in Objects
    BY <1>1, SchemaThen
  <2>2. \A j \in DOMAIN Downgrade[r] : Removes(r, j, x) => x \in Swapped /\ r = 10 /\ j = Back(x) - 3
    BY <1>1, <2>1, RemovesWhere, Numbers
  <2>3. CASE Taken(x) = r
    <3>1. Back(x) \in DOMAIN Downgrade[r] /\ Remakes(r, Back(x), x)
      BY <1>2, <2>3, DownTable
    <3>2. Back(x) < i
      BY <1>2, <1>4, <3>1
    <3>3. \A j \in DOMAIN Downgrade[r] : Back(x) < j => ~Removes(r, j, x)
      BY <1>2, <2>2, Numbers
    <3> QED BY <2>1, <3>1, <3>2, <3>3 DEF Lowered, Returned
  <2>4. CASE Taken(x) # r
    <3>1. x \in Schemas[r]
      BY <2>4, SchemaStays
    <3>2. x \in Swapped => Taken(x) = 10
      BY DEF Swapped, Taken
    <3> QED BY <2>1, <2>2, <2>4, <3>1, <3>2 DEF Lowered, Untouched
  <2> QED BY <2>3, <2>4
<1>5. ASSUME NEW i \in Nat, i > Len(Downgrade[r]), NEW x \in Lowered(r, i)
      PROVE  x \in Schemas[r - 1] \cup Extensions
  <2>1. CASE x \in Schemas[r] /\ Untouched(x, r, i)
    <3>1. CASE Born(x) = r
      <4>1. x \notin Extensions => Fall(x) \in DOMAIN Downgrade[r] /\ Removes(r, Fall(x), x)
        BY <3>1, RemovesThere
      <4>2. \A j \in DOMAIN Downgrade[r] : j < i
        BY <1>2, <1>5
      <4> QED BY <2>1, <4>1, <4>2 DEF Untouched
    <3>2. CASE Born(x) # r
      BY <2>1, <3>2, SchemaMaker
    <3> QED BY <3>1, <3>2
  <2>2. CASE \E k \in DOMAIN Downgrade[r] : Returned(x, k, r, i)
    <3>1. PICK k \in DOMAIN Downgrade[r] : Returned(x, k, r, i)
      BY <2>2
    <3>2. DownStep(r, k, Downgrade[r][k]) /\ Downgrade[r][k].k \in Making /\ Downgrade[r][k].o = x
      BY <1>2, <3>1, DownTable DEF Returned, Remakes, Making
    <3>3. Taken(x) = r
      BY <3>2 DEF DownStep
    <3>4. Born(x) # 0 /\ Born(x) < r
      BY <1>1, <3>3, Passing
    <3>5. r - 1 \in 1..Latest /\ Born(x) <= r - 1 /\ Taken(x) > r - 1
      BY <1>1, <3>3, <3>4, Numbers
    <3> QED BY <3>4, <3>5, ThenSchema
  <2> QED BY <1>5, <2>1, <2>2 DEF Lowered
<1> QED BY <1>3, <1>4, <1>5

(* The schema of a revision, apart from the extensions that stay.          *)
Exact(d, objs) == objs \subseteq d.objs /\ d.objs \subseteq objs \cup Extensions /\ d.broken = {}

LEMMA EffectOnSchema ==
  ASSUME NEW d \in SchemaState, NEW s, s.k \in Kinds, s.o \in Objects, NEW upwards \in BOOLEAN
  PROVE  /\ s.k \in Making => Effect(s, d, upwards).objs = d.objs \cup {s.o}
         /\ s.k \in Taking => Effect(s, d, upwards).objs = d.objs \ Whole[s.o]
         /\ s.k \notin Making \cup Taking => Effect(s, d, upwards).objs = d.objs
         /\ d.broken = {} => Effect(s, d, upwards).broken = {}
<1> DEFINE e == Effect(s, d, upwards)
           objs == CASE s.k \in {"add", "ensure", "index"} -> d.objs \cup {s.o}
                       [] s.k \in {"drop", "clear", "unindex"} -> d.objs \ Whole[s.o]
                       [] OTHER -> d.objs
           broken == IF s.k \in {"drop", "clear", "unindex"} THEN d.broken \ Whole[s.o]
                     ELSE d.broken
           cells == RowsAfter(s, d.rows, upwards)
<1>1. e.objs = objs /\ e.broken = broken
  <2>1. e = [d EXCEPT !.rows = cells, !.objs = objs, !.broken = broken]
    BY DEF Effect
  <2> HIDE DEF e, objs, broken, cells
  <2> QED BY <2>1 DEF SchemaState
<1> QED BY <1>1 DEF Making, Taking, Kinds

LEMMA ExtensionFacts ==
  \A x \in Extensions : Uses(x) = {} /\ Taken(x) = 0 /\ Fall(x) = 0
  BY DEF Extensions, Uses, Taken, Fall

LEMMA SwappedFacts ==
  ASSUME NEW x \in Swapped
  PROVE  /\ Taken(x) = 10 /\ Born(x) # 0 /\ Born(x) < 10 /\ x \in Objects
         /\ Back(x) - 3 \in DOMAIN Downgrade[10] /\ Removes(10, Back(x) - 3, x)
<1>1. Taken(x) = 10
  BY DEF Swapped, Taken
<1>2. Born(x) # 0 /\ Born(x) < 10 /\ x \in Objects
  BY <1>1, Passing, Known
<1>3. /\ Is(Downgrade[10][1], "clear", "ix_tsv_gin") /\ Is(Downgrade[10][5], "clear", "ix_chunk_tsv_gin")
      /\ Len(Downgrade[10]) = 11
  BY DEF Is, Downgrade, Down10, SwapTsv, Stmt
<1>4. Back("ix_tsv_gin") = 4 /\ Back("ix_chunk_tsv_gin") = 8 /\ 10 \in 1..Latest
  BY DEF Back, Latest
<1>5. x \in Whole[x]
  BY <1>2 DEF Whole
<1>6. DOMAIN Downgrade[10] = 1..11
  BY <1>3, <1>4, Domains
<1> QED BY <1>1, <1>2, <1>3, <1>4, <1>5, <1>6 DEF Is, Removes, Swapped

(* No statement of an upgrade fails on the schema it is meant for.         *)
LEMMA UpgradeRuns ==
  ASSUME NEW r \in 1..Latest, NEW i \in DOMAIN Upgrade[r], NEW d, Exact(d, Raised(r, i))
  PROVE  ~Fails(Upgrade[r][i], d)
<1> DEFINE s == Upgrade[r][i]
<1>a. r \in Nat
  BY DEF Latest
<1>0. i \in 1..Len(Upgrade[r]) /\ i \in Nat /\ r \in Nat
  BY <1>a, Domains
<1>1. UpStep(r, i, s) /\ UpgradeFact(r, i, s) /\ s.o \in Objects /\ i \in Nat /\ r \in Nat
  BY <1>0, UpTable, UpgradeFacts, StatementObjects
<1> HIDE DEF s
<1>2. s.k = "add" => s.o \notin d.objs
  <2> SUFFICES ASSUME s.k = "add", s.o \in Raised(r, i) PROVE FALSE
    BY <1>1 DEF UpStep, Exact
  <2>1. Born(s.o) < r \/ (Born(s.o) = r /\ Spot(s.o) < i)
    BY <1>1, ThenStands
  <2>2. r = 10 /\ s.o \in Swapped /\ i = TakenAt(s.o) + 3
    BY <1>1, <2>1, Numbers DEF UpStep, Making
  <2>3. PICK p \in 1..r : \E k \in DOMAIN Upgrade[p] : Stands(s.o, p, k, r, i)
    BY DEF Raised
  <2>4. PICK k \in DOMAIN Upgrade[p] : Stands(s.o, p, k, r, i)
    BY <2>3
  <2>5. TakenAt(s.o) \in DOMAIN Upgrade[10] /\ Takes(10, TakenAt(s.o), s.o) /\ Born(s.o) < 10
    BY <2>2, SwappedFacts, TakesThere
  <2>6. r \in p..r /\ Ahead(r, TakenAt(s.o), r, i)
    BY <1>1, <2>2, Numbers DEF Ahead
  <2>7. p = r /\ TakenAt(s.o) < k
    BY <2>2, <2>4, <2>5, <2>6 DEF Stands
  <2>8. k < i /\ k \in 1..Len(Upgrade[r])
    BY <1>1, <2>4, <2>7, Domains DEF Stands, Ahead
  <2>9. UpStep(r, k, Upgrade[r][k]) /\ Upgrade[r][k].k \in Making /\ Upgrade[r][k].o = s.o
    BY <2>4, <2>7, <2>8, UpTable DEF Stands, Makes, Making
  <2> QED BY <2>2, <2>5, <2>8, <2>9, Numbers DEF UpStep
<1>3. s.k = "add" => Uses(s.o) \subseteq d.objs
  <2> SUFFICES ASSUME s.k = "add", NEW u \in Uses(s.o) PROVE u \in Raised(r, i)
    BY DEF Exact
  <2>1. Needs(s.o, u)
    BY Requirements
  <2>2. Born(s.o) = r /\ Spot(s.o) = i
    BY <1>1, <2>1, SwappedFacts DEF UpStep, Needs, Making
  <2> QED BY <1>1, <2>1, <2>2, StandsThen DEF Needs
<1>4. s.k = "add" => PartOf(s.o) \in d.objs \cup {"database"}
  <2> SUFFICES ASSUME s.k = "add", PartOf(s.o) # "database" PROVE PartOf(s.o) \in Raised(r, i)
    BY DEF Exact
  <2>1. Inside(s.o, PartOf(s.o)) /\ Taken(PartOf(s.o)) = 0 /\ Born(PartOf(s.o)) # 0
    BY <1>1, Parts DEF Inside, UpStep
  <2>2. Born(PartOf(s.o)) < r \/ (Born(PartOf(s.o)) = r /\ Spot(PartOf(s.o)) < i)
    BY <1>1, <2>1, SwappedFacts, Numbers DEF UpStep, Inside, Making
  <2> QED BY <1>1, <2>1, <2>2, StandsThen
<1>5. s.k = "drop" => s.o \in d.objs
  <2> SUFFICES ASSUME s.k = "drop" PROVE s.o \in Raised(r, i)
    BY DEF Exact
  <2>1. Taken(s.o) = r /\ TakenAt(s.o) = i
    BY <1>1 DEF UpStep, Taking
  <2>2. Born(s.o) # 0 /\ Born(s.o) < r
    BY <2>1, Passing DEF Latest
  <2> QED BY <1>1, <2>1, <2>2, StandsThen
<1>6. s.k \in Taking => Users[s.o] = {}
  BY <1>1, UsersFirst DEF UpStep, UpgradeFact, Latest
<1> QED BY <1>2, <1>3, <1>4, <1>5, <1>6 DEF Fails, Taking, s

LEMMA DowngradeRuns ==
  ASSUME NEW r \in 1..Latest, NEW i \in DOMAIN Downgrade[r], NEW d, Exact(d, Lowered(r, i))
  PROVE  ~Fails(Downgrade[r][i], d)
<1> DEFINE s == Downgrade[r][i]
<1>a. r \in Nat /\ r # 0 /\ r \in 0..Latest
  BY DEF Latest
<1>0. i \in 1..Len(Downgrade[r]) /\ i \in Nat \ {0} /\ r \in Nat /\ r # 0 /\ r \in 0..Latest
  BY <1>a, Domains
<1>1. /\ DownStep(r, i, s) /\ DowngradeFact(r, i, s) /\ s.o \in Objects /\ i \in Nat \ {0}
      /\ r \in Nat /\ r # 0 /\ r \in 0..Latest
  BY <1>0, DownTable, DowngradeFacts, StatementObjects
<1> HIDE DEF s
<1>2. s.k = "add" => s.o \notin d.objs
  <2> SUFFICES ASSUME s.k = "add", s.o \in d.objs PROVE FALSE
    OBVIOUS
  <2>1. Taken(s.o) = r /\ Back(s.o) = i
    BY <1>1 DEF DownStep, Making
  <2>2. s.o \in Lowered(r, i)
    BY <1>1, <2>1, ExtensionFacts DEF Exact
  <2>3. CASE s.o \in Schemas[r] /\ Untouched(s.o, r, i)
    <3>1. r = 10 /\ s.o \in Swapped
      BY <1>1, <2>1, <2>3, SchemaMaker, Passing, Numbers
    <3>2. Removes(r, i - 3, s.o) /\ i - 3 \in DOMAIN Downgrade[r] /\ i - 3 < i
      BY <1>1, <2>1, <3>1, SwappedFacts
    <3> QED BY <2>3, <3>2 DEF Untouched
  <2>4. CASE \E k \in DOMAIN Downgrade[r] : Returned(s.o, k, r, i)
    <3>1. PICK k \in DOMAIN Downgrade[r] : Returned(s.o, k, r, i)
      BY <2>4
    <3>2. k \in Nat /\ DownStep(r, k, Downgrade[r][k]) /\ Downgrade[r][k].k \in Making /\ Downgrade[r][k].o = s.o
          /\ k < i
      BY <3>1, Domains, DownTable DEF Returned, Remakes, Making
    <3> QED BY <1>1, <2>1, <3>2 DEF DownStep
  <2> QED BY <2>2, <2>3, <2>4 DEF Lowered
<1>3. s.k = "add" => Uses(s.o) = {}
  <2> SUFFICES ASSUME s.k = "add", NEW u \in Uses(s.o) PROVE FALSE
    OBVIOUS
  <2> QED BY <1>1, Requirements DEF DownStep, Needs, Making
<1>4. s.k = "add" => PartOf(s.o) \in d.objs \cup {"database"}
  <2> SUFFICES ASSUME s.k = "add", PartOf(s.o) # "database" PROVE PartOf(s.o) \in Lowered(r, i)
    BY DEF Exact
  <2>1. Inside(s.o, PartOf(s.o)) /\ Taken(PartOf(s.o)) = 0 /\ Born(PartOf(s.o)) # 0
    BY <1>1, Parts DEF Inside, DownStep
  <2>2. Taken(s.o) = r
    BY <1>1 DEF DownStep, Making
  <2>3. Born(PartOf(s.o)) < r
    BY <1>1, <2>1, <2>2, Passing, Numbers DEF Inside
  <2>4. PartOf(s.o) \in Schemas[r] /\ PartOf(s.o) \in Objects
    BY <1>1, <2>1, <2>3, ThenSchema, Known, Numbers
  <2>5. \A j \in DOMAIN Downgrade[r] : ~Removes(r, j, PartOf(s.o))
    BY <1>1, <2>1, <2>3, RemovesWhere, SwappedFacts, Numbers
  <2> QED BY <2>4, <2>5 DEF Lowered, Untouched
<1>5. s.k = "drop" => s.o \in d.objs
  <2> SUFFICES ASSUME s.k = "drop" PROVE s.o \in Lowered(r, i)
    BY DEF Exact
  <2>1. Born(s.o) = r /\ Fall(s.o) = i /\ s.o \notin Swapped
    BY <1>1 DEF DownStep, Taking
  <2>2. Taken(s.o) = 0 \/ Taken(s.o) > r
    BY <2>1, Passing
  <2>3. s.o \in Schemas[r]
    BY <1>1, <2>1, <2>2, ThenSchema
  <2>4. \A j \in DOMAIN Downgrade[r] : j < i => ~Removes(r, j, s.o)
    BY <1>1, <2>1, RemovesWhere, Domains
  <2> QED BY <1>1, <2>3, <2>4 DEF Lowered, Untouched
<1>6. s.k \in Taking => Users[s.o] \cap d.objs = {}
  <2> SUFFICES ASSUME s.k \in Taking, NEW x \in Users[s.o], x \in d.objs PROVE FALSE
    OBVIOUS
  <2>1. s.o # "database"
    BY <1>1 DEF DowngradeFact
  <2>2. /\ x \in Objects /\ Uses(x) # {} /\ Taken(x) = 0 /\ Taken(s.o) = 0
        /\ \/ s.o \in Extensions \/ Born(s.o) < Born(x)
           \/ Born(s.o) = Born(x) /\ Fall(x) < Fall(s.o)
    BY <1>1, <2>1, UsersFirst
  <2>3. Born(s.o) = r /\ Fall(s.o) = i
    BY <1>1, <2>2, SwappedFacts DEF DownStep
  <2>4. s.o \notin Extensions /\ x \notin Extensions
    BY <1>1, <2>2, <2>3, ExtensionFacts
  <2>5. x \in Lowered(r, i)
    BY <2>4 DEF Exact
  <2>6. CASE x \in Schemas[r] /\ Untouched(x, r, i)
    <3>1. Born(x) <= r
      BY <1>1, <2>6, SchemaThen
    <3>2. Born(x) = r /\ Fall(x) < i
      BY <2>2, <2>3, <2>4, <3>1, Numbers
    <3>3. Fall(x) \in DOMAIN Downgrade[r] /\ Removes(r, Fall(x), x)
      BY <2>4, <3>2, RemovesThere
    <3> QED BY <2>6, <3>2, <3>3 DEF Untouched
  <2>7. CASE \E k \in DOMAIN Downgrade[r] : Returned(x, k, r, i)
    <3>1. PICK k \in DOMAIN Downgrade[r] : Returned(x, k, r, i)
      BY <2>7
    <3>2. DownStep(r, k, Downgrade[r][k]) /\ Downgrade[r][k].k \in Making /\ Downgrade[r][k].o = x
      BY <3>1, Domains, DownTable DEF Returned, Remakes, Making
    <3> QED BY <1>1, <2>2, <3>2 DEF DownStep
  <2> QED BY <2>5, <2>6, <2>7 DEF Lowered
<1> QED BY <1>2, <1>3, <1>4, <1>5, <1>6 DEF Fails, Taking, s

-----------------------------------------------------------------------------
(* The invariant of the schema.  Until a run is torn, no statement fails,   *)
(* the transaction's objects are those of the statements that ran, and a    *)
(* run that has committed none of its own leaves the schema of the          *)
(* committed revision; an index is only built when something is committed   *)
(* already, so whatever dies in it leaves the run torn.                    *)

Reached == IF AtTarget THEN Schemas[tx.rev]
           ELSE IF job.upwards THEN Raised(tx.rev + 1, job.pc) ELSE Lowered(tx.rev, job.pc)

Committed == Running /\ ~AtTarget /\ job.pc > 2 /\ job.pc <= Len(Statements)
             /\ Statements[job.pc - 1].k = "commit"

SchemaInv ==
  ~torn => /\ job.state # "failed"
           /\ ~Running => ~job.open
           /\ ~job.open => Exact(db, Schemas[db.rev])
           /\ Running => Exact(tx, Reached)
           /\ Committed => job.open

LEMMA SchemaStarts ==
  ASSUME MigrationInit
  PROVE  SchemaInv
<1>1. PICK rev \in 0..Latest : db = [Empty EXCEPT !.objs = Schemas[rev], !.rev = rev]
  BY DEF MigrationInit
<1>2. db.objs = Schemas[rev] /\ db.rev = rev /\ db.broken = {}
  BY <1>1 DEF Empty
<1>3. job = Idle /\ ~Running
  BY DEF MigrationInit, Running, Idle
<1> QED BY <1>2, <1>3 DEF SchemaInv, Exact, Idle, Committed

LEMMA StartKeepsSchema ==
  ASSUME MigrationInv, SchemaInv, NEW goal \in 0..Latest, Start(goal)
  PROVE  SchemaInv'
<1> SUFFICES ASSUME ~torn'
             PROVE  /\ job'.state # "failed" /\ Running'
                    /\ Exact(db', Schemas[db'.rev]) /\ Exact(tx', Reached') /\ ~Committed'
  BY DEF SchemaInv
<1>1. /\ tx' = db /\ db' = db /\ torn' = torn /\ ~Running /\ goal # db.rev
      /\ job' = [state |-> "running", upwards |-> goal > db.rev, pc |-> 1, target |-> goal,
                 open |-> FALSE]
  BY DEF Start
<1> DEFINE up == goal > db.rev
<1>2. up \in BOOLEAN
  OBVIOUS
<1>3. db.rev \in 0..Latest /\ Latest \in Nat
  BY DEF MigrationInv, StateOK, SchemaState, Latest
<1>4. (up => db.rev + 1 \in 1..Latest) /\ (~up => db.rev \in 1..Latest)
  BY <1>1, <1>3
<1>5. (up => db.rev = (db.rev + 1) - 1)
  BY <1>3
<1> HIDE DEF up
<1>6. /\ job'.state = "running" /\ job'.upwards = up /\ job'.pc = 1 /\ job'.target = goal
  BY <1>1 DEF up
<1>7. Running' /\ ~AtTarget'
  BY <1>1, <1>6 DEF Running, AtTarget
<1>8. Exact(db, Schemas[db.rev])
  BY <1>1 DEF SchemaInv
<1>9. /\ up => Raised(db.rev + 1, 1) = Schemas[db.rev]
      /\ ~up => Lowered(db.rev, 1) = Schemas[db.rev]
  BY <1>4, <1>5, RaisesTo, LowersTo
<1>10. Reached' = Schemas[db.rev]
  BY <1>1, <1>6, <1>7, <1>9 DEF Reached
<1> QED BY <1>1, <1>6, <1>7, <1>8, <1>10 DEF Committed

(* The statement's place in the tables.                                    *)
LEMMA AtPlace ==
  ASSUME MigrationInv, Running, ~AtTarget, job.pc <= Len(Statements)
  PROVE  /\ job.upwards => /\ tx.rev + 1 \in 1..Latest
                           /\ job.pc \in DOMAIN Upgrade[tx.rev + 1]
                           /\ Statements = Upgrade[tx.rev + 1]
                           /\ UpStep(tx.rev + 1, job.pc, Statements[job.pc])
         /\ ~job.upwards => /\ tx.rev \in 1..Latest
                            /\ job.pc \in DOMAIN Downgrade[tx.rev]
                            /\ Statements = Downgrade[tx.rev]
                            /\ DownStep(tx.rev, job.pc, Statements[job.pc])
<1>1. job.pc \in Nat \ {0} /\ job.upwards \in BOOLEAN /\ Len(Statements) \in Nat
  BY AtStatement DEF MigrationInv, StateOK, Jobs
<1>2. CASE job.upwards
  <2>1. tx.rev + 1 \in 1..Latest /\ Statements = Upgrade[tx.rev + 1]
    BY <1>2, AtStatement
  <2>2. job.pc \in 1..Len(Upgrade[tx.rev + 1])
    BY <1>1, <2>1
  <2> QED BY <1>2, <2>1, <2>2, Domains, UpTable
<1>3. CASE ~job.upwards
  <2>1. tx.rev \in 1..Latest /\ Statements = Downgrade[tx.rev]
    BY <1>3, AtStatement
  <2>2. job.pc \in 1..Len(Downgrade[tx.rev])
    BY <1>1, <2>1
  <2> QED BY <1>3, <2>1, <2>2, Domains, DownTable
<1> QED BY <1>2, <1>3

LEMMA ExecuteKeepsSchema ==
  ASSUME MigrationInv, SchemaInv, Execute
  PROVE  SchemaInv'
<1> SUFFICES ASSUME ~torn' PROVE SchemaInv'
  BY DEF SchemaInv
<1> DEFINE s == Statements[job.pc]
           e == Effect(s, tx, job.upwards)
           opened == IF s.k = "commit" THEN job.pc > 1
                     ELSE job.open \/ s.k \in {"index", "unindex"}
<1>1. Running /\ ~AtTarget /\ job.pc <= Len(Statements) /\ ~torn
  <2>1. torn' = torn \/ torn' = (torn \/ job.open)
    BY DEF Execute
  <2>2. torn \in BOOLEAN /\ job.open \in BOOLEAN
    BY DEF MigrationInv, MigrationTypeOK, StateOK, Jobs
  <2> QED BY <2>1, <2>2 DEF Execute
<1>2. job.pc \in Nat \ {0} /\ job.upwards \in BOOLEAN /\ job \in Jobs /\ tx \in SchemaState
  BY DEF MigrationInv, StateOK, Jobs
<1>3. Exact(tx, Reached) /\ s.k \in Kinds /\ s.o \in Objects
  BY <1>1, AtStatement DEF SchemaInv
<1>4. /\ job.upwards => Reached = Raised(tx.rev + 1, job.pc)
      /\ ~job.upwards => Reached = Lowered(tx.rev, job.pc)
  BY <1>1 DEF Reached
<1>5. ~Fails(s, tx)
  BY <1>1, <1>3, <1>4, AtPlace, UpgradeRuns, DowngradeRuns
<1>6. /\ job' = [job EXCEPT !.pc = @ + 1, !.open = opened] /\ tx' = e
      /\ db' = IF s.k \in {"commit", "index", "unindex"} THEN e ELSE db
  BY <1>5 DEF Execute
<1>7. /\ s.k \in Making => e.objs = tx.objs \cup {s.o}
      /\ s.k \in Taking => e.objs = tx.objs \ Whole[s.o]
      /\ s.k \notin Making \cup Taking => e.objs = tx.objs
      /\ e.broken = {} /\ e.rev = tx.rev
  <2>2. tx.broken = {}
    BY <1>3 DEF Exact
  <2> HIDE DEF s
  <2>3. e.rev = tx.rev
    BY <1>2, <1>3, EffectFacts
  <2>4. /\ s.k \in Making => e.objs = tx.objs \cup {s.o}
        /\ s.k \in Taking => e.objs = tx.objs \ Whole[s.o]
        /\ s.k \notin Making \cup Taking => e.objs = tx.objs
        /\ e.broken = {}
    BY <1>2, <1>3, <2>2, EffectOnSchema
  <2> HIDE DEF e
  <2> QED BY <2>3, <2>4
<1> DEFINE next == IF job.upwards THEN Raised(tx.rev + 1, job.pc + 1)
                   ELSE Lowered(tx.rev, job.pc + 1)
<1>8. /\ s.k \in Making => next = Reached \cup {s.o}
      /\ s.k \in Taking => next = Reached \ Whole[s.o]
      /\ s.k \notin Making \cup Taking => next = Reached
  <2>2. CASE job.upwards
    <3>1. s = Upgrade[tx.rev + 1][job.pc] /\ tx.rev + 1 \in 1..Latest
          /\ job.pc \in DOMAIN Upgrade[tx.rev + 1]
      BY <1>1, <2>2, AtPlace
    <3> HIDE DEF s
    <3>2. next = Raised(tx.rev + 1, job.pc + 1) /\ Reached = Raised(tx.rev + 1, job.pc)
      BY <1>4, <2>2
    <3> QED BY <3>1, <3>2, RaisesBy
  <2>3. CASE ~job.upwards
    <3>1. s = Downgrade[tx.rev][job.pc] /\ tx.rev \in 1..Latest
          /\ job.pc \in DOMAIN Downgrade[tx.rev]
      BY <1>1, <2>3, AtPlace
    <3> HIDE DEF s
    <3>2. next = Lowered(tx.rev, job.pc + 1) /\ Reached = Lowered(tx.rev, job.pc)
      BY <1>4, <2>3
    <3> QED BY <3>1, <3>2, LowersBy
  <2> QED BY <2>2, <2>3
<1>9. opened \in BOOLEAN
  <2>1. (job.pc > 1) \in BOOLEAN /\ (job.open \/ s.k \in {"index", "unindex"}) \in BOOLEAN
    OBVIOUS
  <2> QED BY <2>1
<1>10. s.k = "commit" \/ s.k \in {"index", "unindex"} \/ s.k \notin {"commit", "index", "unindex"}
  OBVIOUS
<1>11. /\ s.k = "commit" => (opened <=> job.pc > 1)
       /\ s.k \in {"index", "unindex"} => opened
       /\ job.open /\ s.k # "commit" => opened
  OBVIOUS
<1>12. Exact(e, next)
  <2> HIDE DEF s, e, next
  <2> QED BY <1>3, <1>7, <1>8 DEF Exact
<1>13. Statements' = Statements /\ AtTarget' = AtTarget /\ Running' /\ job'.pc = job.pc + 1
       /\ job'.state = job.state /\ job'.open = opened /\ tx'.rev = tx.rev
       /\ job'.upwards = job.upwards
  <2> HIDE DEF opened, e
  <2>1. /\ job'.pc = job.pc + 1 /\ job'.state = job.state /\ job'.open = opened
        /\ job'.upwards = job.upwards /\ job'.target = job.target
    BY <1>2, <1>6 DEF Jobs
  <2>2. tx'.rev = tx.rev
    BY <1>6, <1>7
  <2> QED BY <1>1, <2>1, <2>2 DEF Statements, AtTarget, Running
<1>14. Reached' = next
  <2> HIDE DEF s, e, opened
  <2> QED BY <1>1, <1>13 DEF Reached
<1>15. ~opened => Exact(db', Schemas[db'.rev])
  <2>1. CASE s.k = "commit"
    <3> SUFFICES ASSUME job.pc = 1 PROVE Exact(db', Schemas[db'.rev])
      BY <1>2, <1>11, <2>1
    <3>1. db' = e /\ s.k \notin Making /\ s.k \notin Taking
      BY <1>6, <2>1 DEF Making, Taking
    <3>2. Reached = Schemas[tx.rev]
      <4>1. tx.rev \in Nat /\ tx.rev = (tx.rev + 1) - 1
        BY <1>2 DEF SchemaState
      <4> QED BY <1>1, <1>4, <4>1, AtPlace, RaisesTo, LowersTo
    <3> HIDE DEF s, e, next, opened
    <3> QED BY <1>7, <1>8, <1>12, <3>1, <3>2
  <2>2. CASE s.k \in {"index", "unindex"}
    BY <1>11, <2>2
  <2>3. CASE s.k \notin {"commit", "index", "unindex"}
    BY <1>1, <1>6, <1>11, <2>3 DEF SchemaInv
  <2> QED BY <1>10, <2>1, <2>2, <2>3
<1>16. Committed' => opened
  <2> SUFFICES ASSUME job.pc + 1 > 2, s.k = "commit" PROVE opened
    BY <1>2, <1>13 DEF Committed
  <2> QED BY <1>2, <1>11
<1>17. job'.state # "failed"
  BY <1>1, <1>13 DEF SchemaInv
<1> HIDE DEF s, e, next, opened
<1> QED BY <1>6, <1>12, <1>13, <1>14, <1>15, <1>16, <1>17 DEF SchemaInv

LEMMA StampKeepsSchema ==
  ASSUME MigrationInv, SchemaInv, Stamp
  PROVE  SchemaInv'
<1> SUFFICES ASSUME ~torn' PROVE SchemaInv'
  BY DEF SchemaInv
<1>1. Running /\ ~AtTarget /\ job.pc > Len(Statements)
  BY DEF Stamp
<1>2. /\ db' = db /\ torn' = torn /\ job' = [job EXCEPT !.pc = 1]
      /\ tx' = [tx EXCEPT !.rev = IF job.upwards THEN @ + 1 ELSE @ - 1]
  BY DEF Stamp
<1>3. tx \in SchemaState /\ job \in Jobs /\ job.pc \in Nat \ {0} /\ job.upwards \in BOOLEAN
  BY DEF MigrationInv, StateOK, Jobs
<1>4. /\ Running' /\ job'.pc = 1 /\ job'.upwards = job.upwards /\ job'.open = job.open
      /\ job'.state = job.state
  BY <1>1, <1>2, <1>3 DEF Running, Jobs
<1>5. /\ tx'.objs = tx.objs /\ tx'.broken = tx.broken
      /\ job.upwards => tx'.rev = tx.rev + 1
      /\ ~job.upwards => tx'.rev = tx.rev - 1
  BY <1>2, <1>3 DEF SchemaState
<1>6. Exact(tx, Reached)
  BY <1>1, <1>2 DEF SchemaInv
<1>7. Exact(tx, Schemas[tx'.rev]) /\ tx'.rev \in 0..Latest
  <2>1. CASE job.upwards
    <3>1. tx.rev + 1 \in 1..Latest /\ Statements = Upgrade[tx.rev + 1]
      BY <1>1, <2>1, AtStatement
    <3>2. Raised(tx.rev + 1, job.pc) = Schemas[tx.rev + 1]
      BY <1>1, <1>3, <3>1, RaisesTo
    <3>3. Reached = Schemas[tx'.rev]
      BY <1>1, <1>5, <2>1, <3>2 DEF Reached
    <3>4. tx'.rev \in 0..Latest
      BY <1>5, <2>1, <3>1 DEF Latest
    <3> QED BY <1>6, <3>3, <3>4
  <2>2. CASE ~job.upwards
    <3>1. tx.rev \in 1..Latest /\ Statements = Downgrade[tx.rev]
      BY <1>1, <2>2, AtStatement
    <3>2. /\ Schemas[tx.rev - 1] \subseteq Lowered(tx.rev, job.pc)
          /\ Lowered(tx.rev, job.pc) \subseteq Schemas[tx.rev - 1] \cup Extensions
      BY <1>1, <1>3, <3>1, LowersTo
    <3>3. Reached = Lowered(tx.rev, job.pc)
      BY <1>1, <2>2 DEF Reached
    <3>4. tx'.rev \in 0..Latest
      BY <1>5, <2>2, <3>1 DEF Latest
    <3> QED BY <1>5, <1>6, <2>2, <3>2, <3>3, <3>4 DEF Exact
  <2> QED BY <2>1, <2>2
<1>8. Exact(tx', Schemas[tx'.rev])
  BY <1>5, <1>7 DEF Exact
<1>9. Reached' = Schemas[tx'.rev]
  <2>1. CASE AtTarget'
    BY <2>1 DEF Reached
  <2>2. CASE ~AtTarget' /\ job.upwards
    <3>1. tx'.rev + 1 \in 1..Latest /\ tx'.rev = (tx'.rev + 1) - 1
      <4>1. MigrationInv'
        BY StampKeeps
      <4>2. tx'.rev <= job'.target /\ job'.target \in 0..Latest
        BY <1>4, <2>2, <4>1 DEF MigrationInv, StateOK, Jobs
      <4>3. tx'.rev # job'.target
        BY <2>2 DEF AtTarget
      <4> QED BY <1>7, <4>2, <4>3 DEF Latest
    <3> QED BY <1>4, <2>2, <3>1, RaisesTo DEF Reached
  <2>3. CASE ~AtTarget' /\ ~job.upwards
    <3>1. tx'.rev \in 1..Latest
      <4>1. MigrationInv'
        BY StampKeeps
      <4>2. job'.target <= tx'.rev /\ job'.target \in 0..Latest
        BY <1>4, <2>3, <4>1 DEF MigrationInv, StateOK, Jobs
      <4>3. tx'.rev # job'.target
        BY <2>3 DEF AtTarget
      <4> QED BY <1>7, <4>2, <4>3 DEF Latest
    <3> QED BY <1>4, <2>3, <3>1, LowersTo DEF Reached
  <2> QED BY <2>1, <2>2, <2>3
<1>10. ~Committed'
  BY <1>4 DEF Committed
<1> QED BY <1>2, <1>4, <1>8, <1>9, <1>10 DEF SchemaInv

LEMMA FinishKeepsSchema ==
  ASSUME MigrationInv, SchemaInv, Finish
  PROVE  SchemaInv'
<1>1. Running /\ AtTarget /\ db' = tx /\ job' = Idle /\ tx' = tx /\ torn' = torn
  BY DEF Finish
<1>2. job'.state = "idle" /\ ~Running' /\ ~job'.open
  BY <1>1 DEF Running, Idle
<1> QED BY <1>1, <1>2 DEF SchemaInv, Reached, Committed

LEMMA DieKeepsSchema ==
  ASSUME MigrationInv, SchemaInv, Die
  PROVE  SchemaInv'
<1> SUFFICES ASSUME ~torn' PROVE SchemaInv'
  BY DEF SchemaInv
<1>1. Running /\ job' = Idle /\ torn' = (torn \/ job.open)
  BY DEF Die
<1>2. torn \in BOOLEAN /\ job.open \in BOOLEAN /\ job.pc \in Nat \ {0} /\ job.upwards \in BOOLEAN
  BY DEF MigrationInv, MigrationTypeOK, StateOK, Jobs
<1>3. ~torn /\ ~job.open
  BY <1>1, <1>2
<1>4. job'.state = "idle" /\ ~Running' /\ ~job'.open
  BY <1>1 DEF Running, Idle
<1>5. db' = db
  <2>1. ASSUME ~AtTarget, job.pc <= Len(Statements), Statements[job.pc].k = "index" PROVE FALSE
    <3>1. job.pc > 2 /\ Statements[job.pc - 1].k = "commit"
      BY <1>1, <1>2, <2>1, AtPlace DEF UpStep, DownStep
    <3> QED BY <1>1, <1>3, <2>1, <3>1 DEF SchemaInv, Committed
  <2> QED BY <2>1 DEF Die
<1> QED BY <1>3, <1>4, <1>5 DEF SchemaInv, Committed

(* The application writes rows; the schema is none of its business.        *)
LEMMA SetRowKeepsSchema ==
  ASSUME MigrationInv, SchemaInv, NEW m \in Memories, NEW row, SetRow(m, row), job' = job, torn' = torn
  PROVE  SchemaInv'
<1>1. /\ db'.objs = db.objs /\ db'.rev = db.rev /\ db'.broken = db.broken
      /\ tx'.objs = tx.objs /\ tx'.rev = tx.rev /\ tx'.broken = tx.broken
  BY DEF SetRow, MigrationInv, StateOK, SchemaState
<1>2. /\ Running' = Running /\ AtTarget' = AtTarget /\ Statements' = Statements
      /\ Reached' = Reached /\ Committed' = Committed
  BY <1>1 DEF Running, AtTarget, Statements, Reached, Committed
<1> QED BY <1>1, <1>2 DEF SchemaInv, Exact

LEMMA SchemaInvInductive ==
  ASSUME MigrationInv, SchemaInv, [MigrationNext]_migrationVars
  PROVE  SchemaInv'
<1>1. CASE UNCHANGED migrationVars
  BY <1>1 DEF migrationVars, SchemaInv, Exact, Reached, Committed, Running, AtTarget, Statements
<1>2. ASSUME NEW goal \in 0..Latest, Start(goal) PROVE SchemaInv'
  BY <1>2, StartKeepsSchema
<1>3. CASE Execute
  BY <1>3, ExecuteKeepsSchema
<1>4. CASE Stamp
  BY <1>4, StampKeepsSchema
<1>5. CASE Finish
  BY <1>5, FinishKeepsSchema
<1>6. CASE Die
  BY <1>6, DieKeepsSchema
<1>7. ASSUME NEW m \in Memories, Hold(m) PROVE SchemaInv'
  BY <1>7, SetRowKeepsSchema DEF Hold
<1>8. ASSUME NEW m \in Memories, Release(m) PROVE SchemaInv'
  BY <1>8, SetRowKeepsSchema DEF Release
<1>9. ASSUME NEW i \in Images, Deploy(i) PROVE SchemaInv'
  BY <1>9 DEF Deploy, SchemaInv, Exact, Reached, Committed, Running, AtTarget, Statements
<1> QED BY <1>1, <1>2, <1>3, <1>4, <1>5, <1>6, <1>7, <1>8, <1>9 DEF MigrationNext

(* What the ORM's models name is made by some upgrade and taken by none.   *)
LEMMA ModelsAtHead ==
  Models \subseteq Schemas[Latest]
<1> DEFINE Kept(x) == Born(x) # 0 /\ Taken(x) = 0
<1>1. \A x \in OrgModels : Kept(x)
  BY DEF OrgModels, Born, Taken
<1>2. \A x \in UserModels : Kept(x)
  BY DEF UserModels, Born, Taken
<1>3. \A x \in KeyModels : Kept(x)
  BY DEF KeyModels, Born, Taken
<1>4. \A x \in AuditModels : Kept(x)
  BY DEF AuditModels, Born, Taken
<1>5. \A x \in SessionModels : Kept(x)
  BY DEF SessionModels, Born, Taken
<1>6. \A x \in MemoryModels : Kept(x)
  BY DEF MemoryModels, Born, Taken
<1>7. \A x \in MemoryColumns : Kept(x)
  BY DEF MemoryColumns, Born, Taken
<1>8. \A x \in AttachmentModels : Kept(x)
  BY DEF AttachmentModels, Born, Taken
<1> HIDE DEF Kept
<1>9. \A x \in Models : Kept(x)
  BY <1>1, <1>2, <1>3, <1>4, <1>5, <1>6, <1>7, <1>8 DEF Models
<1>10. ASSUME NEW x \in Models PROVE x \in Schemas[Latest]
  <2>1. Born(x) # 0 /\ Taken(x) = 0
    BY <1>9 DEF Kept
  <2>2. Latest \in 1..Latest /\ Born(x) <= Latest
    BY Numbers DEF Latest
  <2> QED BY <2>1, <2>2, ThenSchema
<1> QED BY <1>10

LEMMA SchemaInvMeans ==
  ASSUME MigrationInv, SchemaInv
  PROVE  SchemaMatchesRevision
<1> SUFFICES ASSUME ~Running, ~torn
             PROVE  /\ job.state # "failed"
                    /\ db.objs \ Extensions = Schemas[db.rev] \ Extensions
                    /\ db.broken = {}
                    /\ db.rev = Latest => Models \subseteq db.objs
  BY DEF SchemaMatchesRevision
<1>1. job.state # "failed" /\ Exact(db, Schemas[db.rev])
  BY DEF SchemaInv
<1> QED BY <1>1, ModelsAtHead DEF Exact

(* Whatever runs of alembic, up and down and wherever they die, no          *)
(* statement fails and the objects are those of the recorded revision, at  *)
(* head with everything the models need, until a run ends with part of its *)
(* work committed.                                                         *)
THEOREM SchemaFollowsRevision == MigrationSpec => []SchemaMatchesRevision
<1>1. MigrationInit => MigrationInv /\ SchemaInv
  BY MigrationStarts, SchemaStarts
<1>2. MigrationInv /\ SchemaInv /\ [MigrationNext]_migrationVars => MigrationInv' /\ SchemaInv'
  BY MigrationInvInductive, SchemaInvInductive
<1>3. MigrationInv /\ SchemaInv => SchemaMatchesRevision
  BY SchemaInvMeans
<1> QED BY <1>1, <1>2, <1>3, PTL DEF MigrationSpec
=============================================================================
