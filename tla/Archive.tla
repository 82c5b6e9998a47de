-------------------------------- MODULE Archive --------------------------------
(***************************************************************************)
(* A scope travels as a tar archive: stream_export reads memories, links   *)
(* and attachments one after the other, while the scope goes on changing;  *)
(* import_from_tar writes them into another scope in one transaction,      *)
(* where a memory that is there already takes the imported one in.  Blobs  *)
(* are written to the blob store, which no rollback reaches.               *)
(***************************************************************************)
EXTENDS Naturals, FiniteSets

CONSTANTS Sources,     \* memories of the scope that is exported
          Prints,       \* title and body, as far as the fingerprint tells
          Imports,     \* import requests that are served at the same time
          MaxTarget,   \* bound: memories of the target scope
          MaxExports,  \* bound: archives; the source rests after the last
          MaxImports   \* bound: imports, and the blobs they upload

ASSUME ArchiveAssumption ==
  /\ IsFiniteSet(Sources) /\ Prints # {}
  /\ MaxTarget \in Nat /\ MaxExports \in Nat /\ MaxImports \in Nat

VARIABLES source,      \* memories of the source scope
          links,       \* links between them
          attached,    \* its attachment: none, stored, or its blob is gone
          export,      \* the export in progress
          tar,         \* the archive a client was handed last
          egress,      \* archives handed out
          trail,       \* how many scope.imported entries the audit log has
          target, rowLinks, files,   \* the target scope
          nextRow,     \* the sequence behind memories.id
          blobs,       \* external: blobs uploaded by imports
          import       \* import requests in progress

archiveVars == <<source, links, attached, export, tar, egress, trail, target, rowLinks, files,
                 nextRow, blobs, import>>

NoTar == [mems |-> <<>>, links |-> {}, attached |-> "none", made |-> FALSE]
NoExport == [at |-> "no", mems |-> <<>>, links |-> {}]
NoImport == [at |-> "no"]
Pairs == Sources \X Sources

ArchiveTypeOK ==
  /\ \A s \in Sources : source[s].state \in {"absent", "live", "held", "deleted"}
  /\ links \subseteq Pairs
  /\ attached \in {"none", "stored", "blobless"}
  /\ tar.links \subseteq Pairs
  /\ DOMAIN target \subseteq 1..MaxTarget
  /\ rowLinks \subseteq (DOMAIN target) \X (DOMAIN target)
  /\ trail \in 0..MaxImports

ArchiveInit ==
  /\ source = [s \in Sources |-> [text |-> CHOOSE t \in Prints : TRUE, state |-> "absent"]]
  /\ links = {} /\ attached = "none"
  /\ export = NoExport /\ tar = NoTar /\ egress = 0 /\ trail = 0
  /\ \/ target = <<>>
     \/ \E p \in Prints : target = <<[print |-> p, live |-> TRUE]>>
  /\ rowLinks = {} /\ files = {} /\ nextRow = Cardinality(DOMAIN target) + 1
  /\ blobs = 0
  /\ import = [i \in Imports |-> NoImport]

targetVars == <<target, rowLinks, files, nextRow, blobs, import>>
sourceVars == <<source, links, attached>>
exportVars == <<export, tar, egress>>

-----------------------------------------------------------------------------
(* The source scope in use.  A forced write may repeat a text.             *)

Write(s, t, state) ==
  /\ egress < MaxExports
  /\ source[s].state = "absent"
  /\ source' = [source EXCEPT ![s] = [text |-> t, state |-> state]]
  /\ UNCHANGED <<links, attached, exportVars, trail, targetVars>>

RemoveSource(s) ==
  /\ egress < MaxExports
  /\ source[s].state = "live"
  /\ source' = [source EXCEPT ![s].state = "deleted"]
  /\ UNCHANGED <<links, attached, exportVars, trail, targetVars>>

Link(s, t) ==
  /\ egress < MaxExports
  /\ s # t /\ <<s, t>> \notin links
  /\ source[s].state = "live" /\ source[t].state = "live"
  /\ links' = links \cup {<<s, t>>}
  /\ UNCHANGED <<source, attached, exportVars, trail, targetVars>>

Attach ==
  /\ egress < MaxExports
  /\ attached = "none" /\ attached' \in {"stored", "blobless"}
  /\ UNCHANGED <<source, links, exportVars, trail, targetVars>>

-----------------------------------------------------------------------------
(* stream_export.                                                          *)

Listed == {s \in Sources : source[s].state = "live"}

ExportMemories ==
  /\ export.at = "no" /\ egress < MaxExports
  /\ export' = [at |-> "links", mems |-> [s \in Listed |-> source[s].text], links |-> {}]
  /\ UNCHANGED <<sourceVars, tar, egress, trail, targetVars>>

\* links that leave the archive are skipped
ExportLinks ==
  LET ends == DOMAIN export.mems
  IN /\ export.at = "links"
     /\ export' = [export EXCEPT !.at = "blobs", !.links = links \cap (ends \X ends)]
     /\ UNCHANGED <<sourceVars, tar, egress, trail, targetVars>>

\* A blob that cannot be fetched is archived empty.  The scope.exported entry is
\* appended to the request's transaction, which export_scope does not commit.
ExportHandOut ==
  /\ export.at = "blobs"
  /\ tar' = [mems |-> export.mems, links |-> export.links, attached |-> attached, made |-> TRUE]
  /\ egress' = egress + 1
  /\ export' = NoExport
  /\ UNCHANGED <<sourceVars, trail, targetVars>>

-----------------------------------------------------------------------------
(* import_from_tar: MemoryService.create for one archived memory after the *)
(* other, then the links, then the blobs, in one transaction.              *)

OpenImport(i) == import[i].at # "no"

ImportBegin(i) ==
  /\ import[i] = NoImport /\ tar.made
  /\ trail < MaxImports
  /\ import' = [import EXCEPT ![i] =
       [at |-> "open", tar |-> tar, map |-> <<>>, own |-> <<>>, found |-> <<>>, crossed |-> {}]]
  /\ UNCHANGED <<sourceVars, exportVars, trail, target, rowLinks, files, nextRow, blobs>>

With(f, x, v) == [y \in DOMAIN f \cup {x} |-> IF y = x THEN v ELSE f[y]]

\* find_by_content_hash: committed rows that are live, and the import's own
TwinsEver(i, p) ==
  {r \in DOMAIN target : target[r].print = p}
    \cup {r \in DOMAIN import[i].own : import[i].own[r] = p}
TwinsOf(i, p) ==
  {r \in DOMAIN target : target[r].live /\ target[r].print = p}
    \cup {r \in DOMAIN import[i].own : import[i].own[r] = p}

\* What is not there is inserted under the next id.  Which of several twins is
\* found is open: created_at is when a writer's transaction began.
ImportLook(i) ==
  LET q == import[i]
      rest == DOMAIN q.tar.mems \ DOMAIN q.map
      s == CHOOSE m \in rest : TRUE   \* in the order of the file
      p == q.tar.mems[s]
  IN /\ q.at = "open" /\ q.found = <<>> /\ rest # {}
     /\ \/ /\ TwinsOf(i, p) = {} /\ nextRow <= MaxTarget
           /\ import' = [import EXCEPT ![i].own = With(@, nextRow, p),
                                       ![i].map = With(@, s, nextRow)]
           /\ nextRow' = nextRow + 1
        \/ /\ \E r \in TwinsOf(i, p) : import' = [import EXCEPT ![i].found = With(<<>>, s, r)]
           /\ UNCHANGED nextRow
     /\ UNCHANGED <<sourceVars, exportVars, trail, target, rowLinks, files, blobs>>

\* rows the import folded into, or inserted
Locked(i) == {import[i].map[s] : s \in DOMAIN import[i].map}

\* record_duplicate updates the row it was given, deleted or not, and keeps it
\* locked
ImportFold(i, s) ==
  /\ OpenImport(i) /\ s \in DOMAIN import[i].found
  /\ \A j \in Imports \ {i} : OpenImport(j) => import[i].found[s] \notin Locked(j)
  /\ import' = [import EXCEPT ![i].found = <<>>, ![i].map = With(@, s, import[i].found[s])]
  /\ UNCHANGED <<sourceVars, exportVars, trail, target, rowLinks, files, nextRow, blobs>>

\* every memory is written; the blob is uploaded
ImportUpload(i) ==
  /\ import[i].at = "open" /\ DOMAIN import[i].map = DOMAIN import[i].tar.mems
  /\ IF import[i].tar.attached = "stored" THEN blobs < MaxImports /\ blobs' = blobs + 1
                                          ELSE UNCHANGED blobs
  /\ import' = [import EXCEPT ![i].at = "ready"]
  /\ UNCHANGED <<sourceVars, exportVars, trail, target, rowLinks, files, nextRow>>

\* link() passes over a link when one of its ends is deleted.  The ends are
\* locked by now or never come back, so this may be asked at the commit.
Standing(i, r) == r \in DOMAIN import[i].own \/ target[r].live
Rebuilt(i) ==
  {l \in import[i].tar.links : \A n \in {1, 2} : Standing(i, import[i].map[l[n]])}
NewLink(i, l) == <<import[i].map[l[1]], import[i].map[l[2]]>>
NewLinks(i) == {NewLink(i, l) : l \in Rebuilt(i)}

\* memory_links' primary key refuses the second of two equal links
Collides(i) ==
  \/ NewLinks(i) \cap rowLinks # {}
  \/ \E k, l \in Rebuilt(i) : k # l /\ NewLink(i, k) = NewLink(i, l)

ImportCommit(i) ==
  LET q == import[i]
  IN /\ q.at = "ready" /\ ~Collides(i)
     /\ target' = [r \in DOMAIN target \cup DOMAIN q.own |->
                     IF r \in DOMAIN q.own THEN [print |-> q.own[r], live |-> TRUE] ELSE target[r]]
     /\ rowLinks' = rowLinks \cup NewLinks(i)
     /\ files' = files \cup ({<<i, q.tar.attached>>} \ {<<i, "none">>})
     /\ trail < MaxImports
     /\ trail' = trail + 1
     /\ import' = [import EXCEPT ![i] = NoImport]
     /\ UNCHANGED <<sourceVars, exportVars, nextRow, blobs>>

\* A collision, the plan's quota, a deadlock or a dying process: the rows are
\* rolled back, the blob and the drawn ids are not.
ImportAbort(i) ==
  /\ OpenImport(i)
  /\ import' = [import EXCEPT ![i] = NoImport]
  /\ UNCHANGED <<sourceVars, exportVars, trail, target, rowLinks, files, nextRow, blobs>>

\* A delete waits for the imports that folded into the row, but not for one
\* that has only looked it up.
Forget(r) ==
  /\ r \in DOMAIN target /\ target[r].live
  /\ \A i \in Imports : OpenImport(i) => r \notin Locked(i)
  /\ target' = [target EXCEPT ![r].live = FALSE]
  /\ import' = [i \in Imports |->
       IF OpenImport(i)
         THEN LET between == {s \in DOMAIN import[i].found : import[i].found[s] = r}
              IN  [import[i] EXCEPT !.crossed = @ \cup between]
         ELSE import[i]]
  /\ UNCHANGED <<sourceVars, exportVars, trail, rowLinks, files, nextRow, blobs>>

-----------------------------------------------------------------------------
ArchiveNext ==
  \/ \E s \in Sources :
        \/ \E t \in Prints, state \in {"live", "held"} : Write(s, t, state)
        \/ RemoveSource(s)
        \/ \E t \in Sources : Link(s, t)
  \/ Attach
  \/ ExportMemories
  \/ ExportLinks
  \/ ExportHandOut
  \/ \E i \in Imports :
        \/ ImportBegin(i)
        \/ ImportLook(i)
        \/ \E s \in Sources : ImportFold(i, s)
        \/ ImportUpload(i)
        \/ ImportCommit(i)
        \/ ImportAbort(i)
  \/ \E r \in 1..MaxTarget : Forget(r)

ArchiveSpec == ArchiveInit /\ [][ArchiveNext]_archiveVars

-----------------------------------------------------------------------------
ImportCommitted(i) == import[i].at = "ready" /\ trail' # trail /\ import'[i] = NoImport

\* When import_from_tar commits, the target scope has every memory of the
\* archive, live and under its fingerprint, also where it was there before and
\* the import was folded into it, and the archive's links hold between them.
\* Excused are memories whose row was deleted after the import had looked it up
\* and before it was folded in.
ImportComplete ==
  [][\A i \in Imports : ImportCommitted(i) =>
        LET old == import[i].tar
            kept == DOMAIN old.mems \ import[i].crossed
        IN /\ \A s \in kept :
                 \E r \in DOMAIN target' : target'[r].live /\ target'[r].print = old.mems[s]
           /\ \A l \in old.links : {l[1], l[2]} \subseteq kept =>
                 \E p \in rowLinks' : \A n \in {1, 2} :
                    target'[p[n]].live /\ target'[p[n]].print = old.mems[l[n]]]_archiveVars

=============================================================================
