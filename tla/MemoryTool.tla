------------------------------ MODULE MemoryTool ------------------------------
(***************************************************************************)
(* The memory-tool backend: file commands on the memories of one scope.    *)
(* A file is a memory whose metadata holds its path.  A command looks its  *)
(* path up and then writes through the ordinary memory service, in one     *)
(* transaction; two commands may overlap.                                  *)
(***************************************************************************)
EXTENDS Integers, Sequences, FiniteSets, FiniteSetsExt, SequencesExt

CONSTANTS Clients,        \* sessions that send commands
          Paths,          \* canonical paths, the root included
          Root,           \* MEMORY_ROOT
          Beneath,        \* for every path, the paths strictly beneath it
          Spellings,      \* for every spelling of a path, what it names
          Tokens,         \* what a line of text may be
          Texts,          \* bound: the texts of files, as sequences of lines
          ListLimit,      \* rows list_by_metadata_key returns (1000 in the code)
          DedupSettings,  \* values of settings.dedup_on_write to consider
          MaxRows         \* bound: memories

ASSUME MemoryToolAssumption ==
  /\ Root \in Paths /\ Beneath \in [Paths -> SUBSET Paths]
  /\ Texts \subseteq Seq(Tokens) /\ DedupSettings \subseteq BOOLEAN
  /\ ListLimit \in Nat \ {0}

VARIABLES rows,   \* the scope's memories, by id
          cmd,    \* per client: the command between its lookup and its write
          dedup,  \* settings.dedup_on_write
          wrote,  \* history: the text last reported saved at each path
          folded  \* history: a new file was folded into an old memory

toolVars == <<rows, cmd, dedup, wrote, folded>>

MaxLines == Max({Len(t) : t \in Texts})

NoCommand == [command |-> "none"]
NoWrite == [op |-> "none", asked |-> NoCommand]
NoText == <<>>

(* A memory after its soft deletion: nothing here reads it again.           *)
Deleted == [live |-> FALSE, path |-> Root, text |-> NoText, hash |-> <<>>, status |-> "readable"]

-----------------------------------------------------------------------------
(* normalise_path: a path the backend refuses names nothing.               *)
NormalisePath(raw) == Spellings[raw]

Raws == DOMAIN Spellings

Live(id) == rows[id].live
PathOf(id) == rows[id].path

(* Variant: memories held for review do not count.                         *)
FindByMetadataReadable(p) ==
  LET hits == {id \in DOMAIN rows : Live(id) /\ PathOf(id) = p /\ rows[id].status # "pending"}
  IN  IF hits = {} THEN 0 ELSE Min(hits)

(* find_by_metadata: the oldest live memory at a path, held ones too.      *)
FindByMetadata(p) ==
  LET hits == {id \in DOMAIN rows : Live(id) /\ PathOf(id) = p}
  IN  IF hits = {} THEN 0 ELSE Min(hits)

(* list_by_metadata_key: the oldest files of the scope, up to the limit,   *)
(* which its callers filter by prefix afterwards.                          *)
ListByMetadataKey ==
  {id \in DOMAIN rows : /\ Live(id)
                        /\ Cardinality({k \in DOMAIN rows : Live(k) /\ k < id}) < ListLimit}

Tree(p) == {id \in ListByMetadataKey : PathOf(id) \in Beneath[p]}

(* content_hash and find_by_content_hash.  The fingerprint is the one of   *)
(* the title and the body at creation: an update does not change it.       *)
Fingerprint(p, t) == IF dedup THEN <<p, t>> ELSE <<>>

FindByContentHash(p, t) ==
  LET hits == {id \in DOMAIN rows : Live(id) /\ rows[id].hash = Fingerprint(p, t)}
  IN  IF dedup /\ hits # {} THEN Min(hits) ELSE 0

(* _slice: a nonsense range shows the whole file.                          *)
Slice(text, start, end) ==
  LET s == Max({1, start})
      e == IF end = -1 THEN Len(text) ELSE Min({end, Len(text)})
  IN  IF s > e THEN [lines |-> text, first |-> 1]
      ELSE [lines |-> SubSeq(text, s, e), first |-> s]

(* _numbered                                                               *)
Numbered(window) == {<<window.first + i - 1, window.lines[i]>> : i \in DOMAIN window.lines}

-----------------------------------------------------------------------------
ToolTypeOK ==
  /\ Len(rows) <= MaxRows
  /\ \A id \in DOMAIN rows :
       /\ PathOf(id) \in Paths /\ rows[id].text \in Texts \cup {NoText}
       /\ rows[id].status \in {"readable", "pending"} /\ Live(id) \in BOOLEAN
  /\ wrote \in [Paths -> Texts \cup {NoText}]

ToolInit ==
  /\ rows = <<>>
  /\ cmd = [c \in Clients |-> NoWrite]
  /\ dedup \in DedupSettings
  /\ wrote = [p \in Paths |-> NoText]
  /\ folded = FALSE

Free(c) == cmd[c].op = "none"

(* _view: the numbered lines of a window, and none for the held notice, a  *)
(* listing or an error.                                                    *)
View(p, start, end) ==
  LET id == FindByMetadata(p)
  IN  IF id = 0 \/ rows[id].status = "pending" THEN {}
      ELSE Numbered(Slice(rows[id].text, start, end))

(* The lookup of a command and the checks before its write: _create,       *)
(* _str_replace, _insert, _delete, _rename.  What fails them is answered   *)
(* with an error and writes nothing.  Bound: a behaviour is followed up to  *)
(* its first fold.                                                         *)
Plan(c, write) ==
  /\ Free(c) /\ ~folded
  /\ cmd' = [cmd EXCEPT ![c] = write]
  /\ UNCHANGED <<rows, dedup, wrote, folded>>

Create(c, raw, text) ==
  LET p == NormalisePath(raw)
  IN  /\ p \in Paths \ {Root}
      /\ Plan(c, [op |-> "save", id |-> FindByMetadata(p), path |-> p, text |-> text,
                  asked |-> [command |-> "create", path |-> raw, text |-> text]])

(* _require_file                                                           *)
Editable(p) == FindByMetadata(p) # 0 /\ rows[FindByMetadata(p)].status # "pending"

(* The text with one line replaced, or with a line more.                   *)
EditFile(c, p, text, asked) ==
  /\ text \in Texts
  /\ Plan(c, [op |-> "edit", id |-> FindByMetadata(p), path |-> p, text |-> text,
              asked |-> asked])

StrReplace(c, raw, old, new) ==
  LET p == NormalisePath(raw)
      text == rows[FindByMetadata(p)].text
      hits == {i \in DOMAIN text : text[i] = old}
  IN  /\ p \in Paths /\ Editable(p)
      /\ Cardinality(hits) = 1
      /\ EditFile(c, p, [i \in DOMAIN text |-> IF i \in hits THEN new ELSE text[i]],
                  [command |-> "str_replace", path |-> raw, old |-> old, new |-> new])

Insert(c, raw, line, new) ==
  LET p == NormalisePath(raw)
      text == rows[FindByMetadata(p)].text
  IN  /\ p \in Paths /\ Editable(p)
      /\ line \in 0..Len(text)
      /\ EditFile(c, p, InsertAt(text, line + 1, new),
                  [command |-> "insert", path |-> raw, line |-> line, new |-> new])

Delete(c, raw) ==
  LET p == NormalisePath(raw)
      id == FindByMetadata(p)
  IN  /\ p \in Paths \ {Root}
      /\ id # 0 \/ Tree(p) # {}
      /\ Plan(c, [op |-> "delete", path |-> p, ids |-> IF id # 0 THEN {id} ELSE Tree(p),
                  asked |-> [command |-> "delete", path |-> raw]])

Rename(c, rawOld, rawNew) ==
  LET p == NormalisePath(rawOld)
      q == NormalisePath(rawNew)
  IN  /\ p \in Paths \ {Root} /\ q \in Paths
      /\ FindByMetadata(p) # 0 /\ FindByMetadata(q) = 0
      /\ Plan(c, [op |-> "rename", id |-> FindByMetadata(p), path |-> p, to |-> q,
                  asked |-> [command |-> "rename", path |-> rawOld, to |-> rawNew]])

-----------------------------------------------------------------------------
(* The write and the commit.                                               *)

Done(c) == cmd' = [cmd EXCEPT ![c] = NoWrite] /\ UNCHANGED dedup

(* MemoryService.update: nothing happens to a row deleted meanwhile, and   *)
(* the tool reports success all the same.                                  *)
Updated(id, row) == IF Live(id) THEN [rows EXCEPT ![id] = row] ELSE rows

(* _create on an existing file, _str_replace, _insert                      *)
Overwrite(c) ==
  /\ cmd[c].op \in {"save", "edit"} /\ cmd[c].id # 0
  /\ rows' = Updated(cmd[c].id, [rows[cmd[c].id] EXCEPT !.text = cmd[c].text])
  /\ wrote' = [wrote EXCEPT ![cmd[c].path] = cmd[c].text]
  /\ Done(c) /\ UNCHANGED folded

(* _store: MemoryService.write stores a memory, which policy may hold...    *)
Store(c) ==
  /\ cmd[c].op = "save" /\ cmd[c].id = 0
  /\ FindByContentHash(cmd[c].path, cmd[c].text) = 0
  /\ Len(rows) < MaxRows
  /\ \E status \in {"readable", "pending"} :
       rows' = Append(rows, [path |-> cmd[c].path, text |-> cmd[c].text, live |-> TRUE,
                             hash |-> Fingerprint(cmd[c].path, cmd[c].text),
                             status |-> status])
  /\ wrote' = [wrote EXCEPT ![cmd[c].path] = cmd[c].text]
  /\ Done(c) /\ UNCHANGED folded

(* ... or folds into the one with its fingerprint, whose metadata, the      *)
(* path included, record_duplicate overwrites with the new ones.            *)
Fold(c) ==
  LET twin == FindByContentHash(cmd[c].path, cmd[c].text)
  IN  /\ cmd[c].op = "save" /\ cmd[c].id = 0 /\ twin # 0
      /\ rows' = [rows EXCEPT ![twin].path = cmd[c].path]
      /\ wrote' = [wrote EXCEPT ![cmd[c].path] = cmd[c].text]
      /\ folded' = TRUE
      /\ Done(c)

Erase(c) ==
  /\ cmd[c].op = "delete"
  /\ rows' = [id \in DOMAIN rows |-> IF id \in cmd[c].ids THEN Deleted ELSE rows[id]]
  /\ wrote' = [q \in Paths |-> IF \E id \in cmd[c].ids : PathOf(id) = q THEN NoText ELSE wrote[q]]
  /\ Done(c) /\ UNCHANGED folded

Relocate(c) ==
  /\ cmd[c].op = "rename"
  /\ rows' = Updated(cmd[c].id, [rows[cmd[c].id] EXCEPT !.path = cmd[c].to])
  /\ wrote' = [wrote EXCEPT ![cmd[c].to] = wrote[cmd[c].path], ![cmd[c].path] = NoText]
  /\ Done(c) /\ UNCHANGED folded

(* A reviewer decides.  Whatever the verdict, the file is no longer         *)
(* "pending", which is all that view and the edits ask.                     *)
Review(id) ==
  /\ Live(id) /\ rows[id].status = "pending"
  /\ rows' = [rows EXCEPT ![id].status = "readable"]
  /\ UNCHANGED <<cmd, dedup, wrote, folded>>

ToolNext ==
  \/ \E c \in Clients :
       \/ \E raw \in Raws :
            \/ \E text \in Texts : Create(c, raw, text)
            \/ \E old, new \in Tokens : StrReplace(c, raw, old, new)
            \/ \E line \in 0..MaxLines, new \in Tokens : Insert(c, raw, line, new)
            \/ Delete(c, raw)
            \/ \E to \in Raws : Rename(c, raw, to)
       \/ Overwrite(c) \/ Store(c) \/ Fold(c) \/ Erase(c) \/ Relocate(c)
  \/ \E id \in DOMAIN rows : Review(id)

ToolSpec == ToolInit /\ [][ToolNext]_toolVars

-----------------------------------------------------------------------------
(* Properties.                                                             *)

(* The file a path names: its oldest live memory, and of that what views   *)
(* show: line n of a readable file is what a view of line n shows as n.    *)
FileAt(p) ==
  LET id == FindByMetadata(p)
  IN  IF id = 0 THEN [there |-> FALSE]
      ELSE LET text == rows[id].text
               held == rows[id].status = "pending"
           IN  [there |-> TRUE, held |-> held,
                text |-> IF held THEN text
                         ELSE [n \in DOMAIN text |->
                                 IF View(p, n, n) = {<<n, text[n]>>} THEN text[n] ELSE "wrong"]]

Promise == INSTANCE FileStore
           WITH files <- [p \in Paths |-> IF dedup THEN [there |-> FALSE] ELSE FileAt(p)],
                asked <- [c \in Clients |-> IF dedup THEN NoCommand ELSE cmd[c].asked]

(* The backend implements a file store: whatever is held, renamed and      *)
(* reused, the command a client sent has, on the file that its spelling of *)
(* the path names, the effect that command has on files, and no other; and *)
(* views show files line by line under the numbers the next insert goes    *)
(* by.  For commands that do not overlap, where repeated writes are not    *)
(* folded.  Of a directory, delete removes all there is as long as the     *)
(* scope holds no more files than one listing returns.                     *)
ToolIsFileStore == Promise!FileSpec

(* A file reported saved, edited or renamed is read back: a view of its     *)
(* path shows its text, unless it is held, and any window of it shows its   *)
(* lines under their own numbers, which is what the next insert goes by.    *)
ReadsBack ==
  \A p \in Paths : wrote[p] # NoText =>
    /\ FileAt(p).there
    /\ ~FileAt(p).held => View(p, 1, -1) = Numbered([lines |-> wrote[p], first |-> 1])
    /\ \A start \in 0..MaxLines, end \in -1..MaxLines :
         View(p, start, end) \subseteq Numbered([lines |-> wrote[p], first |-> 1])
=============================================================================
