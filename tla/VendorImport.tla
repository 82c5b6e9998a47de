----------------------------- MODULE VendorImport -----------------------------
(***************************************************************************)
(* kortex import: a file of another memory tool is parsed and its records  *)
(* are posted one by one.  A refused record is counted and skipped; an     *)
(* error of the connection ends the run, while the server may still be     *)
(* working on the request; the user runs the command again.                *)
(***************************************************************************)
EXTENDS Naturals, Sequences, SequencesExt, FiniteSets

CONSTANTS Files,        \* files: source tool, how it is laid out, its records
          Others,       \* values that are no text: numbers, lists, objects
          FirstLine,    \* what _title_from makes of a body
          CommandBudget,    \* bound: runs of the command
          ErrorBudget   \* bound: refusals and broken connections

VARIABLES file,         \* the file that is imported
          run,          \* the run of the command in progress
          runs,
          errors,
          server,       \* requests the server is working on
          stored,         \* memories in the target scope
          crossed       \* history: a run posted while an abandoned request ran

importVars == <<file, run, runs, errors, server, stored, crossed>>

NoRun == [at |-> "idle"]
Blank == {""}           \* what _leftovers drops: null, "", [] and {}

ImportTypeOK ==
  /\ run.at \in {"idle", "posting", "waiting", "refused", "done"}
  /\ runs \in 0..CommandBudget /\ errors \in 0..ErrorBudget
  /\ Cardinality(server) <= ErrorBudget + 1

-----------------------------------------------------------------------------
(* importers.py.  A record is a function from field names to texts, taken  *)
(* without the space around them, and to other values; a blank field is "". *)

BodyNames == [mem0    |-> <<"memory", "text", "content", "data">>,
              zep     |-> <<"fact", "content", "summary", "name">>,
              block   |-> <<"value", "text", "content">>,
              passage |-> <<"text", "content", "value">>,
              json    |-> <<"body", "text", "content", "memory", "value">>]
TitleNames == [mem0 |-> <<>>, zep |-> <<"name">>, block |-> <<"label", "name">>,
               passage |-> <<>>, json |-> <<"title", "name">>]
KindNames == [mem0 |-> <<>>, zep |-> <<>>, block |-> <<>>, passage |-> <<>>,
              json |-> <<"kind", "type">>]
IdNames == [mem0 |-> <<"id", "memory_id", "hash">>, zep |-> <<"uuid", "uuid_", "id", "edge_uuid">>,
            block |-> <<"id", "block_id">>, passage |-> <<"id", "passage_id">>,
            json |-> <<"id", "public_id", "uuid">>]
Consumed == [mem0    |-> ToSet(BodyNames.mem0) \cup {"id", "memory_id"},
             zep     |-> {"fact", "content", "summary", "uuid", "uuid_", "id"},
             block   |-> ToSet(BodyNames.block) \cup {"id", "block_id"},
             passage |-> ToSet(BodyNames.passage) \cup {"id"},
             json    |-> ToSet(BodyNames.json) \cup {"title", "name", "kind", "id"}]

First(rec, names) ==
  LET filled == SelectSeq(names, LAMBDA n : n \in DOMAIN rec /\ rec[n] \notin Blank \cup Others)
  IN IF filled = <<>> THEN "" ELSE rec[Head(filled)]

\* every consumed name is left out, also when its value was not read
LeftoversUnknown(rec, format) ==
  [n \in {m \in DOMAIN rec : /\ m \notin Consumed[format] \cup ToSet(IdNames[format])
                             /\ rec[m] \notin Blank} |-> rec[n]]
Leftovers(rec, format) ==
  [n \in {m \in DOMAIN rec : m \notin Consumed[format] /\ rec[m] \notin Blank} |-> rec[n]]

Superseded(rec, format) ==
  /\ format = "zep"
  /\ \E n \in {"invalid_at", "expired_at"} \cap DOMAIN rec : rec[n] \notin Blank

TitleOf(rec, format) ==
  LET t == First(rec, TitleNames[format])
  IN CASE t # "" -> t
       [] t = "" /\ format = "block" -> "block"
       [] OTHER -> FirstLine[First(rec, BodyNames[format])]

Parsed(rec, format) ==
  [body  |-> First(rec, BodyNames[format]),
   title |-> TitleOf(rec, format),
   kind  |-> LET k == First(rec, KindNames[format])
                 label == First(rec, TitleNames.block)
             IN CASE format = "block" /\ label \in {"persona", "human"} -> "preference"
                  [] k # "" -> k
                  [] OTHER -> "fact",
   id    |-> First(rec, IdNames[format]),
   meta  |-> Leftovers(rec, format)]

\* The records of a file, each with the format it is read as.  layout "unknown"
\* is a document that none of the keys of _records or _letta_blocks fits, "broken"
\* is neither JSON nor JSONL, "keyed" has an object from ids (for blocks, labels)
\* to records instead of a list: _records takes its values and drops the keys,
\* and _letta_blocks the blocks whose value is no text.  A letta document that is
\* a bare array, as JSONL always is, holds passages only.
Tagged(recs, format) == [i \in DOMAIN recs |-> [rec |-> recs[i], format |-> format]]
Blocks(f) ==
  CASE f.layout = "array" -> <<>>
    [] f.layout = "keyed" -> SelectSeq(f.blocks, LAMBDA b : b.value \notin Others)
    [] OTHER -> f.blocks
Entries(f) ==
  CASE f.layout \in {"unknown", "broken"} -> <<>>
    [] f.from = "letta" -> Tagged(Blocks(f), "block") \o Tagged(f.records, "passage")
    [] OTHER -> Tagged(f.records, f.from)

\* parse_file: records without a text, and superseded ones, are left out
ReadableEntries(f) ==
  SelectSeq(Entries(f), LAMBDA e : /\ First(e.rec, BodyNames[e.format]) # ""
                                   /\ ~Superseded(e.rec, e.format))
ParseFile(f) ==
  [i \in DOMAIN ReadableEntries(f) |->
     Parsed(ReadableEntries(f)[i].rec, ReadableEntries(f)[i].format)]

(* What is left of a file is a sequence (SelectSeq is recursive, so this   *)
(* cannot be derived here), and every record of it is read in one of the   *)
(* formats there is a parser for.                                          *)
ASSUME ImportAssumption ==
  \A f \in Files :
    /\ Len(ReadableEntries(f)) \in Nat
    /\ DOMAIN ReadableEntries(f) = 1..Len(ReadableEntries(f))
    /\ \A i \in DOMAIN ReadableEntries(f) : ReadableEntries(f)[i].format \in DOMAIN BodyNames

-----------------------------------------------------------------------------
(* import_command and _write.                                              *)

ImportInit ==
  /\ file \in Files
  /\ run = NoRun /\ runs = 0 /\ errors = 0
  /\ server = {} /\ stored = <<>>
  /\ crossed = FALSE

\* A limit cuts the list, a dry run only prints it.
StartRun(limit) ==
  LET recs == ParseFile(file)
  IN /\ run.at \in {"idle", "done", "refused"} /\ runs < CommandBudget
     /\ runs' = runs + 1
     /\ run' = IF recs = <<>>
                 THEN [at |-> "refused"]
                 ELSE [at |-> "posting",
                       recs |-> IF limit > 0 /\ limit < Len(recs) THEN SubSeq(recs, 1, limit)
                                                                  ELSE recs,
                       next |-> 1, written |-> 0, deduped |-> 0, failed |-> 0]
     /\ UNCHANGED <<file, errors, server, stored, crossed>>

Current == run.recs[run.next]

SameText(x, y) == x.body = y.body /\ x.title = y.title

\* The server looks the fingerprint of title and body up; the row is stored,
\* or folded, when its transaction commits.
TwinById(rec) ==
  SelectInSeq(stored, LAMBDA r : SameText(r, rec) /\ r.id # "")
Twin(rec) ==
  SelectInSeq(stored, LAMBDA r : SameText(r, rec))

Post ==
  /\ run.at = "posting" /\ run.next <= Len(run.recs)
  /\ server' = server \cup {[of |-> <<runs, run.next>>, rec |-> Current, twin |-> Twin(Current)]}
  /\ crossed' = (crossed \/ server # {})
  /\ run' = [run EXCEPT !.at = "waiting"]
  /\ UNCHANGED <<file, runs, errors, stored>>

\* record_duplicate merges the metadata key by key; all leftovers are one key,
\* so those of the newcomer replace those the row had
Folded(row, rec) ==
  [body |-> row.body, title |-> row.title, kind |-> row.kind, id |-> row.id,
   meta |-> IF rec.meta = <<>> THEN row.meta ELSE rec.meta]

Apply(q) ==
  stored' = IF q.twin = 0 THEN Append(stored, q.rec)
                        ELSE [stored EXCEPT ![q.twin] = Folded(@, q.rec)]

Answered == {q \in server : run.at = "waiting" /\ q.of = <<runs, run.next>>}

Answer(q) ==
  /\ q \in Answered
  /\ Apply(q)
  /\ server' = server \ {q}
  /\ run' = [run EXCEPT !.at = "posting", !.next = @ + 1,
                        !.written = @ + (IF q.twin = 0 THEN 1 ELSE 0),
                        !.deduped = @ + (IF q.twin = 0 THEN 0 ELSE 1)]
  /\ UNCHANGED <<file, runs, errors, crossed>>

\* any status of 400 or more: counted, and on to the next record
Refuse(q) ==
  /\ q \in Answered /\ errors < ErrorBudget
  /\ errors' = errors + 1
  /\ server' = server \ {q}
  /\ run' = [run EXCEPT !.at = "posting", !.next = @ + 1, !.failed = @ + 1]
  /\ UNCHANGED <<file, runs, stored, crossed>>

\* a timeout or a broken connection is no CliApiError: the command ends with a
\* traceback, the server may not have noticed
Disconnect ==
  /\ run.at = "waiting" /\ errors < ErrorBudget
  /\ errors' = errors + 1
  /\ run' = NoRun
  /\ UNCHANGED <<file, runs, server, stored, crossed>>

\* an abandoned request is carried out in the end, or is not
Late(q) ==
  /\ q \in server \ Answered
  /\ server' = server \ {q}
  /\ Apply(q) \/ UNCHANGED stored
  /\ UNCHANGED <<file, run, runs, errors, crossed>>

FinishRun ==
  /\ run.at = "posting" /\ run.next > Len(run.recs)
  /\ run' = [run EXCEPT !.at = "done"]
  /\ UNCHANGED <<file, runs, errors, server, stored, crossed>>

ImportNext ==
  \/ \E limit \in {0, 1} : StartRun(limit)
  \/ Post
  \/ \E q \in server : Answer(q) \/ Refuse(q) \/ Late(q)
  \/ Disconnect
  \/ FinishRun

ImportSpec == ImportInit /\ [][ImportNext]_importVars

-----------------------------------------------------------------------------
\* "re-running a half-finished import folds the repeats into the memories
\* already stored" (import_.py:9): whatever was refused or interrupted, no
\* text is stored twice, unless the new run overtook a request of the old one
\* that the server was still working on.
RerunFolds ==
  \A i, j \in DOMAIN stored :
     i # j /\ SameText(stored[i], stored[j]) => crossed

\* Once a run is through without failures, each field of each record that has a
\* text is in the memory that was stored for it, whatever earlier runs, refusals
\* and late requests left there.  What is lost is a field that a parser consumes
\* without having read it, a second alias of one it read or a value that is no
\* text, and, of two records with the same title and text, the leftovers of one
\* and the id of the other.
Shadowed(rec, n, format) ==
  \E names \in {BodyNames[format], TitleNames[format], KindNames[format], IdNames[format]} :
     n \in Consumed[format] \cap ToSet(names) /\ First(rec, names) # rec[n]

Survives(rec, format, row) ==
  \A n \in DOMAIN rec :
     \/ rec[n] \in Blank
     \/ n \in DOMAIN row.meta /\ row.meta[n] = rec[n]
     \/ rec[n] \in {row.body, row.title, row.kind, row.id}
     \/ Shadowed(rec, n, format)

NothingElseLost ==
  run.at = "done" /\ run.failed = 0 /\ run.recs = ParseFile(file) =>
     LET es == ReadableEntries(file)
     IN \A i \in DOMAIN es :
           \/ \E j \in DOMAIN es : j # i /\ SameText(run.recs[i], run.recs[j])
           \/ \E r \in DOMAIN stored :
                 SameText(stored[r], run.recs[i]) /\ Survives(es[i].rec, es[i].format, stored[r])

=============================================================================
