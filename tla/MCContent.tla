------------------------------ MODULE MCContent ------------------------------
(***************************************************************************)
(* For TLC: what is kept, and how it gets in and out.  The schema under    *)
(* migration, conversations, the memory tool, archives and imports from    *)
(* other tools are checked side by side; a behaviour exercises one of them *)
(* and the others rest.                                                    *)
(***************************************************************************)
EXTENDS Migrations, Conversations, MCMemoryTool, Archive, VendorImport

VARIABLE part

contentVars ==
  <<part, migrationVars, conversationVars, toolVars, archiveVars, importVars>>

-----------------------------------------------------------------------------
(* Imports: one record of every shape, two mem0 records that may share     *)
(* their text, letta files with blocks and passages, unreadable files.     *)
Headlines == [a |-> "a", b |-> "a"]
Id == {"", "i"} \cup Others
Mem0 == [memory : {"", "a", "b"}, text : {"", "a"} \cup Others, id : Id, hash : {"", "u", "v"}]
Mem0Twin == [memory : {"a"}, text : {"", "b"}, id : {"", "i"}, hash : {"u", "v"}]
Zep == [fact : {"", "a"}, name : {"", "b"}, invalid_at : {"", "d"}, edge_uuid : Id]
Block == [value : {"", "a"} \cup Others, label : {"", "human"}, limit : {"", "u"}]
Passage == [text : {"a", "b"}, tags : {"", "u"} \cup Others]
Json == [body : {"", "a"} \cup Others, title : {"", "b"}, type : {"", "event"}, uuid : Id]
One(recs) == {<<r>> : r \in recs}
Laid(from, layouts, recs, blocks) ==
  [from : {from}, layout : layouts, records : recs, blocks : blocks]
SomeFiles ==
  UNION {Laid("mem0", {"listed"}, One(Mem0) \cup (Mem0Twin \X Mem0Twin), {<<>>}),
         Laid("zep", {"listed"}, One(Zep), {<<>>}),
         Laid("letta", {"listed", "array", "keyed"}, One(Passage), One(Block)),
         Laid("json", {"array", "keyed"}, One(Json), {<<>>}),
         Laid("json", {"unknown", "broken"}, {<<>>}, {<<>>})}

-----------------------------------------------------------------------------
(* Bound: what is not in an archive, or is no memory, rests while two      *)
(* memories are imported.                                                  *)
Packed ==
  (\E i \in Imports : OpenImport(i)) =>
     /\ \A s \in Sources : source[s].state \in {"absent", "live"}
     /\ attached # "none" => Cardinality(Listed) <= 1

-----------------------------------------------------------------------------
MCInit ==
  /\ part \in {"schema", "conversations", "tool", "archive", "import"}
  /\ MigrationInit /\ ConversationInit /\ ToolInit /\ ArchiveInit /\ ImportInit
  /\ part # "schema" => db.rev = Latest /\ image = Latest
  /\ part # "tool" => dedup = TRUE
  /\ part # "archive" => target = <<>>
  /\ part # "import" => file = CHOOSE f \in Files : TRUE

MCNext ==
  \/ /\ part = "schema" /\ MigrationNext
     /\ UNCHANGED <<part, conversationVars, toolVars, archiveVars, importVars>>
  \/ /\ part = "conversations" /\ ConversationNext
     /\ UNCHANGED <<part, migrationVars, toolVars, archiveVars, importVars>>
  \/ /\ part = "tool" /\ ToolNext /\ Small'
     /\ UNCHANGED <<part, migrationVars, conversationVars, archiveVars, importVars>>
  \/ /\ part = "archive" /\ ArchiveNext /\ Packed'
     /\ UNCHANGED <<part, migrationVars, conversationVars, toolVars, importVars>>
  \/ /\ part = "import" /\ ImportNext
     /\ UNCHANGED <<part, migrationVars, conversationVars, toolVars, archiveVars>>

MCSpec == MCInit /\ [][MCNext]_contentVars /\ ConversationFairness
=============================================================================
