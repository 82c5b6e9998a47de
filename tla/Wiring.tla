-------------------------------- MODULE Wiring --------------------------------
(***************************************************************************)
(* kortex init: a repository's agent harness is wired to the server.  The  *)
(* command finds or creates the project, mints a key, merges an entry with *)
(* the key into the harness's configuration file, which also holds the     *)
(* user's own settings, and writes, reads and deletes a canary memory.     *)
(* Several commands may run at once, be killed at any point and be run     *)
(* again, and users edit their files.                                      *)
(*                                                                         *)
(* A file's text is what the merge tells apart: its shape, the edition of  *)
(* the user's settings in it, its layout, the entry and the hook.  A dry   *)
(* run reads and changes nothing, which is no step here.                   *)
(***************************************************************************)
EXTENDS Naturals, FiniteSets

CONSTANTS Commands,     \* kortex init processes
          Harnesses,    \* those of HARNESSES that are in use
          Globals,      \* whether --global is given: a set of Booleans
          Probes,       \* whether the SSE endpoint answers: a set of Booleans
          InitBudget,   \* bound: times the command is started
          KillBudget,   \* bound: processes killed
          SaveBudget    \* bound: times a user saves a file

ASSUME WiringAssumption ==
  /\ Globals \subseteq BOOLEAN /\ Probes \subseteq BOOLEAN
  /\ InitBudget \in Nat /\ KillBudget \in Nat /\ SaveBudget \in Nat

VARIABLES disk,         \* the configuration files
          spare,        \* ... and the .bak file beside each
          wire,         \* the commands in progress
          inits, kills,
          keys,         \* the number of keys minted for it
          canary,       \* canary memories: how many were made, which are live
          mine,         \* history: the edition the user last saved of each file
          torn,         \* history: files whose writer was killed while writing
          spoiled,      \* history: files changed under a command, or merged when torn
          cut           \* history: a command ended while it had a canary

wiringVars ==
  <<disk, spare, wire, inits, kills, keys, canary, mine, torn, spoiled, cut>>

(* The profile's own key; minted keys are numbered from 2.                 *)
ProfileKey == 1

(* A harness has a file in the repository and one in the home directory;   *)
(* codex has only the latter.  The hooks of Claude Code are in a third.    *)
ConfigPath(h, global) == <<h, IF global \/ h = "codex" THEN "home" ELSE "repo">>
HookPath == <<"claude-code", "settings">>
ConfigFiles == {ConfigPath(h, g) : h \in Harnesses, g \in Globals} \cup {HookPath}

Text == [there : BOOLEAN, shape : {"blank", "object", "odd", "broken"}, own : 0..SaveBudget,
         tidy : BOOLEAN, key : 0..(InitBudget + 1), via : {"", "sse", "stdio"}, hook : BOOLEAN]
Missing == [there |-> FALSE, shape |-> "blank", own |-> 0, tidy |-> TRUE,
            key |-> 0, via |-> "", hook |-> FALSE]
Truncated == [Missing EXCEPT !.there = TRUE]
Off == [at |-> "off"]

WiringTypeOK ==
  /\ disk \in [ConfigFiles -> Text] /\ spare \in [ConfigFiles -> Text]
  /\ inits \in 0..InitBudget /\ kills \in 0..KillBudget
  /\ keys \in 0..InitBudget
  /\ canary.live \subseteq 1..canary.made
  /\ mine \in [ConfigFiles -> 0..SaveBudget]
  /\ torn \subseteq ConfigFiles /\ spoiled \subseteq ConfigFiles
  /\ \A c \in Commands :
       wire[c] = Off \/ IF wire[c].at \in {"lookup", "insert", "delete"}
                        THEN wire[c].memory \in 0..canary.made
                        ELSE wire[c].path \in ConfigFiles /\ wire[c].text \in Text

WiringInit ==
  /\ disk = [p \in ConfigFiles |-> Missing]
  /\ spare = [p \in ConfigFiles |-> Missing]
  /\ wire = [c \in Commands |-> Off]
  /\ inits = 0 /\ kills = 0
  /\ keys = 0
  /\ canary = [made |-> 0, live |-> {}]
  /\ mine = [p \in ConfigFiles |-> 0]
  /\ torn = {} /\ spoiled = {} /\ cut = FALSE

userFiles == <<disk, spare, mine, torn, spoiled>>
wireCounts == <<inits, kills>>

GoTo(c, at) == wire' = [wire EXCEPT ![c].at = at]
InitEnds(c) == wire' = [wire EXCEPT ![c] = Off]

-----------------------------------------------------------------------------
(* init, from its options to the key.  Each request may fail: an error     *)
(* status ends the command with a message, a broken connection with a      *)
(* traceback.                                                              *)

StartInit(c, h, global, hooks) ==
  /\ wire[c] = Off /\ inits < InitBudget
  /\ inits' = inits + 1
  /\ wire' = [wire EXCEPT ![c] =
                [at |-> "project", harness |-> h, path |-> ConfigPath(h, global),
                 hooks |-> hooks /\ h = "claude-code", key |-> 0, text |-> Missing]]
  /\ UNCHANGED <<userFiles, kills, keys, canary, cut>>

(* Found or created, or the command ends; of two that create it at once    *)
(* the second is refused, for the slug is unique.                          *)
ResolveProject(c) ==
  /\ wire[c].at = "project"
  /\ GoTo(c, "key") \/ InitEnds(c)
  /\ UNCHANGED <<userFiles, wireCounts, keys, canary, cut>>

(* A new key each time; the profile's, if it has one, when minting is      *)
(* refused, else the command ends.                                         *)
ResolveKey(c) ==
  /\ wire[c].at = "key"
  /\ \/ /\ keys' = keys + 1
        /\ wire' = [wire EXCEPT ![c].at = "config", ![c].key = keys + 2]
     \/ /\ wire' = [wire EXCEPT ![c].at = "config", ![c].key = ProfileKey]
        /\ UNCHANGED keys
     \/ InitEnds(c) /\ UNCHANGED keys
  /\ UNCHANGED <<userFiles, wireCounts, canary, cut>>

-----------------------------------------------------------------------------
(* _write_configs: the entry, then the hook, each read, merged and written.*)

(* What cannot be parsed, or is not laid out as expected, is not touched;  *)
(* for codex the parser's own exception says so.                           *)
Refuses(text) == text.shape \in {"odd", "broken"}

(* The transport the entry names; codex has no remote form.                *)
Transport(h, alive) == IF alive /\ h # "codex" THEN "sse" ELSE "stdio"

(* JSON is written anew, TOML keeps its layout.                            *)
MergeEntry(w, text, via) ==
  [text EXCEPT !.there = TRUE, !.shape = "object", !.key = w.key, !.via = via,
               !.tidy = IF w.harness = "codex" THEN @ ELSE TRUE]
MergeHook(text) ==
  [text EXCEPT !.there = TRUE, !.shape = "object", !.tidy = TRUE, !.hook = TRUE]

(* What follows when the file in hand is done with: the hook's, or _verify.*)
NextFile(c) ==
  wire' = [wire EXCEPT ![c] = IF @.hooks /\ @.path # HookPath
                              THEN [@ EXCEPT !.at = "hook", !.text = Missing]
                              ELSE [at |-> "lookup", memory |-> 0]]

(* History: another command is between reading and writing p.              *)
InHand(d, p) == wire[d].at \in {"backup", "truncate", "write"} /\ wire[d].path = p
Disturbed(p, c) ==
  IF \E d \in Commands \ {c} : InHand(d, p) THEN spoiled \cup {p} ELSE spoiled

ReadConfig(c) ==
  /\ wire[c].at = "config"
  /\ LET text == disk[wire[c].path]
     IN  IF Refuses(text)
         THEN InitEnds(c)
         ELSE \E alive \in Probes :
                wire' = [wire EXCEPT
                  ![c].at = "backup",
                  ![c].text = MergeEntry(wire[c], text, Transport(wire[c].harness, alive))]
  /\ spoiled' = Disturbed(wire[c].path, c)
  /\ UNCHANGED <<disk, spare, mine, torn, wireCounts, keys, canary, cut>>

ReadHook(c) ==
  /\ wire[c].at = "hook"
  /\ IF Refuses(disk[HookPath])
     THEN InitEnds(c)
     ELSE wire' = [wire EXCEPT ![c].at = "backup", ![c].path = HookPath,
                               ![c].text = MergeHook(disk[HookPath])]
  /\ spoiled' = Disturbed(HookPath, c)
  /\ UNCHANGED <<disk, spare, mine, torn, wireCounts, keys, canary, cut>>

(* write_merged.  Nothing is written when nothing changes; else what the   *)
(* file says by now is copied to the .bak file, whatever that held.        *)
(* Variant: the copy is left for after the write.                          *)
BackupLate(c) ==
  LET p == wire[c].path IN
  /\ wire[c].at = "backup"
  /\ IF disk[p] = wire[c].text THEN NextFile(c) ELSE GoTo(c, "truncate")
  /\ spoiled' = IF p \in torn THEN spoiled \cup {p} ELSE spoiled
  /\ UNCHANGED <<disk, spare, mine, torn, wireCounts, keys, canary, cut>>

Backup(c) ==
  LET p == wire[c].path IN
  /\ wire[c].at = "backup"
  /\ IF disk[p] = wire[c].text
     THEN NextFile(c) /\ UNCHANGED spare
     ELSE /\ GoTo(c, "truncate")
          /\ spare' = IF disk[p].there THEN [spare EXCEPT ![p] = disk[p]] ELSE spare
  /\ spoiled' = IF p \in torn THEN spoiled \cup {p} ELSE spoiled
  /\ UNCHANGED <<disk, mine, torn, wireCounts, keys, canary, cut>>

(* write_text opens the file, which empties it, and writes.                *)
Truncate(c) ==
  LET p == wire[c].path IN
  /\ wire[c].at = "truncate"
  /\ disk' = [disk EXCEPT ![p] = Truncated]
  /\ GoTo(c, "write")
  /\ spoiled' = Disturbed(p, c)
  /\ UNCHANGED <<spare, mine, torn, wireCounts, keys, canary, cut>>

WriteText(c) ==
  LET p == wire[c].path IN
  /\ wire[c].at = "write"
  /\ disk' = [disk EXCEPT ![p] = wire[c].text]
  /\ NextFile(c)
  /\ spoiled' = Disturbed(p, c)
  /\ UNCHANGED <<spare, mine, torn, wireCounts, keys, canary, cut>>

-----------------------------------------------------------------------------
(* _canary.  The canary's text is always the same, so a write folds into   *)
(* one that is live; the server looks it up and then inserts.              *)

LookUpCanary(c) ==
  /\ wire[c].at = "lookup"
  /\ \/ \E m \in IF canary.live = {} THEN {0} ELSE canary.live :
          wire' = [wire EXCEPT ![c] = [at |-> "insert", memory |-> m]]
     \/ InitEnds(c)
  /\ UNCHANGED <<userFiles, wireCounts, keys, canary, cut>>

InsertCanary(c) ==
  /\ wire[c].at = "insert"
  /\ IF wire[c].memory = 0
     THEN /\ canary' = [made |-> canary.made + 1, live |-> canary.live \cup {canary.made + 1}]
          /\ wire' = [wire EXCEPT ![c] = [at |-> "delete", memory |-> canary.made + 1]]
     ELSE GoTo(c, "delete") /\ UNCHANGED canary
  /\ UNCHANGED <<userFiles, wireCounts, keys, cut>>

(* The canary is read, and deleted whatever the answer was; whether the    *)
(* command says "Done" is all that depends on it.                          *)
DeleteCanary(c) ==
  /\ wire[c].at = "delete"
  /\ canary' = [canary EXCEPT !.live = @ \ {wire[c].memory}]
  /\ InitEnds(c)
  /\ UNCHANGED <<userFiles, wireCounts, keys, cut>>

-----------------------------------------------------------------------------
(* A process is killed, or a request of it about the canary is lost.  A    *)
(* file it was writing stays empty or half written.                        *)
KillInit(c) ==
  /\ wire[c] # Off /\ kills < KillBudget
  /\ kills' = kills + 1
  /\ InitEnds(c)
  /\ cut' = (cut \/ wire[c].at \in {"insert", "delete"})
  /\ IF wire[c].at = "write"
     THEN LET p == wire[c].path IN
          /\ torn' = torn \cup {p}
          /\ \E shape \in {"blank", "broken"} : disk' = [disk EXCEPT ![p].shape = shape]
     ELSE UNCHANGED <<disk, torn>>
  /\ UNCHANGED <<spare, mine, spoiled, inits, keys, canary>>

(* A user saves a file, with what kortex put there, in any layout.         *)
SaveFile(p, shape) ==
  LET saved == Cardinality({n \in 1..SaveBudget : \E q \in ConfigFiles : mine[q] >= n}) IN
  /\ saved < SaveBudget
  /\ mine' = [mine EXCEPT ![p] = saved + 1]
  /\ disk' = [disk EXCEPT ![p] = [@ EXCEPT !.there = TRUE, !.shape = shape, !.own = saved + 1,
                                           !.tidy = FALSE]]
  /\ torn' = torn \ {p}
  /\ spoiled' = IF \E d \in Commands : InHand(d, p) THEN spoiled \cup {p} ELSE spoiled
  /\ UNCHANGED <<spare, wire, wireCounts, keys, canary, cut>>

WiringNext ==
  \/ \E c \in Commands :
       \/ \E h \in Harnesses, global \in Globals, hooks \in BOOLEAN :
            StartInit(c, h, global, hooks)
       \/ ResolveProject(c) \/ ResolveKey(c)
       \/ ReadConfig(c) \/ ReadHook(c) \/ Backup(c) \/ Truncate(c) \/ WriteText(c)
       \/ LookUpCanary(c) \/ InsertCanary(c) \/ DeleteCanary(c)
       \/ KillInit(c)
  \/ \E p \in ConfigFiles, shape \in {"object", "odd", "broken"} : SaveFile(p, shape)

WiringSpec == WiringInit /\ [][WiringNext]_wiringVars

-----------------------------------------------------------------------------
(* Properties.                                                             *)

(* "Never clobber -- keys we did not add survive untouched" (harnesses.py, *)
(* line 6): the user's settings are in the file, and while it is being     *)
(* written, or when the writer was killed in that moment, in its backup.   *)
(* Not so when two commands, or a command and the user, have the file in   *)
(* hand at once, or when a command is run on a file a killed one left empty.*)
SettingsKept ==
  \A p \in ConfigFiles \ spoiled :
    LET writing == p \in torn \/ \E c \in Commands : wire[c].at = "write" /\ wire[c].path = p
    IN  (IF writing THEN spare ELSE disk)[p].own = mine[p]

(* "the canary cleans up after itself" (init.py, line 14): one is live only *)
(* while a command has still to delete it, or after one was cut short.     *)
CanaryGone ==
  cut \/ \A m \in canary.live :
           \E c \in Commands : wire[c].at = "delete" /\ wire[c].memory = m

(* "Re-running is safe" (init.py, line 13), also at once and after a kill.  *)
RerunSafe == SettingsKept /\ CanaryGone
=============================================================================
