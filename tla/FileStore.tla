------------------------------- MODULE FileStore -------------------------------
(***************************************************************************)
(* What the memory tool promises its model: a store of text files under    *)
(* one root.  A client asks for a command under some spelling of a path    *)
(* and, unless it is answered with an error, the command is carried out on *)
(* the file that spelling names, as one step.  A new file may be held      *)
(* until a person has looked at it; a held file occupies its path and      *)
(* cannot be edited.                                                       *)
(***************************************************************************)
EXTENDS Integers, Sequences, FiniteSets

CONSTANTS Clients,
          Paths,      \* the root and what may lie beneath it
          Root,
          Beneath,    \* for every path, the paths strictly beneath it
          Spellings,  \* for every spelling of a path, what it names
          Tokens, Texts,
          ListLimit   \* files up to which a directory is seen whole

VARIABLES files,      \* what lies at each path
          asked       \* per client: the command in hand

fileVars == <<files, asked>>

NoFile == [there |-> FALSE]
NoCommand == [command |-> "none"]

Raw == DOMAIN Spellings
Requests ==
  [command : {"create"}, path : Raw, text : Texts]
    \cup [command : {"str_replace"}, path : Raw, old : Tokens, new : Tokens]
    \cup [command : {"insert"}, path : Raw, line : Nat, new : Tokens]
    \cup [command : {"delete"}, path : Raw]
    \cup [command : {"rename"}, path : Raw, to : Raw]

Holds(p) == files[p].there

FileInit == files = [p \in Paths |-> NoFile] /\ asked = [c \in Clients |-> NoCommand]

-----------------------------------------------------------------------------
(* create: a new file, or the old one with other text.                     *)
Save(p, t) ==
  /\ p # Root
  /\ \E h \in BOOLEAN :
       /\ Holds(p) => h = files[p].held
       /\ files' = [files EXCEPT ![p] = [there |-> TRUE, text |-> t, held |-> h]]

Edit(p, t) ==
  /\ Holds(p) /\ ~files[p].held
  /\ files' = [files EXCEPT ![p].text = t]

(* str_replace: the one line that reads old.                               *)
Replace(p, old, new) ==
  LET text == files[p].text
  IN  \E i \in DOMAIN text :
        /\ text[i] = old /\ \A j \in DOMAIN text \ {i} : text[j] # old
        /\ Edit(p, [text EXCEPT ![i] = new])

(* insert: after the given line.                                           *)
AddLine(p, line, new) ==
  LET text == files[p].text
  IN  /\ line <= Len(text)
      /\ Edit(p, SubSeq(text, 1, line) \o <<new>> \o SubSeq(text, line + 1, Len(text)))

(* delete: the file, or else everything beneath the path.  When there are  *)
(* more files than the limit, perhaps only some of it.                     *)
Remove(p) ==
  /\ p # Root
  /\ \E gone \in SUBSET Paths :
       /\ IF Holds(p) THEN gone = {p} ELSE gone \subseteq Beneath[p]
       /\ (~Holds(p) /\ Cardinality({q \in Paths : Holds(q)}) <= ListLimit) => gone = Beneath[p]
       /\ \E q \in gone : Holds(q)
       /\ files' = [q \in Paths |-> IF q \in gone THEN NoFile ELSE files[q]]

Move(p, q) ==
  /\ p # Root /\ Holds(p) /\ ~Holds(q)
  /\ files' = [files EXCEPT ![q] = files[p], ![p] = NoFile]

-----------------------------------------------------------------------------
Ask(c) ==
  /\ asked[c] = NoCommand /\ asked'[c] \in Requests
  /\ asked' = [d \in Clients |-> IF d = c THEN asked'[c] ELSE asked[d]]
  /\ UNCHANGED files

CarryOut(c) ==
  LET r == asked[c]
      p == Spellings[r.path]
  IN  /\ asked' = [asked EXCEPT ![c] = NoCommand]
      /\ r.command # "none" /\ p \in Paths
      /\ CASE r.command = "create" -> Save(p, r.text)
           [] r.command = "str_replace" -> Replace(p, r.old, r.new)
           [] r.command = "insert" -> AddLine(p, r.line, r.new)
           [] r.command = "delete" -> Remove(p)
           [] r.command = "rename" -> Spellings[r.to] \in Paths /\ Move(p, Spellings[r.to])

(* A person decides.                                                       *)
Decide(p) ==
  /\ Holds(p) /\ files[p].held
  /\ files' = [files EXCEPT ![p].held = FALSE]
  /\ UNCHANGED asked

FileNext ==
  \/ \E c \in Clients : Ask(c) \/ CarryOut(c)
  \/ \E p \in Paths : Decide(p)

FileSpec == FileInit /\ [][FileNext]_fileVars
=============================================================================
