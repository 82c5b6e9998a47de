---------------------------- MODULE MCMemoryStore ----------------------------
(***************************************************************************)
(* MemoryStore for TLC.  "lure" reads as instructions to a model; "leak"   *)
(* is the same text with a secret in it, which redaction turns into        *)
(* "lure".  A behaviour takes one of two lanes, each a part of what        *)
(* MemoryStore allows:                                                     *)
(*   serial   one request under way at a time, one reviewer, every kind of *)
(*            write, edits, and a project that reviews what is of low      *)
(*            confidence;                                                  *)
(*   overlap  two requests at once, which write the one text unforced,     *)
(*            while an admin turns the review of everything on and off.    *)
(***************************************************************************)
EXTENDS MemoryStore, TLC

CONSTANTS lure, leak

VARIABLE lane

RedactLeak == [t \in Texts |-> IF t = leak THEN lure ELSE t]

InLane ==
  \/ /\ lane = "serial"
     /\ mode = "low_confidence"
     /\ \A c, d \in Clients : req[c].pc = "idle" \/ req[d].pc = "idle" \/ c = d
     /\ \A e, f \in trail : e[3] = f[3]
  \/ /\ lane = "overlap"
     /\ mode # "low_confidence"
     /\ \A c \in Clients : req[c].pay.text # leak /\ ~req[c].pay.force
     /\ \A i \in Ids : row[i].text # leak

MCInit == Init /\ lane \in {"serial", "overlap"} /\ InLane

MCNext == Next /\ UNCHANGED lane /\ InLane'

MCSpec == MCInit /\ [][MCNext]_<<vars, lane>>

Symmetry == Permutations(Clients)
=============================================================================
