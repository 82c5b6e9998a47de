--------------------------- MODULE MCConflictLinks ---------------------------
(***************************************************************************)
(* ConflictLinks for TLC.  Memories 1 and 2 are of one organisation, 3 is  *)
(* the newest and of another.  A behaviour takes one of two lanes, each a  *)
(* part of what ConflictLinks allows:                                      *)
(*   pairs  memories 1 and 2, edited, linked and unlinked under two ticks, *)
(*          where 2 may be held and reviewed;                              *)
(*   queue  a queue longer than a batch of one tick, which 2 and 3 keep    *)
(*          filling; nothing is held, edited or unlinked.                  *)
(***************************************************************************)
EXTENDS ConflictLinks

CONSTANT first     \* the tick of the queue

VARIABLE lane

mcVars == <<vars, lane>>

OwnerTwo == [m \in Mem |-> IF m < 3 THEN "acme" ELSE "beta"]

Runs(w) == lane = "pairs" \/ w = first

InLane ==
  \/ /\ lane = "pairs"
     /\ row[3].state = "absent" /\ row[1].review = "approved"
  \/ /\ lane = "queue"
     /\ \A w \in Tick \ {first} : tick[w].pc = "idle"
     /\ \A m \in Mem : /\ row[m].review = "approved"
                       /\ row[m].steady \/ row[m].state = "deleted"

MCInit == Init /\ lane \in {"pairs", "queue"} /\ InLane
MCNext ==
  /\ Next /\ UNCHANGED lane /\ InLane'
  /\ lane = "queue" => ~Unlink
  /\ lane = "pairs" => \A m \in Mem : ~Forget(m)

MCSpec == MCInit /\ [][MCNext]_mcVars
                 /\ \A w \in Tick : WF_mcVars(Runs(w) /\ TickStep(w) /\ UNCHANGED lane)
                 /\ WF_mcVars(NewDay /\ UNCHANGED lane)
=============================================================================
