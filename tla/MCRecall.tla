------------------------------ MODULE MCRecall ------------------------------
(***************************************************************************)
(* For TLC: how memories are found, how they fade, and how an agent's      *)
(* harness is wired to the server it recalls them from.  A behaviour       *)
(* follows one search or recall, the ageing of memories, or the wiring.    *)
(***************************************************************************)
EXTENDS Lifecycle, Retrieval, Wiring, TLC

VARIABLE part

recallVars == <<part, vars, retrievalVars, wiringVars>>

Symmetry == Permutations(Commands)

(* Memory 4 is outside the request; it and 3 are found only by links.      *)
SomeTokens == <<2, 1, 1, 1>>
SomeLinks == {<<1, 3>>, <<3, 4>>}
SomeSuperseding == {<<1, 2>>}
SomeBudgets == {<<0, 0>>, <<1, 0>>, <<3, 0>>, <<0, 1>>, <<0, 3>>}
SomePlans == {<<>>, <<"semantic", "expand">>, <<"expand", "keyword", "expand2">>,
              <<"time", "stop", "semantic">>, <<"keyword", "semantic", "time", "keyword">>}

MCInit ==
  /\ part \in {"ageing", "recall", "wiring"}
  /\ Init /\ RetrievalInit /\ WiringInit
  /\ part # "recall" => status = [m \in Memos |-> "approved"]
  /\ \A m \in Outside : status[m] = "approved"    \* a review makes none of them visible

MCNext ==
  \/ part = "ageing" /\ Next /\ UNCHANGED <<part, retrievalVars, wiringVars>>
  \/ part = "recall" /\ RetrievalNext /\ UNCHANGED <<part, vars, wiringVars>>
  \/ part = "wiring" /\ WiringNext /\ UNCHANGED <<part, vars, retrievalVars>>

MCSpec == MCInit /\ [][MCNext]_recallVars
=============================================================================
