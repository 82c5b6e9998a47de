----------------------------- MODULE MCMemoryTool -----------------------------
EXTENDS MemoryTool

(* For TLC: the root, a directory-like name and two names beneath it;      *)
(* a spelling with dots, and one that leaves the root.                     *)
FourPaths == {"root", "d", "d_x", "d_y"}
BeneathFour ==
  [root |-> FourPaths \ {"root"}, d |-> {"d_x", "d_y"}, d_x |-> {}, d_y |-> {}]
SixSpellings ==
  [root |-> "root", d |-> "d", d_x |-> "d_x", d_y |-> "d_y", dots |-> "d_x", up |-> "refused"]
ShortTexts == {<<"x">>, <<"y">>, <<"x", "y">>}

(* Bounds: where writes are folded, one memory is enough for the fold; of  *)
(* three memories, which is what fills a listing, all have one text.       *)
Small ==
  /\ dedup => Len(rows) <= 1
  /\ Len(rows) > 2 => \A id \in DOMAIN rows : rows[id].text \in {NoText, <<"x">>}
=============================================================================
