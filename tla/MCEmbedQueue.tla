----------------------------- MODULE MCEmbedQueue -----------------------------
(* EmbedQueue for TLC: ticks, and requests, are alike.                     *)
EXTENDS EmbedQueue, TLC

Symmetry == Permutations(Ticks) \cup Permutations(Requests)
=============================================================================
