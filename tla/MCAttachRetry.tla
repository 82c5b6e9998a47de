---------------------------- MODULE MCAttachRetry ----------------------------
(***************************************************************************)
(* For TLC: what clients send again.  An edit with its Idempotency-Key     *)
(* (SafeRetry) and an upload with its finalize calls (Attachments) share   *)
(* no state; a behaviour exercises one of them and the other rests.        *)
(***************************************************************************)
EXTENDS SafeRetry, Attachments

VARIABLE part

MCInit == part \in {"retry", "attach"} /\ Init /\ AttachInit

MCNext ==
  \/ part = "retry" /\ Next /\ UNCHANGED <<part, attachVars>>
  \/ part = "attach" /\ AttachNext /\ UNCHANGED <<part, vars>>

(* At rest neither part has a fair action enabled, so each has its own      *)
(* fairness and no other.                                                  *)
MCSpec ==
  MCInit /\ [][MCNext]_<<part, vars, attachVars>> /\ Fairness /\ AttachFairness
=============================================================================
