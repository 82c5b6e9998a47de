------------------------------- MODULE RateLimit -------------------------------
(***************************************************************************)
(* The per-minute rate limiter: one token bucket in Redis per caller and   *)
(* kind of request, refilled by the clock of whichever API process asks.   *)
(*                                                                         *)
(* Time is in seconds.  Tokens are counted in 1/Window so that a second's  *)
(* refill, capacity/window, is the whole number Capacity and a request     *)
(* costs Window.                                                           *)
(***************************************************************************)
EXTENDS Integers, FiniteSetsExt

CONSTANTS Nodes,         \* API processes
          Lag,           \* how many seconds each one's clock is behind
          Buckets,       \* "read", "write", "recall" of one caller
          Capacity,      \* requests a bucket holds
          Window,        \* window_seconds
          MaxTime        \* bound: the clock

ASSUME RateAssumption ==
  /\ Lag \in [Nodes -> Int]
  /\ Capacity \in Nat \ {0} /\ Window \in Nat \ {0} /\ MaxTime \in Nat

VARIABLES clock,     \* Redis' clock
          bucket,    \* the hash at rl:{bucket}:{caller}
          passed,    \* history: requests let through up to each second
          loose      \* history: buckets set back by a lagging process or passed unchecked

rateVars == <<clock, bucket, passed, loose>>

NoHash == [there |-> FALSE, tokens |-> 0, ts |-> 0, expires |-> 0]

RateTypeOK ==
  /\ clock \in 0..MaxTime
  /\ bucket \in [Buckets -> [there : BOOLEAN, tokens : 0..(Capacity * Window),
                             ts : Int, expires : Nat]]
  /\ passed \in [Buckets -> [0..MaxTime -> Nat]]
  /\ loose \subseteq Buckets

RateInit ==
  /\ clock = 0
  /\ bucket = [b \in Buckets |-> NoHash]
  /\ passed = [b \in Buckets |-> [t \in 0..MaxTime |-> 0]]
  /\ loose = {}

(* _bucket_for_path_method.  A health check, and a request without          *)
(* credentials, have no bucket and are not checked.                         *)
BucketOf(request) ==
  CASE request = "recall" -> "recall" [] request = "get" -> "read" [] OTHER -> "write"

RateRequests == {"recall", "get", "post"}

(* The script up to the decision: a missing hash is a full bucket, time    *)
(* that runs backwards refills nothing.                                    *)
Refilled(hash, now) ==
  IF ~hash.there THEN Capacity * Window
  ELSE Min({Capacity * Window, hash.tokens + Max({0, now - hash.ts}) * Capacity})

(* Variant: the hash is dropped after a second without requests.           *)
ExpiryShort == 1

(* PEXPIRE: the time a full refill takes, and a second.                    *)
Expiry == Window + 1

(* dispatch and the script, which Redis runs as one step.                  *)
Check(n, request) ==
  LET b == BucketOf(request)
      now == clock - Lag[n]
      tokens == Refilled(bucket[b], now)
      allowed == tokens >= Window
  IN  /\ b \in Buckets
      /\ bucket' = [bucket EXCEPT ![b] =
                      [there |-> TRUE, tokens |-> IF allowed THEN tokens - Window ELSE tokens,
                       ts |-> now, expires |-> clock + Expiry]]
      /\ loose' = IF bucket[b].there /\ now < bucket[b].ts THEN loose \cup {b} ELSE loose
      /\ passed' = [passed EXCEPT ![b][clock] = IF allowed /\ b \notin loose' THEN @ + 1 ELSE @]
      /\ UNCHANGED clock

(* Redis does not answer: the request passes unchecked.                    *)
FailOpen(request) ==
  /\ BucketOf(request) \in Buckets
  /\ loose' = loose \cup {BucketOf(request)}
  /\ UNCHANGED <<clock, bucket, passed>>

(* A second passes, and Redis forgets what has expired.                    *)
Second ==
  /\ clock < MaxTime
  /\ clock' = clock + 1
  /\ bucket' = [b \in Buckets |-> IF bucket[b].there /\ bucket[b].expires <= clock + 1
                                  THEN NoHash ELSE bucket[b]]
  /\ passed' = [b \in Buckets |-> [passed[b] EXCEPT ![clock + 1] = passed[b][clock]]]
  /\ UNCHANGED loose

RateNext ==
  \/ \E n \in Nodes, r \in RateRequests : Check(n, r)
  \/ \E r \in RateRequests : FailOpen(r)
  \/ Second

RateSpec == RateInit /\ [][RateNext]_rateVars

-----------------------------------------------------------------------------
(* Properties.                                                             *)

Before(b, from) == IF from = 0 THEN 0 ELSE passed[b][from - 1]

ClocksWithin(s) == \A n, m \in Nodes : Lag[n] - Lag[m] <= s

(* What a token bucket is for: in any stretch of time a caller gets        *)
(* through a full bucket and what is refilled meanwhile and over the       *)
(* difference of two clocks, and no more, through expiry and re-creation   *)
(* of the hash; as long as Redis answers and no process with an older      *)
(* clock has set the bucket's time back.  Clocks may differ by a second,   *)
(* the one a hash outlives a full refill: when they differ by more, a slow *)
(* process that makes the hash again gives a fast one the rest anew.       *)
WithinRate ==
  \A s \in {0, 1} : ClocksWithin(s) =>
    \A b \in Buckets \ loose : \A from, to \in 0..clock :
      from <= to
      => Window * (passed[b][to] - Before(b, from))
         <= Capacity * Window + (to - from + s) * Capacity
=============================================================================
