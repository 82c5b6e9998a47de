------------------------------- MODULE MCAccess -------------------------------
(***************************************************************************)
(* For TLC: what stands before a request is served.  Browser sessions,     *)
(* memberships and API keys, subscriptions and rate limits share no state; *)
(* a behaviour exercises one of them and the others rest.                  *)
(***************************************************************************)
EXTENDS Sessions, Tenancy, Billing, RateLimit, TLC

CONSTANTS ok, late        \* API nodes: one whose clock is right, one behind

VARIABLE part

LateByOne == [n \in Nodes |-> IF n = late THEN 1 ELSE 0]

(* No definition tells plans apart, nor users other than the superuser, so *)
(* one of each may stand for whichever comes first.                        *)
FirstPlan == CHOOSE plan \in Paid : TRUE
FirstUser == CHOOSE u \in Users \ {Root} : TRUE

accessVars == <<part, sessionVars, tenancyVars, billingVars, rateVars>>

MCInit ==
  /\ part \in {"sessions", "tenancy", "billing", "rate"}
  /\ SessionInit /\ TenancyInit /\ BillingInit /\ RateInit

MCNext ==
  \/ /\ part = "sessions" /\ SessionNext
     /\ UNCHANGED <<part, tenancyVars, billingVars, rateVars>>
  \/ /\ part = "tenancy" /\ TenancyNext
     /\ account' # {Root} => FirstUser \in account'
     /\ UNCHANGED <<part, sessionVars, billingVars, rateVars>>
  \/ /\ part = "billing" /\ BillingNext
     /\ events' # <<>> => events'[1].plan = FirstPlan
     /\ UNCHANGED <<part, sessionVars, tenancyVars, rateVars>>
  \/ /\ part = "rate" /\ RateNext
     /\ UNCHANGED <<part, sessionVars, tenancyVars, billingVars>>

MCSpec == MCInit /\ [][MCNext]_accessVars

Symmetry == Permutations(Tabs)
=============================================================================
