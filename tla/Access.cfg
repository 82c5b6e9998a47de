\* Two tabs of one browser; two organisations; two webhook handlers; a node
\* whose clock is behind.
SPECIFICATION MCSpec
CONSTANTS
  Tabs = {t1, t2}
  MaxCalls = 2
  MaxPairs = 3
  FaultBudget = 1
  Users = {root, u1, u2}
  Root = root
  MaxOrgs = 2
  MaxKeys = 1
  KeyScopes = {"read"}
  Roles = {"admin", "owner"}
  ActBudget = 3
  Handlers = {h1, h2}
  Paid = {"pro", "team"}
  Ring = 2
  MaxEvents = 3
  DeliveryBudget = 4
  MaxCustomers = 2
  ok = ok
  late = late
  Nodes = {ok, late}
  Lag <- LateByOne
  Buckets = {"write"}
  Capacity = 2
  Window = 3
  MaxTime = 6
SYMMETRY Symmetry
INVARIANT SingleUse
PROPERTY DroppedOnlyWhenSpent
INVARIANT TenantsApart
INVARIANT AppliedOnce
INVARIANT PlanFollows
INVARIANT WithinRate
CHECK_DEADLOCK FALSE
