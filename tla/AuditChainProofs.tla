--------------------------- MODULE AuditChainProofs ---------------------------
(***************************************************************************)
(* An org's audit log, for any number of appends, rollbacks and purges.    *)
(*                                                                         *)
(* Until two of its transactions overlap it is one chain: created_at grows *)
(* with the id, so retention cuts a prefix, and the head a transaction     *)
(* reads is still the newest row when it inserts (SInv).  Whatever is      *)
(* taken from the middle of a chain is then missed (GapBreaks), and the    *)
(* verifier, which reads it page by page while rows are appended, brings   *)
(* along the link of the next page until retention has removed something   *)
(* (WalkInv).                                                              *)
(*                                                                         *)
(* Then it may fork; yet no link names a row that was rolled  *)
(* back, because a row not committed is seen by its own transaction only   *)
(* (RowsApart, LinksNamed).                                                *)
(***************************************************************************)
EXTENDS AuditChain, TLAPS, FiniteSetTheorems, WellFoundedInduction

(* A set of numbers that is not empty has a least element.                 *)
LEMMA LeastNat ==
  ASSUME NEW T \in SUBSET Nat, T # {}
  PROVE  \E n \in T : \A m \in T : n <= m
<1>1. PICK n \in T : \A m \in T : ~ (<<m, n>> \in OpToRel(<, Nat))
  BY NatLessThanWellFounded, WFMin
<1>2. \A m \in T : ~(m < n)
  BY <1>1 DEF OpToRel
<1> QED BY <1>2

(* "ORDER BY id DESC LIMIT 1" finds a row whenever there is one.           *)
LEMMA NewestExists ==
  ASSUME NEW S \in SUBSET Ids, S # {}
  PROVE  /\ Newest(S) \in S
         /\ \A j \in S : j <= Newest(S)
<1> DEFINE T == {n \in Nat : \E i \in S : n = MaxId - i}
<1>0. MaxId \in Nat
  BY AuditChainAssumption
<1>1. T # {} /\ T \subseteq Nat
  <2>1. PICK i \in S : TRUE
    OBVIOUS
  <2>2. MaxId - i \in Nat
    BY <1>0 DEF Ids
  <2> QED BY <2>1, <2>2
<1>2. PICK n \in T : \A m \in T : n <= m
  BY <1>1, LeastNat
<1>3. PICK i \in S : n = MaxId - i
  BY <1>2
<1>4. \A j \in S : j <= i
  <2> TAKE j \in S
  <2>1. MaxId - j \in T
    BY <1>0 DEF Ids
  <2> QED BY <1>0, <1>2, <1>3, <2>1 DEF Ids
<1> QED BY <1>3, <1>4 DEF Newest

LEMMA IdsInt == \A i \in Ids : i \in Int /\ i \in Nat /\ ~(i < i)
  BY DEF Ids

(* The converse: a row of S above all others is the one found.             *)
LEMMA NewestIs ==
  ASSUME NEW S \in SUBSET Ids, NEW i \in S, \A j \in S : j <= i
  PROVE  Newest(S) = i
<1> DEFINE n == Newest(S)
<1>1. n \in S /\ i <= n
  BY NewestExists
<1>2. n <= i
  BY <1>1
<1>3. n \in Int /\ i \in Int
  BY <1>1, IdsInt
<1> HIDE DEF n
<1>4. n = i
  BY <1>1, <1>2, <1>3
<1> QED BY <1>4 DEF n

-----------------------------------------------------------------------------
(* The rows of S form a chain under the links p.                           *)
Linked(p, S) ==
  \A i \in S : Chained(i) /\ Before(i, S) # {} => p[i] = Newest(Before(i, S))

(* That is what verify checks.                                             *)
LEMMA IntactIsLinked == ASSUME NEW S PROVE Intact(S) <=> Linked(prev, S)
  BY DEF Intact, Breaks, Linked

(* Removing a prefix of a chain leaves a chain (retention).                *)
LEMMA PrefixRemoved ==
  ASSUME NEW p, NEW S \in SUBSET Ids, NEW D \in SUBSET Ids, Linked(p, S),
         \A i \in S, j \in D : i < j => i \in D
  PROVE  Linked(p, S \ D)
<1> SUFFICES ASSUME NEW i \in S \ D, Chained(i), Before(i, S \ D) # {}
             PROVE  p[i] = Newest(Before(i, S \ D))
  BY DEF Linked
<1>1. Before(i, S) \in SUBSET Ids /\ Before(i, S) # {} /\ Before(i, S \ D) \in SUBSET Ids
  BY DEF Before
<1> DEFINE n == Newest(Before(i, S))
<1>2. n \in Before(i, S) /\ \A j \in Before(i, S) : j <= n
  BY <1>1, NewestExists
<1>3. n \notin D
  <2> SUFFICES ASSUME n \in D PROVE FALSE
    OBVIOUS
  <2>1. PICK k \in Before(i, S \ D) : TRUE
    OBVIOUS
  <2>2. k <= n /\ k \in S /\ k \notin D /\ n \in Ids /\ k \in Ids
    BY <1>2, <2>1 DEF Before
  <2>3. k = n
    BY <2>2 DEF Ids
  <2> QED BY <2>2, <2>3
<1>4. n \in Before(i, S \ D) /\ \A j \in Before(i, S \ D) : j <= n
  BY <1>2, <1>3 DEF Before
<1>5. Newest(Before(i, S \ D)) = n
  BY <1>1, <1>4, NewestIs
<1>6. p[i] = n
  BY <1>1 DEF Linked
<1> QED BY <1>5, <1>6

(* A row whose link is the head of the rows below it extends the chain     *)
(* (append).                                                               *)
LEMMA AppendedLinked ==
  ASSUME NEW p, NEW q, NEW S \in SUBSET Ids, NEW n \in Ids, Linked(p, S),
         \A i \in S : i < n /\ q[i] = p[i],
         q[n] = HeadHash(S)
  PROVE  Linked(q, S \cup {n})
<1> SUFFICES ASSUME NEW i \in S \cup {n}, Chained(i), Before(i, S \cup {n}) # {}
             PROVE  q[i] = Newest(Before(i, S \cup {n}))
  BY DEF Linked
<1>1. CASE i \in S
  <2>1. Before(i, S \cup {n}) = Before(i, S)
    BY <1>1 DEF Before, Ids
  <2> QED BY <1>1, <2>1 DEF Linked
<1>2. CASE i = n
  <2>0. ~(n < n)
    BY DEF Ids
  <2>1. Before(n, S \cup {n}) = {j \in S : Chained(j)}
    BY <2>0 DEF Before
  <2>2. PICK k \in S : Chained(k)
    BY <1>2, <2>1
  <2>3. Newest(S) \in S /\ \A j \in S : j <= Newest(S)
    BY <2>2, NewestExists
  <2>4. Chained(Newest(S))
    <3> DEFINE h == Newest(S)
    <3>1. h \in Int /\ k \in Int /\ Legacy \in Int
      BY <2>2, <2>3, IdsInt, AuditChainAssumption
    <3>2. k <= h /\ k > Legacy
      BY <2>2, <2>3 DEF Chained
    <3> HIDE DEF h
    <3>3. h > Legacy
      BY <3>1, <3>2
    <3> QED BY <3>3 DEF h, Chained
  <2>5. Newest({j \in S : Chained(j)}) = Newest(S)
    BY <2>3, <2>4, NewestIs
  <2>6. q[n] = Newest(S)
    BY <2>2, <2>4 DEF HeadHash
  <2> QED BY <1>2, <2>1, <2>5, <2>6
<1> QED BY <1>1, <1>2

LEMMA LiveInIds == LiveIds \in SUBSET Ids
  BY DEF LiveIds

-----------------------------------------------------------------------------
(* Types, for any number of transactions that overlap.                     *)

LEMMA TypesInit == Init => TypeOK
<1> SUFFICES ASSUME Init PROVE TypeOK
  OBVIOUS
<1> USE AuditChainAssumption
<1>1. IdleTxn \in TxnState /\ IdleWalk \in Walk
  BY DEF IdleTxn, TxnState, IdleWalk, Walk, Unset
<1>2. nextId \in 1..(MaxId + 1)
  BY DEF Init
<1>3. /\ state \in [Ids -> {"free", "open", "live", "gone", "purged"}]
      /\ lock \in [Ids -> Txns \cup {NoTxn}]
      /\ txn \in [Txns -> TxnState]
  BY <1>1 DEF Init
<1>4. prev \in [Ids -> 0..MaxId] /\ at \in [Ids -> 0..MaxClock] /\ clock \in 0..MaxClock
  BY DEF Init, Genesis
<1> QED BY <1>1, <1>2, <1>3, <1>4 DEF Init, TypeOK

(* A walk goes from id to id.                                              *)
LEMMA WalkTyped == ASSUME TypeOK, VerifyStart \/ VerifyPage PROVE walk' \in Walk
<1>0. 0 \in 0..MaxId /\ Unset \in (0..MaxId) \cup {MaxId + 1} /\ \A i \in Ids : i \in 0..MaxId
  BY AuditChainAssumption DEF Unset, Ids
<1>1. CASE VerifyStart
  BY <1>0, <1>1 DEF VerifyStart, Walk
<1>2. CASE VerifyPage
  <2> DEFINE C == {i \in PageRows : Chained(i)}
             e == IF C = {} THEN walk.expected ELSE Newest(C)
  <2>1. PageRows \in SUBSET Ids /\ C \in SUBSET Ids
    BY LiveInIds DEF PageRows
  <2>2. PageRows # {} => Newest(PageRows) \in 0..MaxId
    BY <1>0, <2>1, NewestExists
  <2>3. C # {} => Newest(C) \in 0..MaxId
    BY <1>0, <2>1, NewestExists
  <2>4. walk \in Walk
    BY DEF TypeOK
  <2>5. e \in (0..MaxId) \cup {MaxId + 1}
    BY <2>3, <2>4 DEF Walk
  <2>6. \/ walk' = [walk EXCEPT !.pc = "intact"]
        \/ walk' = [walk EXCEPT !.pc = "broken"]
        \/ PageRows # {} /\ walk' = [pc |-> "walking", after |-> Newest(PageRows), expected |-> e]
    BY <1>2 DEF VerifyPage
  <2> HIDE DEF C, e
  <2> QED BY <2>2, <2>4, <2>5, <2>6 DEF Walk
<1> QED BY <1>1, <1>2

LEMMA TypesStep == TypeOK /\ [Next]_vars => TypeOK'
<1> SUFFICES ASSUME TypeOK, [Next]_vars PROVE TypeOK'
  OBVIOUS
<1>1. ASSUME NEW x \in Txns, AppendStart(x) PROVE TypeOK'
  <2>1. txn[x] \in TxnState
    BY DEF TypeOK
  <2>2. txn'[x] \in TxnState
    BY <1>1, <2>1 DEF TxnState, TypeOK, AppendStart
  <2>3. txn' \in [Txns -> TxnState]
    BY <1>1, <2>2 DEF AppendStart, TypeOK
  <2>4. overlapped' \in BOOLEAN
    BY <1>1 DEF AppendStart, TypeOK
  <2> QED BY <1>1, <2>3, <2>4 DEF AppendStart, TypeOK
<1>2. ASSUME NEW x \in Txns, LockHeadRead(x) PROVE TypeOK'
  <2> DEFINE seen == (LiveIds \cup txn[x].mine) \ txn[x].dels
  <2>1. txn[x] \in TxnState /\ seen \in SUBSET Ids
    BY LiveInIds DEF TypeOK, TxnState
  <2>2. txn' = [txn EXCEPT ![x] = [txn[x] EXCEPT !.pc = "locking", !.cand = seen]]
    BY <1>2 DEF LockHeadRead, TypeOK
  <2> HIDE DEF seen
  <2>3. txn' \in [Txns -> TxnState]
    BY <2>1, <2>2 DEF TypeOK, TxnState
  <2> QED BY <1>2, <2>3 DEF LockHeadRead, TypeOK
<1>3. ASSUME NEW x \in Txns, LockHeadInsert(x) PROVE TypeOK'
  <2> DEFINE S == {i \in txn[x].cand : state[i] # "purged"}
  <2>0. nextId \in Ids /\ txn[x] \in TxnState
    BY <1>3 DEF LockHeadInsert, TypeOK, Ids
  <2>1. HeadHash(S) \in 0..MaxId
    <3>1. S \in SUBSET Ids
      BY <2>0 DEF TxnState
    <3>2. (\A i \in Ids : i \in 0..MaxId) /\ 0 \in 0..MaxId
      BY AuditChainAssumption DEF Ids
    <3>3. S # {} => Newest(S) \in Ids
      BY <3>1, NewestExists
    <3> QED BY <3>2, <3>3 DEF HeadHash, Genesis
  <2>2. prev' \in [Ids -> 0..MaxId]
    BY <1>3, <2>0, <2>1 DEF LockHeadInsert, TypeOK
  <2>3. state' \in [Ids -> {"free", "open", "live", "gone", "purged"}]
    BY <1>3 DEF LockHeadInsert, TypeOK
  <2>4. at' \in [Ids -> 0..MaxClock]
    BY <1>3, <2>0 DEF LockHeadInsert, TypeOK, TxnState
  <2>5. lock' \in [Ids -> Txns \cup {NoTxn}]
    BY <1>3 DEF LockHeadInsert, TypeOK
  <2>6. txn' \in [Txns -> TxnState]
    BY <1>3, <2>0, ZenonT(60) DEF LockHeadInsert, TypeOK, TxnState
  <2>7. nextId' \in 1..(MaxId + 1)
    BY <1>3, AuditChainAssumption DEF LockHeadInsert, TypeOK
  <2> QED BY <1>3, <2>2, <2>3, <2>4, <2>5, <2>6, <2>7 DEF LockHeadInsert, TypeOK
<1>4. ASSUME NEW x \in Txns, NEW c \in 0..MaxClock, PurgeDelete(x, c) PROVE TypeOK'
  <2> DEFINE D == {i \in LiveIds : at[i] < c}
  <2>1. D \in SUBSET Ids /\ txn[x] \in TxnState
    BY LiveInIds DEF TypeOK
  <2>2. txn' = [txn EXCEPT ![x] = [txn[x] EXCEPT !.pc = "ready", !.at = clock, !.dels = D]]
    BY <1>4 DEF PurgeDelete, TypeOK
  <2>3. lock' \in [Ids -> Txns \cup {NoTxn}]
    BY <1>4 DEF PurgeDelete, TypeOK
  <2> HIDE DEF D
  <2>4. txn' \in [Txns -> TxnState]
    BY <2>1, <2>2 DEF TypeOK, TxnState
  <2>5. overlapped' \in BOOLEAN
    BY <1>4 DEF PurgeDelete, TypeOK
  <2> QED BY <1>4, <2>3, <2>4, <2>5 DEF PurgeDelete, TypeOK
<1>5. ASSUME NEW x \in Txns, Commit(x) \/ Rollback(x) PROVE TypeOK'
  <2>1. IdleTxn \in TxnState
    BY AuditChainAssumption DEF IdleTxn, TxnState
  <2>2. txn' \in [Txns -> TxnState]
    BY <1>5, <2>1 DEF Commit, Rollback, TypeOK
  <2>3. lock' \in [Ids -> Txns \cup {NoTxn}]
    BY <1>5 DEF Commit, Rollback, Release, TypeOK
  <2>4. state' \in [Ids -> {"free", "open", "live", "gone", "purged"}]
    BY <1>5 DEF Commit, Rollback, TypeOK
  <2>5. purges' \in BOOLEAN /\ overlapped' \in BOOLEAN
    BY <1>5 DEF Commit, Rollback, TypeOK
  <2> QED BY <1>5, <2>2, <2>3, <2>4, <2>5 DEF Commit, Rollback, TypeOK
<1>6. CASE Tick
  <2>1. clock' \in 0..MaxClock
    BY <1>6, AuditChainAssumption DEF Tick, TypeOK
  <2> QED BY <1>6, <2>1 DEF Tick, TypeOK
<1>7. CASE VerifyStart \/ VerifyPage
  <2>1. walk' \in Walk
    BY <1>7, WalkTyped
  <2> QED BY <1>7, <2>1 DEF VerifyStart, VerifyPage, TypeOK
<1>8. CASE UNCHANGED vars
  BY <1>8 DEF vars, TypeOK
<1> QED BY <1>1, <1>2, <1>3, <1>4, <1>5, <1>6, <1>7, <1>8 DEF Next

(* Types, whatever transactions overlap.                                   *)
THEOREM AuditTypeCorrect == Spec => []TypeOK
  BY TypesInit, TypesStep, PTL DEF Spec

-----------------------------------------------------------------------------
(* As long as no two transactions overlap.                                 *)

(* What the log will be if x commits now.                                  *)
Visible(x) == (LiveIds \cup txn[x].mine) \ txn[x].dels

TxnInv(x) ==
  /\ \A i \in txn[x].mine : state[i] = "open" /\ at[i] <= clock
  /\ txn[x].dels \subseteq LiveIds
  /\ \A i \in LiveIds, j \in txn[x].dels : i < j => i \in txn[x].dels
  /\ \A i \in LiveIds, j \in txn[x].mine : i < j /\ at[i] <= at[j]
  /\ \A i, j \in txn[x].mine : i < j => at[i] <= at[j]
  /\ txn[x].at <= clock
  /\ txn[x].pc \in {"ready", "locking"} =>
       \A i \in LiveIds \cup txn[x].mine : at[i] <= txn[x].at
  /\ txn[x].pc = "locking" => txn[x].cand = Visible(x)
  /\ txn[x].pc = "idle" => txn[x].mine = {} /\ txn[x].dels = {}
  /\ Linked(prev, Visible(x))

(* What holds until then: one transaction is under way, ids and timestamps  *)
(* grow together, and both the committed log and the one the transaction    *)
(* would leave are chains.                                                  *)
SInv ==
  /\ TypeOK
  /\ \A x \in Txns : txn[x].pc = "idle" \/ Alone(x)
  /\ \A i \in Ids : i >= nextId => state[i] = "free"
  /\ \A i \in LiveIds : at[i] <= clock
  /\ \A i, j \in LiveIds : i < j => at[i] <= at[j]
  /\ Linked(prev, LiveIds)
  /\ \A x \in Txns : TxnInv(x)

LEMMA SInit == Init => SInv
<1> SUFFICES ASSUME Init PROVE SInv
  OBVIOUS
<1> USE AuditChainAssumption
<1>1. \A i \in LiveIds : ~Chained(i)
  BY DEF Init, LiveIds, Chained, Ids
<1>2. Linked(prev, LiveIds)
  BY <1>1 DEF Linked
<1>3. ASSUME NEW x \in Txns PROVE TxnInv(x)
  <2>1. txn[x] = IdleTxn
    BY DEF Init
  <2>2. Visible(x) = LiveIds
    BY <2>1 DEF Visible, IdleTxn
  <2> QED BY <1>2, <2>1, <2>2 DEF TxnInv, IdleTxn, Init
<1>4. TypeOK
  BY TypesInit
<1>5. \A i \in Ids : i >= nextId => state[i] = "free"
  BY DEF Init, Ids
<1>6. \A i \in LiveIds : at[i] <= clock
  BY DEF Init, LiveIds
<1>7. \A i, j \in LiveIds : i < j => at[i] <= at[j]
  BY DEF Init, LiveIds
<1>8. \A x \in Txns : txn[x].pc = "idle"
  BY DEF Init, IdleTxn
<1> QED BY <1>2, <1>3, <1>4, <1>5, <1>6, <1>7, <1>8 DEF SInv

(* A transaction that is not under way has nothing to lose.                *)
LEMMA OthersRest ==
  ASSUME SInv, TypeOK', NEW x \in Txns, Alone(x),
         \A y \in Txns \ {x} : txn'[y] = txn[y],
         clock' = clock,
         \A i \in Ids : i >= nextId' => state'[i] = "free",
         \A i \in LiveIds' : at'[i] <= clock',
         \A i, j \in LiveIds' : i < j => at'[i] <= at'[j],
         Linked(prev', LiveIds'), TxnInv(x)'
  PROVE  SInv'
<1>1. ASSUME NEW y \in Txns \ {x} PROVE TxnInv(y)' /\ txn'[y].pc = "idle"
  <2>1. txn'[y] = txn[y] /\ txn[y].pc = "idle" /\ TxnInv(y)
    BY DEF SInv, Alone
  <2>2. txn'[y].pc = "idle" /\ txn'[y].mine = {} /\ txn'[y].dels = {} /\ txn'[y].at <= clock'
    BY <2>1 DEF TxnInv
  <2>3. Visible(y)' = LiveIds'
    BY <2>2 DEF Visible
  <2> QED BY <2>2, <2>3 DEF TxnInv
<1>2. Alone(x)'
  BY <1>1 DEF Alone
<1>3. \A y \in Txns : txn'[y].pc = "idle" \/ Alone(y)'
  BY <1>1, <1>2
<1>4. \A y \in Txns : TxnInv(y)'
  BY <1>1
<1> QED BY <1>3, <1>4 DEF SInv

-----------------------------------------------------------------------------
(* One lemma per kind of step.                                             *)

LEMMA AppendStartStep ==
  ASSUME SInv, NEW x \in Txns, Alone(x), AppendStart(x)
  PROVE  SInv'
<1> USE DEF SInv
<1>1. LiveIds' = LiveIds
  BY DEF AppendStart, LiveIds
<1>2. txn'[x] = [txn[x] EXCEPT !.pc = "ready", !.at = clock]
  BY DEF AppendStart, TypeOK
<1>3. /\ txn'[x].mine = txn[x].mine /\ txn'[x].dels = txn[x].dels
      /\ txn'[x].pc = "ready" /\ txn'[x].at = clock
  BY <1>2 DEF TypeOK, TxnState
<1>4. TypeOK'
  BY TypesStep DEF Next
<1>5. Visible(x)' = Visible(x)
  BY <1>1, <1>3 DEF Visible
<1>6. TxnInv(x)'
  <2>1. TxnInv(x)
    OBVIOUS
  <2>2. clock <= clock
    BY DEF TypeOK
  <2>3. UNCHANGED <<state, prev, at, clock>>
    BY DEF AppendStart
  <2>4. \A i \in LiveIds \cup txn[x].mine : at[i] <= clock
    BY <2>1 DEF TxnInv
  <2> QED BY <1>1, <1>3, <1>5, <2>1, <2>2, <2>3, <2>4 DEF TxnInv
<1>7. \A y \in Txns \ {x} : txn'[y] = txn[y]
  BY DEF AppendStart, TypeOK
<1> QED BY <1>1, <1>4, <1>6, <1>7, OthersRest DEF AppendStart

LEMMA LockHeadReadStep ==
  ASSUME SInv, NEW x \in Txns, Alone(x), LockHeadRead(x)
  PROVE  SInv'
<1> USE DEF SInv
<1>1. LiveIds' = LiveIds
  BY DEF LockHeadRead, LiveIds
<1>2. txn'[x] = [txn[x] EXCEPT !.pc = "locking", !.cand = Visible(x)]
  BY DEF LockHeadRead, TypeOK, Visible
<1>3. /\ txn'[x].mine = txn[x].mine /\ txn'[x].dels = txn[x].dels
      /\ txn'[x].pc = "locking" /\ txn'[x].at = txn[x].at
      /\ txn'[x].cand = Visible(x)
  BY <1>2 DEF TypeOK, TxnState
<1>4. TypeOK'
  BY TypesStep DEF Next
<1>5. Visible(x)' = Visible(x)
  BY <1>1, <1>3 DEF Visible
<1>6. TxnInv(x)'
  <2>1. TxnInv(x) /\ txn[x].pc = "ready"
    BY DEF LockHeadRead
  <2> QED BY <1>1, <1>3, <1>5, <2>1 DEF TxnInv, LockHeadRead
<1>7. \A y \in Txns \ {x} : txn'[y] = txn[y]
  BY DEF LockHeadRead, TypeOK
<1> QED BY <1>1, <1>4, <1>6, <1>7, OthersRest DEF LockHeadRead

LEMMA LockHeadInsertStep ==
  ASSUME SInv, NEW x \in Txns, Alone(x), LockHeadInsert(x)
  PROVE  SInv'
<1> USE DEF SInv
<1>0. /\ TxnInv(x) /\ txn[x].pc = "locking" /\ nextId \in Ids
      /\ txn[x] \in TxnState
  BY DEF LockHeadInsert, TypeOK, Ids
<1>1. state[nextId] = "free" /\ nextId \notin LiveIds /\ nextId \notin txn[x].mine
  <2>1. nextId >= nextId
    BY <1>0, IdsInt
  <2> QED BY <1>0, <2>1 DEF LiveIds, TxnInv
<1>2. LiveIds' = LiveIds
  BY <1>0, <1>1 DEF LockHeadInsert, LiveIds, TypeOK
<1>3. {i \in txn[x].cand : state[i] # "purged"} = Visible(x)
  BY <1>0 DEF TxnInv, Visible, LiveIds
<1>4. \A i \in LiveIds \cup txn[x].mine : i \in Ids /\ i < nextId
  <2> SUFFICES ASSUME NEW i \in LiveIds \cup txn[x].mine PROVE i \in Ids /\ i < nextId
    OBVIOUS
  <2>1. i \in Ids /\ state[i] # "free"
    BY <1>0 DEF LiveIds, TxnInv, TxnState
  <2>2. ~(i >= nextId)
    BY <2>1
  <2> QED BY <1>0, <2>1, <2>2, IdsInt
<1>5. /\ txn'[x].mine = txn[x].mine \cup {nextId} /\ txn'[x].dels = txn[x].dels
      /\ txn'[x].pc = "open" /\ txn'[x].at = txn[x].at
  BY <1>0 DEF LockHeadInsert, TypeOK, TxnState
<1>6. Visible(x)' = Visible(x) \cup {nextId}
  BY <1>0, <1>1, <1>2, <1>5 DEF Visible, TxnInv
<1>7. /\ prev'[nextId] = HeadHash(Visible(x))
      /\ \A i \in Ids : i # nextId => prev'[i] = prev[i]
      /\ at'[nextId] = txn[x].at
      /\ \A i \in Ids : i # nextId => at'[i] = at[i]
      /\ state'[nextId] = "open"
      /\ \A i \in Ids : i # nextId => state'[i] = state[i]
  BY <1>0, <1>3 DEF LockHeadInsert, TypeOK
<1>8. Linked(prev', Visible(x)')
  <2>1. Visible(x) \in SUBSET Ids /\ Linked(prev, Visible(x))
    BY <1>0, <1>4 DEF Visible, TxnInv
  <2>2. \A i \in Visible(x) : i < nextId /\ prev'[i] = prev[i]
    BY <1>0, <1>1, <1>4, <1>7 DEF Visible
  <2> QED BY <1>0, <1>6, <1>7, <2>1, <2>2, AppendedLinked
<1>9. Linked(prev', LiveIds')
  <2>1. \A i \in LiveIds : prev'[i] = prev[i]
    BY <1>1, <1>4, <1>7
  <2> QED BY <1>2, <2>1 DEF Linked
<1>10. TypeOK'
  BY TypesStep DEF Next
<1>11. \A i \in Ids : i >= nextId' => state'[i] = "free"
  <2> SUFFICES ASSUME NEW i \in Ids, i >= nextId' PROVE state'[i] = "free"
    OBVIOUS
  <2>1. i >= nextId /\ i # nextId
    BY <1>0, IdsInt DEF LockHeadInsert
  <2> QED BY <1>7, <2>1
<1>12. /\ \A i \in LiveIds : at'[i] = at[i]
       /\ clock' = clock
  BY <1>1, <1>4, <1>7 DEF LockHeadInsert
<1>13. TxnInv(x)'
  <2>1. \A i \in txn[x].mine : i # nextId /\ i \in Ids /\ at'[i] = at[i]
    BY <1>1, <1>4, <1>7
  <2>2. \A i \in txn'[x].mine : state'[i] = "open" /\ at'[i] <= clock'
    BY <1>0, <1>5, <1>7, <1>12, <2>1 DEF TxnInv
  <2>3. \A i \in LiveIds', j \in txn'[x].mine : i < j /\ at'[i] <= at'[j]
    BY <1>0, <1>2, <1>4, <1>5, <1>7, <1>12, <2>1 DEF TxnInv
  <2>4. \A i, j \in txn'[x].mine : i < j => at'[i] <= at'[j]
    <3> SUFFICES ASSUME NEW i \in txn'[x].mine, NEW j \in txn'[x].mine, i < j
                 PROVE  at'[i] <= at'[j]
      OBVIOUS
    <3>1. CASE i \in txn[x].mine /\ j \in txn[x].mine
      BY <1>0, <2>1, <3>1 DEF TxnInv
    <3>2. CASE i \in txn[x].mine /\ j = nextId
      BY <1>0, <1>7, <2>1, <3>2 DEF TxnInv
    <3>3. CASE i = nextId
      BY <1>0, <1>4, <1>5, <3>3, IdsInt
    <3> QED BY <1>5, <3>1, <3>2, <3>3
  <2>5. \A i \in LiveIds', j \in txn'[x].dels : i < j => i \in txn'[x].dels
    BY <1>0, <1>2, <1>5 DEF TxnInv
  <2> QED BY <1>0, <1>2, <1>5, <1>8, <1>12, <2>2, <2>3, <2>4, <2>5 DEF TxnInv
<1>14. \A y \in Txns \ {x} : txn'[y] = txn[y]
  BY DEF LockHeadInsert, TypeOK
<1> QED BY <1>2, <1>9, <1>10, <1>11, <1>12, <1>13, <1>14, OthersRest

LEMMA PurgeDeleteStep ==
  ASSUME SInv, NEW x \in Txns, Alone(x), NEW c \in 0..MaxClock, c <= clock, PurgeDelete(x, c)
  PROVE  SInv'
<1> USE DEF SInv
<1> DEFINE D == {i \in LiveIds : at[i] < c}
<1>0. TxnInv(x) /\ txn[x].pc = "idle" /\ txn[x] \in TxnState
  BY DEF PurgeDelete, TypeOK
<1>1. LiveIds' = LiveIds
  BY DEF PurgeDelete, LiveIds
<1>2. /\ txn'[x].mine = {} /\ txn'[x].dels = D
      /\ txn'[x].pc = "ready" /\ txn'[x].at = clock
  BY <1>0 DEF PurgeDelete, TypeOK, TxnState, TxnInv
<1>3. TypeOK'
  BY TypesStep DEF Next
<1>4. \A i \in LiveIds, j \in D : i < j => i \in D
  <2> SUFFICES ASSUME NEW i \in LiveIds, NEW j \in D, i < j PROVE at[i] < c
    OBVIOUS
  <2>1. at[i] <= at[j] /\ at[j] < c
    OBVIOUS
  <2>2. at[i] \in Int /\ at[j] \in Int /\ c \in Int
    BY LiveInIds DEF TypeOK
  <2> QED BY <2>1, <2>2
<1>5. Visible(x)' = LiveIds \ D
  BY <1>1, <1>2 DEF Visible
<1>6. Linked(prev, LiveIds \ D)
  BY <1>4, LiveInIds, PrefixRemoved
<1>7. TxnInv(x)'
  <2>1. clock <= clock
    BY DEF TypeOK
  <2>2. UNCHANGED <<state, prev, at, clock>>
    BY DEF PurgeDelete
  <2>3. D \subseteq LiveIds /\ \A i \in LiveIds : at[i] <= clock
    OBVIOUS
  <2> HIDE DEF D, SInv
  <2> QED BY <1>1, <1>2, <1>4, <1>5, <1>6, <2>1, <2>2, <2>3 DEF TxnInv
<1>8. \A y \in Txns \ {x} : txn'[y] = txn[y]
  BY DEF PurgeDelete, TypeOK
<1> QED BY <1>1, <1>3, <1>7, <1>8, OthersRest DEF PurgeDelete

(* The end of a transaction: afterwards the log is S.                      *)
LEMMA EndStep ==
  ASSUME SInv, NEW x \in Txns, Alone(x), Commit(x) \/ Rollback(x)
  PROVE  SInv'
<1> USE DEF SInv
<1>0. TxnInv(x) /\ txn[x] \in TxnState
  BY DEF TypeOK
<1>1. LiveIds' \in {LiveIds, Visible(x)}
  <2>1. CASE Commit(x)
    BY <1>0, <2>1 DEF Commit, LiveIds, Visible, TypeOK, TxnInv, TxnState
  <2>2. CASE Rollback(x)
    BY <1>0, <2>2 DEF Rollback, LiveIds, TypeOK, TxnInv
  <2> QED BY <2>1, <2>2
<1>2. txn'[x] = IdleTxn
  BY DEF Commit, Rollback, TypeOK
<1>3. UNCHANGED <<prev, at, nextId, clock, walk>>
  BY DEF Commit, Rollback
<1>4. Linked(prev, LiveIds')
  BY <1>0, <1>1 DEF TxnInv
<1>5. Visible(x)' = LiveIds'
  BY <1>2 DEF Visible, IdleTxn
<1>6. TypeOK'
  BY TypesStep DEF Next
<1>7. \A i \in Ids : i >= nextId' => state'[i] = "free"
  <2> SUFFICES ASSUME NEW i \in Ids, i >= nextId PROVE state'[i] = "free"
    BY <1>3
  <2>1. state[i] = "free" /\ i \notin txn[x].mine /\ i \notin txn[x].dels
    BY <1>0 DEF TxnInv, LiveIds
  <2> QED BY <2>1 DEF Commit, Rollback, TypeOK
<1>8. \A i \in LiveIds' : at[i] <= clock
  BY <1>0, <1>1 DEF TxnInv, Visible
<1>9. \A i, j \in LiveIds' : i < j => at[i] <= at[j]
  <2>1. CASE LiveIds' = LiveIds
    BY <2>1
  <2>2. CASE LiveIds' = Visible(x)
    <3> SUFFICES ASSUME NEW i \in Visible(x), NEW j \in Visible(x), i < j
                 PROVE  at[i] <= at[j]
      BY <2>2
    <3>1. CASE i \in LiveIds
      BY <1>0, <3>1 DEF TxnInv, Visible
    <3>2. CASE i \in txn[x].mine /\ j \in txn[x].mine
      BY <1>0, <3>2 DEF TxnInv
    <3>3. CASE i \in txn[x].mine /\ j \in LiveIds
      <4>1. j < i /\ i \in Ids /\ j \in Ids
        BY <1>0, <3>3, LiveInIds DEF TxnInv, TxnState
      <4> QED BY <4>1, IdsInt
    <3> QED BY <3>1, <3>2, <3>3 DEF Visible
  <2> QED BY <1>1, <2>1, <2>2
<1>10. TxnInv(x)'
  <2>1. 0 <= clock
    BY DEF TypeOK
  <2> QED BY <1>2, <1>3, <1>4, <1>5, <2>1 DEF TxnInv, IdleTxn
<1>11. \A y \in Txns \ {x} : txn'[y] = txn[y]
  BY DEF Commit, Rollback, TypeOK
<1> QED BY <1>3, <1>4, <1>6, <1>7, <1>8, <1>9, <1>10, <1>11, OthersRest

LEMMA TickStep == ASSUME SInv, Tick PROVE SInv'
<1> USE DEF SInv
<1>1. LiveIds' = LiveIds /\ \A x : Visible(x)' = Visible(x)
  BY DEF Tick, LiveIds, Visible
<1>2. TypeOK'
  BY TypesStep DEF Next
<1>3. \A n \in 0..MaxClock : n <= clock => n <= clock'
  BY DEF Tick, TypeOK
<1>4. \A i \in LiveIds : at[i] \in 0..MaxClock
  BY LiveInIds DEF TypeOK
<1>5. ASSUME NEW x \in Txns PROVE TxnInv(x)'
  <2>1. TxnInv(x) /\ txn[x] \in TxnState
    BY DEF TypeOK
  <2>2. \A i \in txn[x].mine : at[i] \in 0..MaxClock
    BY <2>1 DEF TypeOK, TxnState
  <2>3. txn[x].at \in 0..MaxClock
    BY <2>1 DEF TxnState
  <2> QED BY <1>1, <1>3, <2>1, <2>2, <2>3 DEF TxnInv, Tick
<1> QED BY <1>1, <1>2, <1>3, <1>4, <1>5 DEF Tick, Alone

LEMMA WalkStep ==
  ASSUME SInv, VerifyStart \/ VerifyPage
  PROVE  SInv'
<1> USE DEF SInv
<1>1. UNCHANGED <<state, prev, at, lock, nextId, clock, txn, purges>>
  BY DEF VerifyStart, VerifyPage
<1>2. LiveIds' = LiveIds /\ \A x : Visible(x)' = Visible(x)
  BY <1>1 DEF LiveIds, Visible
<1>3. TypeOK'
  BY TypesStep DEF Next
<1>4. \A x \in Txns : TxnInv(x)'
  BY <1>1, <1>2 DEF TxnInv
<1> QED BY <1>1, <1>2, <1>3, <1>4 DEF TypeOK, Alone

(* What the transactions do as long as none of them meets another.         *)
LEMMA SStep == SInv /\ ~overlapped' /\ [Next]_vars => SInv' /\ ~overlapped
<1> SUFFICES ASSUME SInv, ~overlapped', [Next]_vars PROVE SInv' /\ ~overlapped
  OBVIOUS
<1>1. CASE UNCHANGED vars
  <2>1. LiveIds' = LiveIds /\ \A x : Visible(x)' = Visible(x)
    BY <1>1 DEF vars, LiveIds, Visible
  <2>2. \A x \in Txns : TxnInv(x)'
    BY <1>1, <2>1 DEF vars, SInv, TxnInv
  <2>3. TypeOK'
    BY <1>1, TypesStep DEF SInv
  <2> QED BY <1>1, <2>1, <2>2, <2>3 DEF vars, SInv, Alone
<1>2. ASSUME NEW x \in Txns, AppendStart(x) PROVE SInv' /\ ~overlapped
  BY <1>2, AppendStartStep DEF AppendStart
<1>3. ASSUME NEW x \in Txns, NEW c \in 0..MaxClock, c <= clock, PurgeDelete(x, c)
      PROVE  SInv' /\ ~overlapped
  BY <1>3, PurgeDeleteStep DEF PurgeDelete
<1>4. ASSUME NEW x \in Txns, LockHeadRead(x) \/ LockHeadInsert(x) \/ Commit(x) \/ Rollback(x)
      PROVE  SInv' /\ ~overlapped
  <2>1. txn[x].pc # "idle"
    BY <1>4 DEF LockHeadRead, LockHeadInsert, Commit, Rollback
  <2>2. Alone(x)
    BY <2>1 DEF SInv
  <2>3. ~overlapped
    BY <1>4 DEF LockHeadRead, LockHeadInsert, Commit, Rollback
  <2> QED BY <1>4, <2>2, <2>3, LockHeadReadStep, LockHeadInsertStep, EndStep
<1>5. CASE Tick \/ VerifyStart \/ VerifyPage
  BY <1>5, TickStep, WalkStep DEF Tick, VerifyStart, VerifyPage
<1> QED BY <1>1, <1>2, <1>3, <1>4, <1>5 DEF Next

(* An overlap is never forgotten, so SInv until the first is inductive.    *)
LEMMA OverlapStays == [Next]_vars => (overlapped => overlapped')
  BY DEF Next, vars, AppendStart, LockHeadRead, LockHeadInsert, PurgeDelete, Commit, Rollback,
         Tick, VerifyStart, VerifyPage

ChainInv == TypeOK /\ (~overlapped => SInv)

LEMMA ChainInit == Init => ChainInv
  BY SInit DEF ChainInv, SInv

LEMMA ChainStep == ChainInv /\ [Next]_vars => ChainInv'
<1> SUFFICES ASSUME ChainInv, [Next]_vars PROVE ChainInv'
  OBVIOUS
<1>1. TypeOK'
  BY TypesStep DEF ChainInv
<1>2. overlapped => overlapped'
  BY OverlapStays
<1> QED BY <1>1, <1>2, SStep DEF ChainInv

(* Every committed state of an org's log verifies, whatever was appended,  *)
(* rolled back, or purged, and whatever predates chaining, until two of    *)
(* its transactions overlap.                                               *)
THEOREM OneChain == Spec => []ChainIntact
<1>1. ChainInv => ChainIntact
  BY IntactIsLinked DEF ChainInv, SInv, ChainIntact, NeverForks
<1> QED BY <1>1, ChainInit, ChainStep, PTL DEF Spec
-----------------------------------------------------------------------------
(* A gap in a chain is seen: the first survivor above it names a row that  *)
(* is not there.                                                           *)
LEMMA GapBreaks ==
  ASSUME NEW S \in SUBSET Ids, NEW T \in SUBSET S, Linked(prev, S),
         NEW i \in T, Chained(i),
         NEW j \in S \ T, Chained(j), j < i,
         NEW k \in S \ T, k > i
  PROVE  ~Intact(S \ T)
<1> DEFINE Above == {n \in S \ T : n > i}
<1>1. PICK n \in Above : \A m \in Above : n <= m
  <2>1. Above \in SUBSET Nat /\ Above # {}
    BY IdsInt
  <2> HIDE DEF Above
  <2> QED BY <2>1, LeastNat
<1>2. n \in S /\ n \in Ids /\ i \in Ids /\ j \in Ids /\ Legacy \in Nat /\ i < n /\ j < n
  BY <1>1, AuditChainAssumption DEF Ids
<1>3. Chained(n)
  BY <1>2 DEF Chained, Ids
<1>4. i \in Before(n, S) /\ Before(n, S) \in SUBSET Ids
  BY <1>2 DEF Before
<1>5. prev[n] = Newest(Before(n, S)) /\ i <= prev[n] /\ prev[n] \in Ids
  BY <1>2, <1>3, <1>4, NewestExists DEF Linked
<1>6. j \in Before(n, S \ T) /\ Before(n, S \ T) \in SUBSET Ids
  BY <1>2 DEF Before
<1> DEFINE p == Newest(Before(n, S \ T))
<1>7. p \in Before(n, S \ T)
  BY <1>6, NewestExists
<1>8. p \in S \ T /\ p < n /\ p \in Ids
  BY <1>6, <1>7 DEF Before
<1>9. ~(p > i)
  <2> HIDE DEF p
  <2> SUFFICES ASSUME p > i PROVE FALSE
    OBVIOUS
  <2>1. n <= p
    BY <1>1, <1>8
  <2> QED BY <1>2, <1>8, <2>1 DEF Ids
<1>10. p # i
  BY <1>8
<1>11. prev[n] # p
  <2> HIDE DEF p
  <2> QED BY <1>2, <1>5, <1>8, <1>9, <1>10 DEF Ids
<1>12. ~Linked(prev, S \ T)
  BY <1>1, <1>3, <1>6, <1>11 DEF Linked
<1> QED BY <1>12, IntactIsLinked

(* RemovalDetected: what is taken from the middle of a log is missed by    *)
(* verify, however many rows the log has and whichever are taken.          *)
THEOREM MiddleIsMissed == Spec => []RemovalDetected
<1>1. ChainInv => RemovalDetected
  <2> SUFFICES ASSUME ChainInv, ~overlapped, NEW S \in SUBSET {i \in LiveIds : Chained(i)}, NEW i \in S,
                      NEW j \in LiveIds \ S, Chained(j), j < i,
                      NEW k \in LiveIds \ S, k > i
               PROVE  ~Intact(LiveIds \ S)
    BY DEF RemovalDetected
  <2>1. S \in SUBSET LiveIds /\ Chained(i) /\ Linked(prev, LiveIds)
    BY DEF ChainInv, SInv
  <2> QED BY <2>1, LiveInIds, GapBreaks
<1> QED BY <1>1, ChainInit, ChainStep, PTL DEF Spec

-----------------------------------------------------------------------------
(* What a link may name, for any number of transactions that overlap: an   *)
(* entry of the log or purged from it, or one of the same transaction.     *)

InLog(i) == state[i] \in {"live", "purged"}
Names(i, S) == prev[i] < i /\ (prev[i] # Genesis => InLog(prev[i]) \/ prev[i] \in S)

(* A row that is not committed is its own transaction's alone.             *)
RowsApart ==
  /\ \A i \in Ids : i >= nextId => state[i] = "free"
  /\ \A x \in Txns : \A i \in txn[x].mine : state[i] = "open"
  /\ \A x, y \in Txns : x # y => txn[x].mine \cap txn[y].mine = {}
  /\ \A x \in Txns : \A i \in txn[x].dels : InLog(i)

LinksNamed ==
  /\ \A x \in Txns : txn[x].pc = "locking" =>
       \A i \in txn[x].cand : InLog(i) \/ i \in txn[x].mine
  /\ \A i \in LiveIds : Names(i, {})
  /\ \A x \in Txns : \A i \in txn[x].mine : Names(i, txn[x].mine)

LinkInv == TypeOK /\ RowsApart /\ LinksNamed

LEMMA LinkInit == Init => LinkInv
<1> SUFFICES ASSUME Init PROVE LinkInv
  OBVIOUS
<1>1. TypeOK
  BY TypesInit
<1>2. \A x \in Txns : txn[x] = IdleTxn
  BY DEF Init
<1>3. \A i \in Ids : i >= nextId => state[i] = "free"
  BY AuditChainAssumption DEF Init, Ids
<1>4. \A i \in LiveIds : prev[i] = Genesis /\ prev[i] < i
  BY DEF Init, LiveIds, Genesis, Ids
<1> QED BY <1>1, <1>2, <1>3, <1>4 DEF LinkInv, RowsApart, LinksNamed, Names, IdleTxn

(* Entries stay in the log, or are purged from it.                         *)
LEMMA InLogStays == TypeOK /\ RowsApart /\ [Next]_vars => \A i \in Ids : InLog(i) => InLog(i)'
<1> SUFFICES ASSUME TypeOK, RowsApart, [Next]_vars, NEW i \in Ids, InLog(i) PROVE InLog(i)'
  OBVIOUS
<1>1. ASSUME NEW x \in Txns, LockHeadInsert(x) PROVE InLog(i)'
  <2>1. nextId \in Ids /\ state[nextId] = "free"
    BY <1>1 DEF LockHeadInsert, TypeOK, RowsApart, Ids
  <2> QED BY <1>1, <2>1 DEF LockHeadInsert, TypeOK, InLog
<1>2. ASSUME NEW x \in Txns, Commit(x) PROVE InLog(i)'
  BY <1>2 DEF Commit, TypeOK, InLog
<1>3. ASSUME NEW x \in Txns, Rollback(x) PROVE InLog(i)'
  BY <1>3 DEF Rollback, TypeOK, InLog, RowsApart
<1>4. CASE UNCHANGED state
  BY <1>4 DEF InLog
<1> QED BY <1>1, <1>2, <1>3, <1>4
  DEF Next, vars, AppendStart, LockHeadRead, PurgeDelete, Tick, VerifyStart, VerifyPage

(* A step that only reads, or marks rows for deletion.                     *)
LEMMA LinkKept ==
  ASSUME LinkInv, TypeOK', UNCHANGED <<state, prev, nextId>>,
         \A x \in Txns : /\ txn'[x].mine = txn[x].mine
                         /\ txn'[x].dels \subseteq txn[x].dels \cup LiveIds
                         /\ txn'[x].pc = "locking" =>
                              txn'[x].cand \subseteq LiveIds \cup txn[x].mine \cup
                                IF txn[x].pc = "locking" THEN txn[x].cand ELSE {}
  PROVE  LinkInv'
<1>1. LiveIds' = LiveIds
  BY DEF LiveIds
<1>2. \A i \in LiveIds : InLog(i)
  BY DEF LiveIds, InLog
<1>3. RowsApart'
  BY <1>2 DEF LinkInv, RowsApart, InLog
<1>4. LinksNamed'
  BY <1>1, <1>2 DEF LinkInv, LinksNamed, InLog, Names
<1> QED BY <1>3, <1>4 DEF LinkInv

LEMMA LinkInsert ==
  ASSUME LinkInv, NEW x \in Txns, LockHeadInsert(x)
  PROVE  LinkInv'
<1> DEFINE S == {i \in txn[x].cand : state[i] # "purged"}
       Now(i) == state'[i] \in {"live", "purged"}
<1> USE DEF LinkInv
<1>0. nextId \in Ids /\ txn[x] \in TxnState /\ txn[x].pc = "locking" /\ state[nextId] = "free"
  BY DEF LockHeadInsert, TypeOK, RowsApart, Ids
<1>1. TypeOK'
  BY TypesStep DEF Next
<1>2. /\ nextId \notin LiveIds /\ ~InLog(nextId)
      /\ \A y \in Txns : nextId \notin txn[y].mine /\ nextId \notin txn[y].dels
  BY <1>0 DEF LiveIds, InLog, RowsApart
<1>3. /\ state'[nextId] = "open" /\ prev'[nextId] = HeadHash(S)
      /\ \A i \in Ids : i # nextId => state'[i] = state[i] /\ prev'[i] = prev[i]
      /\ nextId' = nextId + 1
  BY <1>0 DEF LockHeadInsert, TypeOK
<1>4. /\ txn'[x].mine = txn[x].mine \cup {nextId} /\ txn'[x].dels = txn[x].dels
      /\ txn'[x].pc = "open"
      /\ \A y \in Txns : y # x => txn'[y] = txn[y]
  BY <1>0 DEF LockHeadInsert, TypeOK, TxnState
<1>5. LiveIds' = LiveIds
  BY <1>0, <1>2, <1>3 DEF LiveIds
<1>6. \A i \in Ids : Now(i) <=> InLog(i)
  BY <1>0, <1>2, <1>3 DEF InLog
<1> HIDE DEF Now
<1>7. \A y \in Txns : txn[y] \in TxnState /\ txn[y].mine \in SUBSET Ids /\ txn[y].dels \in SUBSET Ids
                      /\ txn[y].cand \in SUBSET Ids
  BY DEF TypeOK, TxnState
<1>8. \A i \in Ids : ~(i >= nextId) <=> i < nextId
  BY <1>0, IdsInt
<1>9. \A y \in Txns : \A i \in txn[y].mine : i < nextId
  BY <1>0, <1>7, <1>8 DEF RowsApart
<1>10. RowsApart'
  <2>1. \A i \in Ids : i >= nextId' => state'[i] = "free"
    <3> SUFFICES ASSUME NEW i \in Ids, i >= nextId' PROVE state'[i] = "free"
      OBVIOUS
    <3>1. i >= nextId /\ i # nextId
      BY <1>0, <1>3, IdsInt
    <3> QED BY <1>3, <3>1 DEF RowsApart
  <2>2. \A y \in Txns : \A i \in txn'[y].mine : state'[i] = "open"
    BY <1>2, <1>3, <1>4, <1>7 DEF RowsApart
  <2>3. \A y, z \in Txns : y # z => txn'[y].mine \cap txn'[z].mine = {}
    BY <1>2, <1>4 DEF RowsApart
  <2>4. \A y \in Txns : \A i \in txn'[y].dels : Now(i)
    BY <1>4, <1>6, <1>7 DEF RowsApart
  <2> QED BY <2>1, <2>2, <2>3, <2>4 DEF RowsApart, Now, InLog
<1>11. HeadHash(S) < nextId /\ (HeadHash(S) # Genesis => InLog(HeadHash(S)) \/ HeadHash(S) \in txn[x].mine)
  <2>1. CASE HeadHash(S) = Genesis
    BY <1>0, <2>1 DEF Genesis, Ids
  <2>2. CASE HeadHash(S) # Genesis
    <3>1. S \in SUBSET Ids /\ S # {} /\ HeadHash(S) = Newest(S)
      BY <1>0, <1>7, <2>2 DEF HeadHash
    <3>2. Newest(S) \in S
      BY <3>1, NewestExists
    <3> DEFINE n == Newest(S)
    <3> HIDE DEF n
    <3>3. n \in Ids /\ n \in txn[x].cand
      BY <3>1, <3>2 DEF n
    <3>4. InLog(n) \/ n \in txn[x].mine
      BY <1>0, <3>3 DEF LinksNamed
    <3>5. n < nextId
      BY <1>8, <1>9, <3>3, <3>4 DEF InLog, RowsApart
    <3> QED BY <3>1, <3>4, <3>5 DEF n
  <2> QED BY <2>1, <2>2
<1>12. LinksNamed'
  <2> HIDE DEF S
  <2>1. \A y \in Txns : txn'[y].pc = "locking" =>
          \A i \in txn'[y].cand : Now(i) \/ i \in txn'[y].mine
    BY <1>4, <1>6, <1>7 DEF LinksNamed
  <2>2. \A i \in LiveIds' : prev'[i] < i /\ (prev'[i] # Genesis => Now(prev'[i]))
    <3> SUFFICES ASSUME NEW i \in LiveIds PROVE prev'[i] < i /\ (prev'[i] # Genesis => Now(prev'[i]))
      BY <1>5
    <3>1. i \in Ids /\ prev'[i] = prev[i] /\ prev[i] \in 0..MaxId
      BY <1>2, <1>3, LiveInIds DEF TypeOK
    <3>2. prev[i] # Genesis => prev[i] \in Ids
      BY <3>1, AuditChainAssumption DEF Ids, Genesis
    <3> QED BY <1>6, <3>1, <3>2 DEF LinksNamed, Names
  <2>3. ASSUME NEW y \in Txns, NEW i \in txn'[y].mine
        PROVE  prev'[i] < i /\ (prev'[i] # Genesis => Now(prev'[i]) \/ prev'[i] \in txn'[y].mine)
    <3>1. CASE i = nextId
      <4>1. y = x
        BY <1>2, <1>4, <3>1
      <4>2. HeadHash(S) # Genesis => HeadHash(S) \in Ids
        BY <1>0, <1>1, <1>3, AuditChainAssumption DEF TypeOK, Ids, Genesis
      <4> QED BY <1>3, <1>4, <1>6, <1>11, <3>1, <4>1, <4>2
    <3>2. CASE i # nextId
      <4>1. i \in txn[y].mine /\ i \in Ids
        BY <1>4, <1>7, <3>2
      <4>2. prev'[i] = prev[i] /\ prev[i] \in 0..MaxId
        BY <1>3, <3>2, <4>1 DEF TypeOK
      <4>3. prev[i] # Genesis => prev[i] \in Ids
        BY <4>2, AuditChainAssumption DEF Ids, Genesis
      <4>4. prev[i] < i /\ (prev[i] # Genesis => InLog(prev[i]) \/ prev[i] \in txn[y].mine)
        BY <4>1 DEF LinksNamed, Names
      <4>5. txn[y].mine \subseteq txn'[y].mine
        BY <1>4
      <4> QED BY <1>6, <4>2, <4>3, <4>4, <4>5
    <3> QED BY <3>1, <3>2
  <2> QED BY <2>1, <2>2, <2>3 DEF LinksNamed, Names, InLog, Now
<1> QED BY <1>1, <1>10, <1>12

LEMMA LinkEnd ==
  ASSUME LinkInv, NEW x \in Txns, Commit(x) \/ Rollback(x)
  PROVE  LinkInv'
<1> USE DEF LinkInv
<1>1. TypeOK'
  BY TypesStep DEF Next
<1>2. \A i \in Ids : InLog(i) => InLog(i)'
  BY InLogStays DEF Next
<1>3. /\ txn'[x] = IdleTxn /\ UNCHANGED <<prev, nextId>>
      /\ \A y \in Txns : y # x => txn'[y] = txn[y]
  BY DEF Commit, Rollback, TypeOK
<1>4. \A y \in Txns : txn[y].mine \in SUBSET Ids /\ txn[y].dels \in SUBSET Ids /\ txn[y].cand \in SUBSET Ids
  BY DEF TypeOK, TxnState
<1>5. \A i \in Ids : /\ i \notin txn[x].mine /\ ~InLog(i) => state'[i] = state[i]
                     /\ state'[i] = "live" => state[i] = "live" \/ (i \in txn[x].mine /\ Commit(x))
  <2>1. \A i \in Ids : ~InLog(i) => i \notin txn[x].dels
    BY DEF RowsApart
  <2>2. CASE Commit(x)
    <3>1. \A i \in Ids : state'[i] = IF i \in txn[x].dels THEN "purged"
                                     ELSE IF i \in txn[x].mine THEN "live" ELSE state[i]
      BY <2>2 DEF Commit
    <3> QED BY <2>1, <2>2, <3>1
  <2>3. CASE Rollback(x)
    <3>1. \A i \in Ids : state'[i] = IF i \in txn[x].mine THEN "gone" ELSE state[i]
      BY <2>3 DEF Rollback
    <3> QED BY <2>3, <3>1
  <2> QED BY <2>2, <2>3
<1>6. RowsApart'
  <2>1. ASSUME NEW i \in Ids, i >= nextId PROVE state'[i] = "free"
    BY <1>5, <2>1 DEF RowsApart, InLog
  <2>2. ASSUME NEW y \in Txns, y # x, NEW i \in txn[y].mine PROVE state'[i] = "open"
    BY <1>4, <1>5, <2>2 DEF RowsApart, InLog
  <2>3. ASSUME NEW y \in Txns, y # x, NEW i \in txn[y].dels PROVE InLog(i)'
    BY <1>2, <1>4 DEF RowsApart
  <2> QED BY <1>3, <2>1, <2>2, <2>3 DEF RowsApart, IdleTxn
<1>7. Commit(x) => \A i \in txn[x].mine : InLog(i)'
  BY <1>4 DEF Commit, TypeOK, InLog
<1>8. \A i \in Ids : prev[i] \in 0..MaxId /\ (prev[i] # Genesis => prev[i] \in Ids)
  BY AuditChainAssumption DEF TypeOK, Ids, Genesis
<1>9. \A i \in LiveIds' : Names(i, {})'
  <2> SUFFICES ASSUME NEW i \in Ids, state'[i] = "live" PROVE Names(i, {})'
    BY DEF LiveIds
  <2>1. CASE state[i] = "live"
    BY <1>2, <1>3, <1>8, <2>1 DEF LinksNamed, Names, LiveIds
  <2>2. CASE i \in txn[x].mine /\ Commit(x)
    BY <1>2, <1>3, <1>7, <1>8, <2>2 DEF LinksNamed, Names
  <2> QED BY <1>5, <2>1, <2>2
<1>10. ASSUME NEW y \in Txns, y # x, NEW i \in txn[y].mine PROVE Names(i, txn[y].mine)'
  BY <1>2, <1>3, <1>4, <1>8, <1>10 DEF LinksNamed, Names
<1>11. LinksNamed'
  BY <1>2, <1>3, <1>4, <1>9, <1>10 DEF LinksNamed, IdleTxn
<1> QED BY <1>1, <1>6, <1>11

LEMMA LinkStep == LinkInv /\ [Next]_vars => LinkInv'
<1> SUFFICES ASSUME LinkInv, [Next]_vars PROVE LinkInv'
  OBVIOUS
<1>0. TypeOK' /\ \A y \in Txns : txn[y] \in TxnState
  BY TypesStep DEF LinkInv, TypeOK
<1>1. ASSUME NEW x \in Txns, AppendStart(x) PROVE LinkInv'
  <2>1. \A y \in Txns : txn'[y].mine = txn[y].mine /\ txn'[y].dels = txn[y].dels
                        /\ (txn'[y].pc = "locking" => txn'[y] = txn[y])
    BY <1>0, <1>1 DEF AppendStart, LinkInv, TypeOK, TxnState
  <2> QED BY <1>0, <1>1, <2>1, LinkKept DEF AppendStart
<1>2. ASSUME NEW x \in Txns, LockHeadRead(x) PROVE LinkInv'
  <2>1. /\ txn'[x].mine = txn[x].mine /\ txn'[x].dels = txn[x].dels
        /\ txn'[x].cand = (LiveIds \cup txn[x].mine) \ txn[x].dels
        /\ \A y \in Txns : y # x => txn'[y] = txn[y]
    BY <1>0, <1>2 DEF LockHeadRead, LinkInv, TypeOK, TxnState
  <2> QED BY <1>0, <1>2, <2>1, LinkKept DEF LockHeadRead
<1>3. ASSUME NEW x \in Txns, NEW c \in 0..MaxClock, PurgeDelete(x, c) PROVE LinkInv'
  <2>1. /\ txn'[x].mine = txn[x].mine /\ txn'[x].dels \subseteq LiveIds
        /\ txn'[x].pc = "ready"
        /\ \A y \in Txns : y # x => txn'[y] = txn[y]
    BY <1>0, <1>3 DEF PurgeDelete, LinkInv, TypeOK, TxnState
  <2> QED BY <1>0, <1>3, <2>1, LinkKept DEF PurgeDelete
<1>4. CASE Tick \/ VerifyStart \/ VerifyPage \/ UNCHANGED vars
  BY <1>0, <1>4, LinkKept DEF Tick, VerifyStart, VerifyPage, vars
<1> QED BY <1>1, <1>2, <1>3, <1>4, LinkInsert, LinkEnd DEF Next

(* NoDanglingPrev, for any number of transactions that overlap, roll back  *)
(* and purge: the links of the log name entries of the log, committed      *)
(* before them (_lock_head).                                               *)
THEOREM LinksNameEntries == Spec => []NoDanglingPrev
<1>1. LinkInv => NoDanglingPrev
  BY DEF LinkInv, LinksNamed, Names, InLog, NoDanglingPrev
<1> QED BY <1>1, LinkInit, LinkStep, PTL DEF Spec

-----------------------------------------------------------------------------
(* The verifier, between the pages it reads.  Until retention removes      *)
(* something, what it brings along from one page is the link of the next.  *)

UpTo(n) == {i \in LiveIds : Chained(i) /\ i <= n}

WalkInv ==
  walk.pc = "walking" /\ ~purges =>
    /\ walk.after \in LiveIds \cup {0}
    /\ walk.expected = IF UpTo(walk.after) = {} THEN Unset ELSE Newest(UpTo(walk.after))

QuietInv == ChainInv /\ (~overlapped => WalkInv) /\ AlarmNeedsPurge

(* A page has no gaps.                                                     *)
LEMMA PageWhole ==
  ASSUME TypeOK, NEW i \in PageRows, NEW j \in LiveIds, walk.after < j, j < i
  PROVE  j \in PageRows
<1> DEFINE R == {k \in LiveIds : k > walk.after}
           Below(n) == {k \in R : k < n}
<1>1. i \in R /\ j \in R /\ Cardinality(Below(i)) < Page
  BY LiveInIds, IdsInt DEF PageRows
<1>2. IsFiniteSet(Below(i)) /\ Below(j) \subseteq Below(i)
  <2>1. IsFiniteSet(Ids)
    <3>1. 1 \in Int /\ MaxId \in Int
      BY AuditChainAssumption
    <3> QED BY <3>1, FS_Interval DEF Ids
  <2>2. R \subseteq Ids /\ i \in Int /\ j \in Int /\ \A k \in R : k \in Int
    BY <1>1, LiveInIds, IdsInt
  <2> HIDE DEF R
  <2>3. ASSUME NEW k \in R, k < j PROVE k < i
    BY <2>2, <2>3
  <2>4. Below(i) \in SUBSET Ids /\ Below(j) \subseteq Below(i)
    BY <2>2, <2>3
  <2> HIDE DEF Below
  <2> QED BY <2>1, <2>4, FS_Subset
<1>3. Cardinality(Below(j)) <= Cardinality(Below(i))
  BY <1>2, FS_Subset
<1>4. Cardinality(Below(i)) \in Nat /\ Cardinality(Below(j)) \in Nat
  BY <1>2, FS_Subset, FS_CardinalityType
<1>5. Cardinality(Below(j)) < Page
  BY <1>1, <1>3, <1>4, AuditChainAssumption
<1> QED BY <1>1, <1>5 DEF PageRows

(* Newest, of a set and more above it.                                     *)
LEMMA PageStep ==
  ASSUME SInv, WalkInv, ~purges, walk.pc = "walking", VerifyPage
  PROVE  WalkInv' /\ walk'.pc # "broken"
<1> DEFINE C == {i \in PageRows : Chained(i)}
           a == walk.after
<1>1. /\ UNCHANGED <<state, prev, purges>> /\ LiveIds' = LiveIds
      /\ PageRows \in SUBSET Ids /\ C \in SUBSET Ids /\ PageRows \subseteq LiveIds
      /\ a \in Nat /\ \A i \in PageRows : a < i
  BY LiveInIds, IdsInt DEF VerifyPage, LiveIds, PageRows, WalkInv
<1>2. \A i \in PageRows : Before(i, LiveIds) = UpTo(a) \cup Before(i, PageRows)
  BY <1>1, LiveInIds, IdsInt, PageWhole DEF Before, UpTo, SInv
<1>3. Breaks(PageRows, walk.expected) = {}
  <2> SUFFICES ASSUME NEW i \in PageRows, Chained(i)
               PROVE  IF Before(i, PageRows) # {} THEN prev[i] = Newest(Before(i, PageRows))
                      ELSE walk.expected = Unset \/ prev[i] = walk.expected
    BY DEF Breaks
  <2>1. Before(i, LiveIds) # {} => prev[i] = Newest(Before(i, LiveIds))
    BY <1>1 DEF SInv, Linked
  <2>2. CASE Before(i, PageRows) # {}
    <3>1. Newest(Before(i, LiveIds)) = Newest(Before(i, PageRows))
      <4> DEFINE n == Newest(Before(i, PageRows))
      <4>1. n \in Before(i, PageRows) /\ \A j \in Before(i, PageRows) : j <= n
        BY <1>1, <2>2, NewestExists DEF Before
      <4> HIDE DEF n
      <4>2. \A j \in UpTo(a) : j <= n
        BY <1>1, <4>1, LiveInIds, IdsInt DEF UpTo, Before
      <4>3. n \in Before(i, LiveIds) /\ Before(i, LiveIds) \in SUBSET Ids
        BY <1>1, <1>2, <4>1, LiveInIds DEF Before
      <4> QED BY <1>2, <4>1, <4>2, <4>3, NewestIs DEF n
    <3> QED BY <1>2, <2>1, <2>2, <3>1
  <2>3. CASE Before(i, PageRows) = {}
    BY <1>2, <2>1, <2>3 DEF WalkInv
  <2> QED BY <2>2, <2>3
<1>4. \/ walk' = [walk EXCEPT !.pc = "intact"]
      \/ /\ PageRows # {}
         /\ walk' = [pc |-> "walking", after |-> Newest(PageRows),
                     expected |-> IF C = {} THEN walk.expected ELSE Newest(C)]
  BY <1>3 DEF VerifyPage
<1>5. CASE walk' = [walk EXCEPT !.pc = "intact"]
  BY <1>5 DEF WalkInv, SInv, TypeOK, Walk
<1>6. CASE PageRows # {} /\ walk' = [pc |-> "walking", after |-> Newest(PageRows),
                                    expected |-> IF C = {} THEN walk.expected ELSE Newest(C)]
  <2> DEFINE b == Newest(PageRows)
  <2>1. b \in PageRows /\ \A i \in PageRows : i <= b
    BY <1>1, <1>6, NewestExists
  <2> HIDE DEF b
  <2>2. UpTo(b) = UpTo(a) \cup C
    <3>1. \A i \in LiveIds : a < i /\ i < b => i \in PageRows
      BY <2>1, PageWhole DEF SInv
    <3>2. \A i \in LiveIds : i <= b <=> i <= a \/ i \in PageRows
      BY <1>1, <2>1, <3>1, LiveInIds, IdsInt
    <3> QED BY <1>1, <3>2 DEF UpTo
  <2>3. C # {} => Newest(UpTo(b)) = Newest(C) /\ UpTo(b) # {}
    <3> SUFFICES ASSUME C # {} PROVE Newest(UpTo(b)) = Newest(C) /\ UpTo(b) # {}
      OBVIOUS
    <3> DEFINE n == Newest(C)
    <3>1. n \in C /\ \A j \in C : j <= n
      BY <1>1, NewestExists
    <3> HIDE DEF n
    <3>2. \A j \in UpTo(a) : j <= n
      BY <1>1, <3>1, LiveInIds, IdsInt DEF UpTo
    <3>3. n \in UpTo(b) /\ UpTo(b) \in SUBSET Ids /\ \A j \in UpTo(b) : j <= n
      BY <2>2, <3>1, <3>2, LiveInIds DEF UpTo
    <3> QED BY <3>3, NewestIs DEF n
  <2>4. /\ walk'.pc = "walking" /\ walk'.after = b
        /\ walk'.expected = IF UpTo(b) = {} THEN Unset ELSE Newest(UpTo(b))
    <3> HIDE DEF C
    <3>1. walk'.pc = "walking" /\ walk'.after = b
          /\ walk'.expected = IF C = {} THEN walk.expected ELSE Newest(C)
      BY <1>6 DEF b
    <3>2. walk.expected = IF UpTo(a) = {} THEN Unset ELSE Newest(UpTo(a))
      BY DEF WalkInv
    <3> QED BY <2>2, <2>3, <3>1, <3>2
  <2> QED BY <1>1, <2>1, <2>4 DEF WalkInv, UpTo
<1> QED BY <1>4, <1>5, <1>6

(* Appends and commits go on above what the walk has read.                 *)
LEMMA WalkKept ==
  ASSUME SInv, WalkInv, UNCHANGED walk, [Next]_vars
  PROVE  WalkInv'
<1> SUFFICES ASSUME walk.pc = "walking", ~purges'
             PROVE  /\ walk.after \in LiveIds' \cup {0}
                    /\ \A n : n = walk.after => UpTo(n)' = UpTo(n)
                    /\ ~purges
  BY DEF WalkInv
<1>1. CASE LiveIds' = LiveIds /\ (purges => purges')
  BY <1>1 DEF WalkInv, UpTo
<1>2. ASSUME NEW x \in Txns, Commit(x)
      PROVE  /\ ~purges /\ LiveIds' = LiveIds \cup txn[x].mine
             /\ \A i \in LiveIds, j \in txn[x].mine : i < j
  <2>1. txn[x] \in TxnState /\ TxnInv(x) /\ txn[x].dels = {} /\ ~purges
    BY <1>2 DEF SInv, TypeOK, Commit
  <2>2. \A i \in Ids : state'[i] = IF i \in txn[x].mine THEN "live" ELSE state[i]
    BY <1>2, <2>1 DEF Commit
  <2> QED BY <2>1, <2>2 DEF LiveIds, TxnInv, TxnState
<1>3. ASSUME NEW x \in Txns, Commit(x) PROVE \A n : n = walk.after => UpTo(n)' = UpTo(n)
  <2>1. walk.after \in LiveIds \cup {0} /\ txn[x].mine \in SUBSET Ids
    BY <1>2, <1>3 DEF WalkInv, SInv, TypeOK, TxnState
  <2>2. \A j \in txn[x].mine : ~(j <= walk.after)
    <3> SUFFICES ASSUME NEW j \in txn[x].mine PROVE ~(j <= walk.after)
      OBVIOUS
    <3>1. CASE walk.after = 0
      BY <2>1, <3>1 DEF Ids
    <3>2. CASE walk.after \in LiveIds
      BY <1>2, <1>3, <2>1, <3>2, LiveInIds, IdsInt
    <3> QED BY <2>1, <3>1, <3>2
  <2> QED BY <1>2, <1>3, <2>2 DEF UpTo
<1>4. ASSUME NEW x \in Txns, Commit(x) PROVE walk.after \in LiveIds' \cup {0}
  BY <1>2, <1>4 DEF WalkInv
<1>5. ASSUME NEW x \in Txns, Rollback(x) PROVE LiveIds' = LiveIds /\ purges' = purges
  <2>1. \A i \in Ids : state'[i] = IF i \in txn[x].mine THEN "gone" ELSE state[i]
    BY <1>5 DEF Rollback
  <2>2. \A i \in txn[x].mine : state[i] = "open"
    BY DEF SInv, TxnInv
  <2> QED BY <1>5, <2>1, <2>2 DEF LiveIds, Rollback
<1>6. ASSUME NEW x \in Txns, LockHeadInsert(x) PROVE LiveIds' = LiveIds /\ purges' = purges
  <2>1. nextId \in Ids /\ state[nextId] = "free"
    BY <1>6 DEF LockHeadInsert, SInv, TypeOK, Ids
  <2> QED BY <1>6, <2>1 DEF LockHeadInsert, LiveIds, SInv, TypeOK
<1>7. \/ \E x \in Txns : Commit(x) \/ Rollback(x) \/ LockHeadInsert(x)
      \/ LiveIds' = LiveIds /\ purges' = purges
  BY DEF Next, vars, AppendStart, LockHeadRead, PurgeDelete, Tick, VerifyStart, VerifyPage, LiveIds
<1> QED BY <1>1, <1>2, <1>3, <1>4, <1>5, <1>6, <1>7

LEMMA QuietStep == QuietInv /\ [Next]_vars => QuietInv'
<1> SUFFICES ASSUME QuietInv, [Next]_vars PROVE QuietInv'
  OBVIOUS
<1>1. ChainInv'
  BY ChainStep DEF QuietInv
<1>2. (purges => purges') /\ (overlapped => overlapped')
  <2>1. purges => purges'
    BY DEF Next, vars, AppendStart, LockHeadRead, LockHeadInsert, PurgeDelete, Commit, Rollback,
           Tick, VerifyStart, VerifyPage
  <2>2. overlapped => overlapped'
    BY OverlapStays
  <2> QED BY <2>1, <2>2
<1> SUFFICES ASSUME ~overlapped' PROVE WalkInv' /\ (walk'.pc = "broken" => purges')
  BY <1>1 DEF QuietInv, AlarmNeedsPurge
<1>3. SInv /\ WalkInv /\ (walk.pc = "broken" => purges)
  BY <1>2 DEF QuietInv, ChainInv, AlarmNeedsPurge
<1>4. CASE UNCHANGED walk
  BY <1>2, <1>3, <1>4, WalkKept
<1>5. CASE VerifyStart
  <2>1. walk'.pc = "walking" /\ walk'.after = 0 /\ walk'.expected = Unset
    BY <1>5 DEF VerifyStart
  <2>2. UpTo(0)' = {}
    BY DEF UpTo, LiveIds, Ids
  <2> QED BY <2>1, <2>2 DEF WalkInv, UpTo
<1>6. CASE VerifyPage
  <2>1. CASE purges
    BY <1>2, <2>1 DEF WalkInv
  <2>2. CASE ~purges
    BY <1>3, <1>6, <2>2, PageStep DEF VerifyPage
  <2> QED BY <2>1, <2>2
<1> QED BY <1>4, <1>5, <1>6
  DEF Next, vars, AppendStart, LockHeadRead, LockHeadInsert, PurgeDelete, Commit, Rollback, Tick

(* AlarmNeedsPurge: until two of an org's transactions overlap, verify     *)
(* stays silent as long as retention has removed nothing, whatever is      *)
(* appended between the pages it reads.                                    *)
THEOREM SilentUntilPurged == Spec => []AlarmNeedsPurge
<1>1. Init => QuietInv
  BY ChainInit DEF Init, IdleWalk, QuietInv, WalkInv, AlarmNeedsPurge
<1>2. QuietInv => AlarmNeedsPurge
  BY DEF QuietInv
<1> QED BY <1>1, <1>2, QuietStep, PTL DEF Spec

=============================================================================
