------------------------------ MODULE AuditChain ------------------------------
(***************************************************************************)
(* One org's audit log: a hash chain of rows, appended by concurrent       *)
(* transactions, trimmed by retention and walked by the verifier.          *)
(*                                                                         *)
(* Transactions run at READ COMMITTED, Postgres' default, which the engine *)
(* does not override.  "SELECT ... ORDER BY id DESC LIMIT 1 FOR UPDATE"    *)
(* takes its snapshot when the statement starts; if the row it found is    *)
(* locked it waits for that row.  When the holder commits without having   *)
(* changed the row, the waiter gets the SAME row; when the holder deleted  *)
(* it, the waiter goes on to the next row of its snapshot.                 *)
(*                                                                         *)
(* A digest is modelled by the id of its row: rows have distinct contents  *)
(* (created_at, prev_hash) and SHA-256 is taken to be injective.           *)
(***************************************************************************)
EXTENDS Naturals, FiniteSets

CONSTANTS Txns,      \* database sessions that append or purge
          NoTxn,     \* a row lock that nobody holds
          Legacy,    \* rows written before chaining existed (entry_hash NULL)
          MaxId,     \* bound: ids handed out by the sequence
          MaxClock,  \* bound: the clock
          Page       \* VERIFY_PAGE

ASSUME AuditChainAssumption ==
  /\ NoTxn \notin Txns
  /\ Legacy \in Nat /\ MaxId \in Nat /\ Legacy <= MaxId
  /\ MaxClock \in Nat
  /\ Page \in Nat \ {0}

Ids == 1..MaxId
Genesis == 0

VARIABLES state,    \* per id: free, open (uncommitted), live, gone, purged
          prev,     \* prev_hash
          at,       \* created_at
          lock,     \* row locks
          nextId, clock,
          txn,      \* what each transaction is doing
          walk,     \* the verifier
          purges,   \* history: retention has removed something
          overlapped \* history: two transactions were under way at once

vars == <<state, prev, at, lock, nextId, clock, txn, walk, purges, overlapped>>

TxnState == [ pc   : {"idle", "ready", "locking", "open"},
              at   : 0..MaxClock,
              cand : SUBSET Ids,    \* the snapshot of _lock_head
              mine : SUBSET Ids,    \* rows inserted, not yet committed
              dels : SUBSET Ids ]   \* rows deleted, not yet committed

Walk == [ pc : {"idle", "walking", "intact", "broken"},
          after : 0..MaxId, expected : (0..MaxId) \cup {MaxId + 1} ]

Unset == MaxId + 1     \* the verifier's expected = None

TypeOK ==
  /\ state \in [Ids -> {"free", "open", "live", "gone", "purged"}]
  /\ prev \in [Ids -> 0..MaxId]
  /\ at \in [Ids -> 0..MaxClock]
  /\ lock \in [Ids -> Txns \cup {NoTxn}]
  /\ nextId \in 1..(MaxId + 1)
  /\ clock \in 0..MaxClock
  /\ txn \in [Txns -> TxnState]
  /\ walk \in Walk
  /\ purges \in BOOLEAN /\ overlapped \in BOOLEAN

IdleTxn == [pc |-> "idle", at |-> 0, cand |-> {}, mine |-> {}, dels |-> {}]
IdleWalk == [pc |-> "idle", after |-> 0, expected |-> Unset]

Init ==
  /\ state = [i \in Ids |-> IF i <= Legacy THEN "live" ELSE "free"]
  /\ prev = [i \in Ids |-> Genesis]
  /\ at = [i \in Ids |-> 0]
  /\ lock = [i \in Ids |-> NoTxn]
  /\ nextId = Legacy + 1
  /\ clock = 0
  /\ txn = [x \in Txns |-> IdleTxn]
  /\ walk = IdleWalk
  /\ purges = FALSE /\ overlapped = FALSE

LiveIds == {i \in Ids : state[i] = "live"}
Chained(i) == i > Legacy

Alone(x) == \A y \in Txns \ {x} : txn[y].pc = "idle"

-----------------------------------------------------------------------------
(* AuditRepository.append.  Mutated forms of a definition are written just *)
(* before it.                                                              *)

(* created_at is stamped when the entry object is built, before the head   *)
(* is read.  A transaction may append again (bulk deletion audits every    *)
(* id).                                                                    *)
AppendStart(x) ==
  /\ txn[x].pc \in {"idle", "open"}
  /\ nextId <= MaxId
  /\ txn' = [txn EXCEPT ![x].pc = "ready", ![x].at = clock]
  /\ overlapped' = (overlapped \/ ~Alone(x))
  /\ UNCHANGED <<state, prev, at, lock, nextId, clock, walk, purges>>

LockHeadReadDirty(x) ==
  /\ txn[x].pc = "ready"
  /\ txn' = [txn EXCEPT ![x].pc = "locking",
                        ![x].cand = {i \in Ids : state[i] \in {"live", "open"}} \ txn[x].dels]
  /\ UNCHANGED <<state, prev, at, lock, nextId, clock, walk, purges, overlapped>>

(* _lock_head, first half: the statement's snapshot (committed rows and    *)
(* the transaction's own inserts, less its own deletes).                   *)
LockHeadRead(x) ==
  /\ txn[x].pc = "ready"
  /\ txn' = [txn EXCEPT ![x].pc = "locking",
                        ![x].cand = (LiveIds \cup txn[x].mine) \ txn[x].dels]
  /\ UNCHANGED <<state, prev, at, lock, nextId, clock, walk, purges, overlapped>>

(* The row the statement ends up with: the newest of its snapshot that has *)
(* not been deleted meanwhile.                                             *)
Newest(S) == CHOOSE i \in S : \A j \in S : j <= i

(* entry_hash of the head, or GENESIS when there is none or it predates    *)
(* chaining.                                                               *)
HeadHashOldest(S) ==
  IF S = {} THEN Genesis
  ELSE LET o == CHOOSE i \in S : \A j \in S : i <= j
       IN  IF Chained(o) THEN o ELSE Genesis

HeadHash(S) ==
  IF S = {} THEN Genesis
  ELSE IF Chained(Newest(S)) THEN Newest(S) ELSE Genesis

(* _lock_head, second half, and the INSERT: runs once the row is free.     *)
LockHeadInsert(x) ==
  LET S == {i \in txn[x].cand : state[i] # "purged"} IN
  /\ txn[x].pc = "locking"
  /\ nextId <= MaxId
  /\ S # {} => lock[Newest(S)] \in {NoTxn, x}
  /\ state' = [state EXCEPT ![nextId] = "open"]
  /\ prev' = [prev EXCEPT ![nextId] = HeadHash(S)]
  /\ at' = [at EXCEPT ![nextId] = txn[x].at]
  /\ lock' = [i \in Ids |-> IF i = nextId \/ (S # {} /\ i = Newest(S)) THEN x ELSE lock[i]]
  /\ txn' = [txn EXCEPT ![x].pc = "open", ![x].cand = {},
                        ![x].mine = txn[x].mine \cup {nextId}]
  /\ nextId' = nextId + 1
  /\ UNCHANGED <<clock, walk, purges, overlapped>>

(* purge_before: DELETE ... WHERE created_at < cutoff.  It waits for rows  *)
(* another transaction has locked.  Nothing deleted: nothing is appended   *)
(* and the transaction ends; otherwise the audit.purged entry follows.     *)
PurgeDelete(x, cutoff) ==
  LET D == {i \in LiveIds : at[i] < cutoff} IN
  /\ txn[x].pc = "idle"
  /\ nextId <= MaxId
  /\ D # {}
  /\ \A i \in D : lock[i] = NoTxn
  /\ lock' = [i \in Ids |-> IF i \in D THEN x ELSE lock[i]]
  /\ txn' = [txn EXCEPT ![x].pc = "ready", ![x].at = clock, ![x].dels = D]
  /\ overlapped' = (overlapped \/ ~Alone(x))
  /\ UNCHANGED <<state, prev, at, nextId, clock, walk, purges>>

Release(x) == [i \in Ids |-> IF lock[i] = x THEN NoTxn ELSE lock[i]]

(* session.commit: the rows inserted and deleted become visible at once.   *)
Commit(x) ==
  /\ txn[x].pc = "open"
  /\ state' = [i \in Ids |-> IF i \in txn[x].dels THEN "purged"
                             ELSE IF i \in txn[x].mine THEN "live" ELSE state[i]]
  /\ purges' = (purges \/ txn[x].dels # {})
  /\ lock' = Release(x)
  /\ txn' = [txn EXCEPT ![x] = IdleTxn]
  /\ UNCHANGED <<prev, at, nextId, clock, walk, overlapped>>

(* The request or task fails before its commit.  Ids are not reused.       *)
Rollback(x) ==
  /\ txn[x].pc # "idle"
  /\ state' = [i \in Ids |-> IF i \in txn[x].mine THEN "gone" ELSE state[i]]
  /\ lock' = Release(x)
  /\ txn' = [txn EXCEPT ![x] = IdleTxn]
  /\ UNCHANGED <<prev, at, nextId, clock, walk, purges, overlapped>>

Tick ==
  /\ clock < MaxClock
  /\ clock' = clock + 1
  /\ UNCHANGED <<state, prev, at, lock, nextId, txn, walk, purges, overlapped>>

-----------------------------------------------------------------------------
(* AuditRepository.verify: pages of the log by id, each page a statement   *)
(* with its own snapshot.                                                  *)

VerifyStart ==
  /\ walk.pc # "walking"
  /\ walk' = [pc |-> "walking", after |-> 0, expected |-> Unset]
  /\ UNCHANGED <<state, prev, at, lock, nextId, clock, txn, purges, overlapped>>

(* read(after_id, limit): the next rows in id order.                       *)
PageRows == LET R == {i \in LiveIds : i > walk.after}
            IN  {i \in R : Cardinality({j \in R : j < i}) < Page}

(* The chained rows of S that verify stops at, walking them in id order:   *)
(* prev_hash is not the digest of the row before.  The first row is held   *)
(* against what the walk brought along; the first of the log anchors       *)
(* itself.                                                                 *)
Before(i, S) == {j \in S : Chained(j) /\ j < i}

BreaksIgnoringLinks(S, expected) == {}

Breaks(S, expected) ==
  {i \in S : /\ Chained(i)
             /\ IF Before(i, S) # {} THEN prev[i] # Newest(Before(i, S))
                ELSE expected # Unset /\ prev[i] # expected}

VerifyPageLinkingLegacy ==
  /\ walk.pc = "walking"
  /\ walk' = IF PageRows = {} THEN [walk EXCEPT !.pc = "intact"]
             ELSE IF Breaks(PageRows, walk.expected) # {}
                  THEN [walk EXCEPT !.pc = "broken"]
                  ELSE [pc |-> "walking", after |-> Newest(PageRows),
                        expected |-> Newest(PageRows)]
  /\ UNCHANGED <<state, prev, at, lock, nextId, clock, txn, purges, overlapped>>

VerifyPage ==
  LET C == {i \in PageRows : Chained(i)} IN
  /\ walk.pc = "walking"
  /\ walk' = IF PageRows = {} THEN [walk EXCEPT !.pc = "intact"]
             ELSE IF Breaks(PageRows, walk.expected) # {}
                  THEN [walk EXCEPT !.pc = "broken"]
                  ELSE [pc |-> "walking", after |-> Newest(PageRows),
                        expected |-> IF C = {} THEN walk.expected ELSE Newest(C)]
  /\ UNCHANGED <<state, prev, at, lock, nextId, clock, txn, purges, overlapped>>

Next ==
  \/ \E x \in Txns : AppendStart(x)
  \/ \E x \in Txns : LockHeadRead(x)
  \/ \E x \in Txns : LockHeadInsert(x)
  \/ \E x \in Txns, c \in 0..MaxClock : c <= clock /\ PurgeDelete(x, c)
  \/ \E x \in Txns : Commit(x)
  \/ \E x \in Txns : Rollback(x)
  \/ Tick
  \/ VerifyStart
  \/ VerifyPage

Spec == Init /\ [][Next]_vars

-----------------------------------------------------------------------------
(* Properties.                                                             *)

(* verify's answer when it reads the rows S at once.                       *)
Intact(S) == Breaks(S, Unset) = {}

(* "FOR UPDATE serialises concurrent appends within one org" (_lock_head): *)
(* the committed log is one chain, in id order, at every moment, whatever  *)
(* retention has removed from its start.                                   *)
NeverForks == Intact(LiveIds)

(* It is, through any appends, rollbacks and purges, until two             *)
(* transactions of the org overlap.                                        *)
ChainIntact == ~overlapped => NeverForks

(* No row hangs off an entry that was never committed: prev_hash names     *)
(* GENESIS or an earlier entry that is in the log or was purged from it,   *)
(* whatever transactions overlapped or rolled back.                        *)
NoDanglingPrev ==
  \A i \in LiveIds : /\ prev[i] < i
                     /\ prev[i] # Genesis => state[prev[i]] \in {"live", "purged"}

(* "Deleting from the middle still breaks" (verify): when any rows with a  *)
(* survivor on both sides are taken out of a log without overlaps, verify  *)
(* notices.                                                                *)
RemovalDetected ==
  ~overlapped =>
    \A S \in SUBSET {i \in LiveIds : Chained(i)} :
      (\E i \in S : /\ \E j \in LiveIds \ S : Chained(j) /\ j < i
                    /\ \E j \in LiveIds \ S : j > i)
      => ~Intact(LiveIds \ S)

(* Until transactions overlap, the verifier, page by page, stays silent as *)
(* long as retention has removed nothing, whatever is appended between     *)
(* its pages.                                                              *)
AlarmNeedsPurge == (walk.pc = "broken" /\ ~overlapped) => purges

=============================================================================
