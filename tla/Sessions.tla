------------------------------- MODULE Sessions -------------------------------
(***************************************************************************)
(* Signing in and staying signed in: the web console's fetch client in     *)
(* several tabs that share localStorage, and the server's rotation of      *)
(* refresh tokens against a denylist in Redis.                             *)
(*                                                                         *)
(* A login or an exchange issues a PAIR of tokens, named by a number; the  *)
(* access token and the refresh token of a pair are told apart by use.     *)
(* Signatures, subjects and token types are taken to be right.             *)
(***************************************************************************)
EXTENDS Naturals, FiniteSets

CONSTANTS Tabs,         \* browser tabs of one user
          MaxCalls,     \* bound: api() calls in flight
          MaxPairs,     \* bound: pairs issued
          FaultBudget   \* bound: Redis commands and answers that fail

ASSUME SessionAssumption == MaxCalls \in Nat /\ MaxPairs \in Nat /\ FaultBudget \in Nat

Pairs == 1..MaxPairs
Calls == 1..MaxCalls    \* slots, the lowest free one is used
None == 0

VARIABLES life,      \* per pair: unissued, fresh, stale (access expired)
          parent,    \* history: the pair whose refresh token bought it, or None
          denied,    \* the denylist: revoked refresh tokens
          store,     \* localStorage: the pair held, or None
          writer,    \* history: the tab that stored it
          call,      \* api() calls in progress
          exch,      \* per tab: the exchange `refreshing` stands for
          leaving,   \* per tab: logout() waits for the server
          overlap,   \* history: refresh tokens exchanged twice at once
          outages, netfaults

sessionVars == <<life, parent, denied, store, writer, call, exch, leaving, overlap,
                 outages, netfaults>>

IdleCall == [pc |-> "idle", tab |-> None, boot |-> FALSE, used |-> None]
IdleExch == [pc |-> "idle", old |-> None, new |-> None]

SessionTypeOK ==
  /\ life \in [Pairs -> {"unissued", "fresh", "stale"}]
  /\ parent \in [Pairs -> Pairs \cup {None}]
  /\ denied \subseteq Pairs
  /\ store \in Pairs \cup {None} /\ writer \in Tabs \cup {None}
  /\ call \in [Calls -> [ pc : {"idle", "sent", "waiting", "again"},
                          tab : Tabs \cup {None}, boot : BOOLEAN, used : Pairs \cup {None} ]]
  /\ exch \in [Tabs -> [ pc : {"idle", "sent", "checked", "answered", "failed"},
                         old : Pairs \cup {None}, new : Pairs \cup {None} ]]
  /\ leaving \in [Tabs -> BOOLEAN]
  /\ overlap \subseteq Pairs
  /\ outages + netfaults \in 0..FaultBudget

SessionInit ==
  /\ life = [p \in Pairs |-> "unissued"]
  /\ parent = [p \in Pairs |-> None]
  /\ denied = {}
  /\ store = None /\ writer = None
  /\ call = [c \in Calls |-> IdleCall]
  /\ exch = [t \in Tabs |-> IdleExch]
  /\ leaving = [t \in Tabs |-> FALSE]
  /\ overlap = {}
  /\ outages = 0
  /\ netfaults = 0

-----------------------------------------------------------------------------
(* Server.                                                                 *)

(* issue_tokens: the next pair.                                            *)
Issue(p, old) ==
  /\ life[p] = "unissued"
  /\ \A q \in Pairs : q < p => life[q] # "unissued"
  /\ life' = [life EXCEPT ![p] = "fresh"]
  /\ parent' = [parent EXCEPT ![p] = old]

(* principal_from_jwt on the access token.                                 *)
AccessValid(p) == p # None /\ life[p] = "fresh"

(* The outcomes of is_revoked and of revoke: a Redis error is logged and   *)
(* the caller goes on as if the token were not revoked, or were revoked.   *)
RedisUp == UNCHANGED outages
RedisDown == outages + netfaults < FaultBudget /\ outages' = outages + 1

Revoke(p) ==
  \/ RedisUp /\ denied' = denied \cup {p}
  \/ RedisDown /\ UNCHANGED denied

(* refresh, up to the check of the denylist.                               *)
RefreshCheck(t) ==
  LET old == exch[t].old
  IN  /\ exch[t].pc = "sent"
      /\ \/ /\ RedisUp
            /\ exch' = [exch EXCEPT ![t].pc =
                          IF old \in denied THEN "failed" ELSE "checked"]
         \/ RedisDown /\ exch' = [exch EXCEPT ![t].pc = "checked"]
      /\ overlap' = IF \E u \in Tabs \ {t} : exch[u].pc = "checked" /\ exch[u].old = old
                    THEN overlap \cup {old} ELSE overlap
      /\ UNCHANGED <<life, parent, denied, store, writer, call, leaving, netfaults>>

(* refresh, after the check: burn the spent token and issue the next pair. *)
RefreshBurn(t) ==
  /\ exch[t].pc = "checked"
  /\ Revoke(exch[t].old)
  /\ \E p \in Pairs :
       /\ Issue(p, exch[t].old)
       /\ exch' = [exch EXCEPT ![t].pc = "answered", ![t].new = p]
  /\ UNCHANGED <<store, writer, call, leaving, overlap, netfaults>>

(* Variant: a denylist entry lives no longer than an access token.         *)
AgeShortDenial(p) ==
  /\ life[p] = "fresh" /\ store = p
  /\ \A c \in Calls : call[c].pc = "again" => call[c].used # p
  /\ life' = [life EXCEPT ![p] = "stale"]
  /\ denied' = {}
  /\ UNCHANGED <<parent, store, writer, call, exch, leaving, overlap, outages, netfaults>>

(* The stored access token expires; its life of minutes outlasts the       *)
(* request it was fetched for.  A denylist entry lives as long as the      *)
(* refresh token it denies, for days, so neither ends here.                *)
Age(p) ==
  /\ life[p] = "fresh" /\ store = p
  /\ \A c \in Calls : call[c].pc = "again" => call[c].used # p
  /\ life' = [life EXCEPT ![p] = "stale"]
  /\ UNCHANGED <<parent, denied, store, writer, call, exch, leaving, overlap, outages,
                 netfaults>>

-----------------------------------------------------------------------------
(* The console.                                                            *)

(* login and register: tokenCall stores what the server issued.  The form  *)
(* shows when nobody is signed in and bootstrap has ended.                 *)
Login(t) ==
  /\ ~leaving[t] /\ store = None
  /\ \A c \in Calls : call[c].tab = t => ~call[c].boot
  /\ \E p \in Pairs : Issue(p, None) /\ store' = p
  /\ writer' = t
  /\ UNCHANGED <<denied, call, exch, leaving, overlap, outages, netfaults>>

(* api(): the first rawFetch, with the stored access token.  bootstrap     *)
(* calls it when a page loads, which has nothing else in flight then.      *)
Send(c, t, boot) ==
  /\ call[c] = IdleCall /\ \A d \in 1..(c - 1) : call[d] # IdleCall
  /\ ~leaving[t] /\ store # None
  /\ boot => /\ exch[t] = IdleExch
             /\ \A d \in Calls : call[d].tab # t
  /\ call' = [call EXCEPT ![c] = [pc |-> "sent", tab |-> t, boot |-> boot,
                                  used |-> store]]
  /\ UNCHANGED <<life, parent, denied, store, writer, exch, leaving, overlap, outages,
                 netfaults>>

(* The end of a call: bootstrap's catch clears the tokens of every tab.    *)
Ends(c, ok) ==
  /\ call' = [call EXCEPT ![c] = IdleCall]
  /\ IF ~ok /\ call[c].boot THEN store' = None /\ writer' = None
                           ELSE UNCHANGED <<store, writer>>

(* The first answer.  On a 401 tryRefresh joins the tab's exchange or      *)
(* starts one.                                                             *)
Answer(c) ==
  LET t == call[c].tab
  IN  /\ call[c].pc = "sent"
      /\ IF AccessValid(call[c].used)
         THEN Ends(c, TRUE) /\ UNCHANGED exch
         ELSE IF store = None
         THEN Ends(c, FALSE) /\ UNCHANGED exch
         ELSE /\ call' = [call EXCEPT ![c].pc = "waiting"]
              /\ exch' = IF exch[t] = IdleExch
                         THEN [exch EXCEPT ![t] = [pc |-> "sent", old |-> store,
                                                   new |-> None]]
                         ELSE exch
              /\ UNCHANGED <<store, writer>>
      /\ UNCHANGED <<life, parent, denied, leaving, overlap, outages, netfaults>>

(* Any other failure of a call: a network error, 429, 5xx.                 *)
CallFails(c) ==
  /\ call[c].pc \in {"sent", "again"}
  /\ outages + netfaults < FaultBudget
  /\ netfaults' = netfaults + 1
  /\ Ends(c, FALSE)
  /\ UNCHANGED <<life, parent, denied, exch, leaving, overlap, outages>>

(* The exchange's answer is lost, or the request was.                      *)
ExchangeLost(t) ==
  /\ exch[t].pc \in {"sent", "answered"}
  /\ outages + netfaults < FaultBudget
  /\ netfaults' = netfaults + 1
  /\ exch' = [exch EXCEPT ![t].pc = "failed"]
  /\ UNCHANGED <<life, parent, denied, store, writer, call, leaving, overlap, outages>>

Waiting(t) == {c \in Calls : call[c].tab = t /\ call[c].pc = "waiting"}

(* The exchange ended well: the pair is stored and whoever waited sends    *)
(* once more.                                                              *)
Renewed(t) ==
  /\ exch[t].pc = "answered"
  /\ store' = exch[t].new /\ writer' = t
  /\ call' = [c \in Calls |-> IF c \in Waiting(t)
                              THEN [call[c] EXCEPT !.pc = "again", !.used = exch[t].new]
                              ELSE call[c]]

(* It did not: whoever waited fails, and bootstrap clears the tokens.      *)
NotRenewed(t) ==
  /\ exch[t].pc = "failed"
  /\ call' = [c \in Calls |-> IF c \in Waiting(t) THEN IdleCall ELSE call[c]]
  /\ IF \E c \in Waiting(t) : call[c].boot
     THEN store' = None /\ writer' = None
     ELSE UNCHANGED <<store, writer>>

(* Variant: the second request repeats the first one's header.             *)
RefreshDoneSameHeader(t) ==
  /\ \/ /\ exch[t].pc = "answered"
        /\ store' = exch[t].new /\ writer' = t
        /\ call' = [c \in Calls |-> IF c \in Waiting(t)
                                    THEN [call[c] EXCEPT !.pc = "again"] ELSE call[c]]
     \/ NotRenewed(t)
  /\ exch' = [exch EXCEPT ![t] = IdleExch]
  /\ UNCHANGED <<life, parent, denied, leaving, overlap, outages, netfaults>>

(* The exchange's continuations, which run without a pause: `refreshing`   *)
(* is forgotten either way.                                                *)
RefreshDone(t) ==
  /\ Renewed(t) \/ NotRenewed(t)
  /\ exch' = [exch EXCEPT ![t] = IdleExch]
  /\ UNCHANGED <<life, parent, denied, leaving, overlap, outages, netfaults>>

(* The second answer is final.                                             *)
AnswerAgain(c) ==
  /\ call[c].pc = "again"
  /\ Ends(c, AccessValid(call[c].used))
  /\ UNCHANGED <<life, parent, denied, exch, leaving, overlap, outages, netfaults>>

(* logout(): the stored refresh token is sent for revocation, which may    *)
(* fail or never be reached ...                                            *)
LogoutRevoke(t) ==
  /\ ~leaving[t] /\ store # None
  /\ \A c \in Calls : call[c].tab = t => ~call[c].boot
  /\ leaving' = [leaving EXCEPT ![t] = TRUE]
  /\ \/ Revoke(store) /\ UNCHANGED netfaults
     \/ /\ outages + netfaults < FaultBudget /\ netfaults' = netfaults + 1
        /\ UNCHANGED <<denied, outages>>
  /\ UNCHANGED <<life, parent, store, writer, call, exch, overlap>>

(* ... and localStorage is cleared, whatever it holds by then.             *)
LogoutClear(t) ==
  /\ leaving[t]
  /\ leaving' = [leaving EXCEPT ![t] = FALSE]
  /\ store' = None /\ writer' = None
  /\ UNCHANGED <<life, parent, denied, call, exch, overlap, outages, netfaults>>

SessionNext ==
  \/ \E p \in Pairs : Age(p)
  \/ \E t \in Tabs : \/ Login(t) \/ RefreshCheck(t) \/ RefreshBurn(t)
                     \/ ExchangeLost(t) \/ RefreshDone(t)
                     \/ LogoutRevoke(t) \/ LogoutClear(t)
  \/ \E c \in Calls : \/ \E t \in Tabs, boot \in BOOLEAN : Send(c, t, boot)
                      \/ Answer(c) \/ CallFails(c) \/ AnswerAgain(c)

SessionSpec == SessionInit /\ [][SessionNext]_sessionVars

-----------------------------------------------------------------------------
(* Properties.                                                             *)

(* "A refresh token is single-use" (AuthService.refresh): one pair at most *)
(* is ever bought with it, unless two exchanges of it were between check   *)
(* and burn together or Redis failed.                                      *)
SingleUse ==
  \A p \in Pairs \ overlap :
    outages = 0 => Cardinality({q \in Pairs : parent[q] = p}) <= 1

(* A tab that loads drops the stored tokens of all tabs only when they     *)
(* were of no use any more or another tab had replaced the ones it tried,  *)
(* until a request or Redis fails.  A logout is the user's own.             *)
DroppedOnlyWhenSpent ==
  [][ store # None /\ store' = None
      => \/ leaving' # leaving
         \/ netfaults' + outages > 0
         \/ store \in denied \/ life[store] # "fresh"
         \/ \E c \in Calls : /\ call[c] # call'[c]
                             /\ call[c].used # store /\ writer # call[c].tab ]_sessionVars
=============================================================================
