-------------------------------- MODULE Tenancy --------------------------------
(***************************************************************************)
(* Who belongs to which organisation: sign-up, invitations, memberships,   *)
(* API keys, and the principal a request is given when it starts and keeps *)
(* while others change what it was made from.                              *)
(*                                                                         *)
(* A request that takes its time is `req`; everybody else loads a          *)
(* principal and acts in one step.  An org's org, workspace and project    *)
(* scopes are one scope.  Org 0 is no org.                                 *)
(***************************************************************************)
EXTENDS Naturals, FiniteSets

CONSTANTS Users,      \* email addresses
          Root,       \* the superuser the deployment starts with
          MaxOrgs,    \* bound: organisations
          MaxKeys,    \* bound: API keys
          KeyScopes,  \* what an API key may be limited to
          Roles,      \* the roles granted: some of viewer, member, admin, owner
          ActBudget   \* bound: acts of principals

Orgs == 1..MaxOrgs
Keys == 1..MaxKeys
NoRole == "none"
AllRoles == {"viewer", "member", "admin", "owner", NoRole}

ASSUME TenancyAssumption ==
  /\ Root \in Users
  /\ MaxOrgs \in Nat /\ MaxKeys \in Nat /\ ActBudget \in Nat
  /\ Roles \subseteq AllRoles \ {NoRole}

VARIABLES account,   \* users that exist
          role,      \* memberships: user, org -> role
          founded,   \* organisations that exist
          key,       \* API keys
          req,       \* the slow request's principal, or Nobody
          acts,
          trusted    \* history: per org, who was let in by its own people

tenancyVars == <<account, role, founded, key, req, acts, trusted>>

Nobody == [kind |-> "nobody"]
NoKey == [org |-> 0, bound |-> 0, scopes |-> {}, live |-> FALSE, root |-> Root]

(* The values a principal can have.                                        *)
Principals ==
  [kind : {"user"}, actor : Users, org : 0..MaxOrgs,
   roles : [0..MaxOrgs -> AllRoles], super : BOOLEAN]
  \cup
  [kind : {"key"}, actor : Keys, org : 0..MaxOrgs,
   roles : [0..MaxOrgs -> {"member", NoRole}], super : {FALSE}]

TenancyTypeOK ==
  /\ account \subseteq Users
  /\ role \in [Users -> [0..MaxOrgs -> AllRoles]]
  /\ founded \subseteq Orgs
  /\ key \in [Keys -> [org : 0..MaxOrgs, bound : 0..MaxOrgs, scopes : SUBSET KeyScopes,
                       live : BOOLEAN, root : Users]]
  /\ req \in Principals \cup {Nobody}
  /\ acts \in 0..ActBudget
  /\ trusted \in [Orgs -> SUBSET Users]

TenancyInit ==
  /\ account = {Root}
  /\ role = [u \in Users |-> [o \in 0..MaxOrgs |-> NoRole]]
  /\ founded = {}
  /\ key = [k \in Keys |-> NoKey]
  /\ req = Nobody
  /\ acts = 0
  /\ trusted = [o \in Orgs |-> {}]

-----------------------------------------------------------------------------
(* Principals.                                                             *)

Rank(r) == CASE r = "viewer" -> 1 [] r = "member" -> 2 [] r = "admin" -> 3
             [] r = "owner" -> 4 [] OTHER -> 0

(* principal_from_jwt.  The org is that of some org membership (the query  *)
(* has no order), or none.                                                 *)
UserPrincipals(u) ==
  LET homes == {o \in Orgs : role[u][o] # NoRole}
  IN  {[kind |-> "user", actor |-> u, org |-> o, roles |-> role[u], super |-> u = Root] :
         o \in IF homes = {} THEN {0} ELSE homes}

(* principal_from_api_key: of the key's org, and a member of the scope the *)
(* key is bound to, whosever that is.                                      *)
KeyPrincipals(k) ==
  {[kind |-> "key", actor |-> k, org |-> key[k].org, super |-> FALSE,
    roles |-> [o \in 0..MaxOrgs |-> IF o # 0 /\ o = key[k].bound THEN "member" ELSE NoRole]]}

(* authenticated_principal: deleted users and revoked or expired keys have *)
(* none.                                                                   *)
Loadable == UNION ({UserPrincipals(u) : u \in account}
                   \cup {KeyPrincipals(k) : k \in {k \in Keys : key[k].live}})

(* AccessControl.                                                          *)
CanAdmin(p, o) == p.super \/ Rank(p.roles[o]) >= Rank("admin")
CanOwn(p, o) == p.super \/ p.roles[o] = "owner"
IsAdminAnywhere(p) == p.super \/ \E o \in 0..MaxOrgs : Rank(p.roles[o]) >= Rank("admin")

MayGrant(p, o, r) == IF r = "owner" THEN CanOwn(p, o) ELSE CanAdmin(p, o)

(* History: who answers for what a principal does.                         *)
Answerable(p) == IF p.kind = "user" THEN p.actor ELSE key[p.actor].root

Trusted(p, o) == p.super \/ Answerable(p) \in trusted[o]

Admits(p, u, o) ==
  trusted' = IF o # 0 /\ Trusted(p, o) THEN [trusted EXCEPT ![o] = @ \cup {u}]
                                       ELSE trusted

-----------------------------------------------------------------------------
(* What a principal can do.  Each of these commits.                        *)

(* grant_membership.                                                       *)
Grant(p, u, o, r) ==
  /\ u \in account
  /\ MayGrant(p, o, r)
  /\ role' = [role EXCEPT ![u][o] = r]
  /\ Admits(p, u, o)
  /\ UNCHANGED <<account, founded, key>>

(* revoke_membership.                                                      *)
RevokeMember(p, u, o) ==
  /\ u \in account
  /\ CanAdmin(p, o)
  /\ role' = [role EXCEPT ![u][o] = NoRole]
  /\ UNCHANGED <<account, founded, key, trusted>>

(* invite_member: the account if it is new, then a grant on the caller's   *)
(* org.                                                                    *)
Invite(p, u, r) ==
  /\ u \notin account => IsAdminAnywhere(p)
  /\ MayGrant(p, p.org, r)
  /\ account' = account \cup {u}
  /\ role' = [role EXCEPT ![u][p.org] = r]
  /\ Admits(p, u, p.org)
  /\ UNCHANGED <<founded, key>>

(* create_user, without a membership.                                      *)
CreateUser(p, u) ==
  /\ u \notin account
  /\ IsAdminAnywhere(p)
  /\ account' = account \cup {u}
  /\ UNCHANGED <<role, founded, key, trusted>>

(* Variant: the key is created in the org it is bound to.                  *)
MintWhereBound(p, k, scopes, bound) ==
  /\ key[k] = NoKey /\ p.org # 0
  /\ (p.kind = "key" /\ key[p.actor].scopes # {}) => scopes \subseteq key[p.actor].scopes
  /\ key' = [key EXCEPT ![k] = [org |-> IF bound = 0 THEN p.org ELSE bound, bound |-> bound,
                                scopes |-> scopes, live |-> TRUE, root |-> Answerable(p)]]
  /\ UNCHANGED <<account, role, founded, trusted>>

(* mint: in the caller's org, whatever its role there; org 0 is refused by *)
(* the foreign key.  The scope it is bound to (0: none) is taken as the    *)
(* caller gives it, be it of another org or of none that exists yet.       *)
Mint(p, k, scopes, bound) ==
  /\ key[k] = NoKey /\ p.org # 0
  /\ (p.kind = "key" /\ key[p.actor].scopes # {}) => scopes \subseteq key[p.actor].scopes
  /\ key' = [key EXCEPT ![k] = [org |-> p.org, bound |-> bound, scopes |-> scopes,
                                live |-> TRUE, root |-> Answerable(p)]]
  /\ UNCHANGED <<account, role, founded, trusted>>

(* revoke of an API key: tenant_query finds keys of the caller's org, and  *)
(* every key for a superuser.                                              *)
RevokeKey(p, k) ==
  /\ key[k].live
  /\ p.super \/ key[k].org = p.org
  /\ key' = [key EXCEPT ![k].live = FALSE]
  /\ UNCHANGED <<account, role, founded, trusted>>

(* create_org: superusers only, and nobody belongs to it yet.              *)
CreateOrg(p, o) ==
  /\ p.super
  /\ o \notin founded /\ \A q \in Orgs : q < o => q \in founded
  /\ founded' = founded \cup {o}
  /\ UNCHANGED <<account, role, key, trusted>>

Act(p) ==
  \/ \E u \in Users, o \in founded, r \in Roles : Grant(p, u, o, r)
  \/ \E u \in Users, o \in founded : RevokeMember(p, u, o)
  \/ \E u \in Users, r \in Roles : Invite(p, u, r)
  \/ \E u \in Users : CreateUser(p, u)
  \/ \E k \in Keys, s \in SUBSET KeyScopes, b \in 0..MaxOrgs : Mint(p, k, s, b)
  \/ \E k \in Keys : RevokeKey(p, k)
  \/ \E o \in Orgs : CreateOrg(p, o)

-----------------------------------------------------------------------------

(* register: account, org and the owner's memberships in one transaction.  *)
(* A taken address is refused before, or rolls everything back.            *)
Register(u, o) ==
  /\ u \notin account
  /\ o \notin founded /\ \A q \in Orgs : q < o => q \in founded
  /\ account' = account \cup {u}
  /\ founded' = founded \cup {o}
  /\ role' = [role EXCEPT ![u][o] = "owner"]
  /\ trusted' = [trusted EXCEPT ![o] = {u}]
  /\ UNCHANGED <<key, req, acts>>

Counted == acts < ActBudget /\ acts' = acts + 1

(* The slow request: authenticated_principal now, the handler later.  An   *)
(* MCP process over stdio is one that acts many times.                     *)
Load ==
  /\ req = Nobody
  /\ req' \in Loadable
  /\ UNCHANGED <<account, role, founded, key, acts, trusted>>

SlowAct(stays) ==
  /\ req # Nobody
  /\ Act(req) /\ Counted
  /\ req' = IF stays THEN req ELSE Nobody

QuickAct ==
  /\ \E p \in Loadable : Act(p) /\ Counted
  /\ UNCHANGED req

TenancyNext ==
  \/ \E u \in Users, o \in Orgs : Register(u, o)
  \/ Load
  \/ \E stays \in BOOLEAN : SlowAct(stays)
  \/ QuickAct

TenancySpec == TenancyInit /\ [][TenancyNext]_tenancyVars

-----------------------------------------------------------------------------
(* Properties.                                                             *)

(* "A caller from org A cannot grant anything on org B" (UserService.      *)
(* grant), through any chain of sign-ups, invitations, grants, keys bound  *)
(* to whatever scope, and stale principals: whoever has a role in an org,  *)
(* and whoever answers for a key of it, was let in by its founder, by a    *)
(* superuser, or by somebody who was let in.  A key bound to a scope of    *)
(* another org is a member there all the same, which lets nobody in.       *)
TenantsApart ==
  \A o \in Orgs :
    /\ \A u \in Users : role[u][o] # NoRole => u \in trusted[o]
    /\ \A k \in Keys : key[k].org = o => key[k].root \in trusted[o]
=============================================================================
