---------------------------- MODULE AccountProofs ---------------------------
(***************************************************************************)
(* Who may do what and as whom, what was paid for it, and how fast it may  *)
(* be used: for any users, organisations, keys and budgets, any tabs and   *)
(* pairs of tokens, any handlers, plans and bounds, and any number of      *)
(* processes, buckets and seconds.                                         *)
(*                                                                         *)
(* Tenancy.  That nobody enters an org but through its own people is not   *)
(* inductive by itself: a stale principal acts on rights it was given      *)
(* earlier.  It is with two more facts.  The slow request's principal is   *)
(* Sound: whoever answers for it was let into its org, and into every org  *)
(* it has an admin's rank in; a key's rank where it is bound needs no      *)
(* backing, since a member hands out nothing.  And nobody was let into an  *)
(* org that is not founded, so that the sign-up that founds it forgets     *)
(* nobody.  Every act then only lets people in (Kept), and what was sound  *)
(* stays sound.                                                            *)
(*                                                                         *)
(* Sessions.  A refresh token is spent once because the denylist is        *)
(* written before its successor is issued (Burnt), and only by the one     *)
(* exchange that found it absent (Sole, OneChild).  A session is dropped   *)
(* only for a token that was spent, a fault, or an outage: an exchange     *)
(* that was refused presented such a token (Refused, FailedFor), and a tab *)
(* presents what the browser holds (Brought, Loading).                     *)
(*                                                                         *)
(* Subscriptions.  An event is applied once because the row remembers what *)
(* was applied until a document is overwritten unseen (Remembered), and    *)
(* who works on an event has loaded a row that does not (Fresh).  The plan *)
(* is the last event's as long as events come in order: the applied ids    *)
(* are then an initial segment (InOrder).  Whose plan it is follows from   *)
(* what Stripe tells: of subscriptions that live, with the plan they were  *)
(* bought with (AboutTheLiving, StripeLives).                              *)
(*                                                                         *)
(* Token buckets.  What was let through since any second, and what is left *)
(* in the hash, were paid for by the refills since (PaidFor); a hash that  *)
(* expired would have been full (Living).                                  *)
(***************************************************************************)
EXTENDS Sessions, Tenancy, Billing, RateLimit, TLAPS,
        FiniteSetTheorems, SequenceTheorems, WellFoundedInduction

(* A principal's org, and its right to let others in, are backed by the    *)
(* trust of the orgs; a key's membership where it is bound need not be.    *)
Sound(p) ==
  /\ p \in Principals
  /\ p.kind = "key" => key[p.actor].org # 0
  /\ \A o \in Orgs : p.org = o \/ Rank(p.roles[o]) >= Rank("admin") => Answerable(p) \in trusted[o]

KeysSound ==
  /\ \A k \in Keys : key[k].live => key[k].org # 0
  /\ req # Nobody => Sound(req)

UnfoundedEmpty == \A o \in Orgs : o \notin founded => trusted[o] = {}

TenancyInv == TenancyTypeOK /\ TenantsApart /\ KeysSound /\ UnfoundedEmpty

(* People are let in and never out, and a key keeps its org and its root.  *)
Kept ==
  /\ \A o \in Orgs : trusted[o] \subseteq trusted'[o]
  /\ \A k \in Keys : key[k].org # 0 => key'[k].org = key[k].org /\ key'[k].root = key[k].root

(* What an act has to leave behind, the request aside.                     *)
TenancyCore == TenancyTypeOK /\ TenantsApart /\ UnfoundedEmpty
               /\ \A k \in Keys : key[k].live => key[k].org # 0

(* The budget and the request are well-formed after an act, too.           *)
Ticked == acts' \in 0..ActBudget /\ req' \in Principals \cup {Nobody}

-----------------------------------------------------------------------------
(* Principals.                                                             *)

LEMMA RankOfRole ==
  /\ \A r \in AllRoles : Rank(r) >= Rank("admin") => r # NoRole /\ r # "member"
  /\ Rank("owner") >= Rank("admin")
  BY DEF AllRoles, Rank, NoRole

LEMMA PrincipalFields ==
  ASSUME NEW p \in Principals
  PROVE  /\ p.kind \in {"user", "key"}
         /\ p.kind = "user" => p.actor \in Users
         /\ p.kind = "key" => p.actor \in Keys
         /\ p.org \in 0..MaxOrgs
         /\ p.roles \in [0..MaxOrgs -> AllRoles]
         /\ p.super \in BOOLEAN
  BY DEF Principals, AllRoles

(* What a principal may grant on, somebody of the org answers for.         *)
LEMMA GranterTrusted ==
  ASSUME NEW p, Sound(p), NEW o \in Orgs, NEW r, MayGrant(p, o, r)
  PROVE  Trusted(p, o)
<1>1. p.roles[o] \in AllRoles
  BY PrincipalFields, TenancyAssumption DEF Sound, Orgs
<1>2. CASE p.super
  BY <1>2 DEF Trusted
<1>3. CASE ~p.super
  <2>1. Rank(p.roles[o]) >= Rank("admin")
    BY <1>1, <1>3, RankOfRole DEF MayGrant, CanOwn, CanAdmin
  <2> QED
    BY <2>1 DEF Sound, Trusted
<1> QED
  BY <1>2, <1>3

LEMMA SoundKept ==
  ASSUME Kept, NEW p, Sound(p)
  PROVE  Sound(p)'
<1>1. p.kind = "user" \/ (p.kind = "key" /\ p.actor \in Keys)
  BY PrincipalFields DEF Sound
<1>2. Answerable(p)' = Answerable(p)
  BY <1>1 DEF Kept, Sound, Answerable
<1>3. p.kind = "key" => key'[p.actor].org # 0
  BY <1>1 DEF Kept, Sound
<1> QED
  BY <1>2, <1>3 DEF Kept, Sound

(* A principal that is made from what is stored is sound.                  *)
LEMMA LoadedSound ==
  ASSUME TenancyTypeOK, TenantsApart, \A k \in Keys : key[k].live => key[k].org # 0,
         NEW p \in Loadable
  PROVE  Sound(p) /\ p # Nobody
<1>1. CASE \E u \in account : p \in UserPrincipals(u)
  <2>1. PICK u \in account : p \in UserPrincipals(u)
    BY <1>1
  <2> DEFINE homes == {o \in Orgs : role[u][o] # NoRole}
  <2>2. PICK o \in IF homes = {} THEN {0} ELSE homes :
          p = [kind |-> "user", actor |-> u, org |-> o, roles |-> role[u], super |-> u = Root]
    BY <2>1 DEF UserPrincipals
  <2>3. u \in Users /\ role[u] \in [0..MaxOrgs -> AllRoles]
    BY DEF TenancyTypeOK
  <2>4. o \in 0..MaxOrgs /\ (o \in Orgs => role[u][o] # NoRole)
    BY TenancyAssumption DEF Orgs
  <2>5. p \in Principals
    BY <2>2, <2>3, <2>4 DEF Principals
  <2>6. \A q \in Orgs : p.org = q \/ Rank(p.roles[q]) >= Rank("admin") => u \in trusted[q]
    <3>1. \A q \in Orgs : q \in 0..MaxOrgs /\ (p.org = q \/ p.roles[q] # NoRole => u \in trusted[q])
      BY <2>2, <2>3, <2>4, TenancyAssumption DEF TenantsApart, Orgs
    <3> QED
      BY <2>2, <2>3, <3>1, RankOfRole
  <2> QED
    BY <2>2, <2>5, <2>6 DEF Sound, Answerable, Nobody
<1>2. CASE \E k \in Keys : key[k].live /\ p \in KeyPrincipals(k)
  <2>1. PICK k \in Keys : key[k].live /\ p \in KeyPrincipals(k)
    BY <1>2
  <2>2. p = [kind |-> "key", actor |-> k, org |-> key[k].org, super |-> FALSE,
             roles |-> [o \in 0..MaxOrgs |-> IF o # 0 /\ o = key[k].bound THEN "member" ELSE NoRole]]
    BY <2>1 DEF KeyPrincipals
  <2>3. key[k].org \in 0..MaxOrgs /\ key[k].org # 0
    BY <2>1 DEF TenancyTypeOK
  <2>4. p.roles \in [0..MaxOrgs -> {"member", NoRole}]
    BY <2>2
  <2>5. p \in Principals
    BY <2>2, <2>3, <2>4 DEF Principals
  <2>6. \A q \in Orgs : ~ (Rank(p.roles[q]) >= Rank("admin")) /\ (p.org = q => q = key[k].org)
    <3>1. \A q \in Orgs : p.roles[q] \in {"member", NoRole}
      BY <2>4, TenancyAssumption DEF Orgs
    <3> QED
      BY <2>2, <3>1, RankOfRole DEF AllRoles
  <2>7. \A q \in Orgs : p.org = q \/ Rank(p.roles[q]) >= Rank("admin") => key[k].root \in trusted[q]
    BY <2>6 DEF TenantsApart
  <2> QED
    BY <2>2, <2>3, <2>5, <2>7 DEF Sound, Answerable, Nobody
<1> QED
  BY <1>1, <1>2 DEF Loadable

-----------------------------------------------------------------------------
(* The acts of a sound principal.                                          *)

(* A grant on an org by somebody it trusts.                                *)
LEMMA LetIn ==
  ASSUME TenancyCore, NEW p, NEW u \in Users, NEW o \in 0..MaxOrgs, NEW r \in AllRoles,
         o \in founded \cup {0}, o # 0 => Trusted(p, o),
         role' = [role EXCEPT ![u][o] = r], Admits(p, u, o),
         account' \subseteq Users, UNCHANGED <<founded, key>>, Ticked
  PROVE  (TenancyTypeOK /\ TenantsApart /\ UnfoundedEmpty)' /\ Kept
<1> USE DEF TenancyCore
<1>1. role' \in [Users -> [0..MaxOrgs -> AllRoles]]
  BY DEF TenancyTypeOK
<1>2. \A v \in Users, q \in Orgs :
        role'[v][q] = IF v = u /\ q = o THEN r ELSE role[v][q]
  BY TenancyAssumption DEF TenancyTypeOK, Orgs
<1>3. /\ trusted' \in [Orgs -> SUBSET Users]
      /\ \A q \in Orgs : trusted'[q] = IF q = o THEN trusted[q] \cup {u} ELSE trusted[q]
  <2>1. CASE o = 0
    BY <2>1 DEF Admits, TenancyTypeOK, Orgs
  <2>2. CASE o # 0
    <3>1. trusted' = [trusted EXCEPT ![o] = @ \cup {u}]
      BY <2>2 DEF Admits
    <3> QED
      BY <3>1 DEF TenancyTypeOK
  <2> QED
    BY <2>1, <2>2
<1>4. TenancyTypeOK'
  BY <1>1, <1>3 DEF TenancyTypeOK, Ticked
<1>5. TenantsApart'
  <2>1. ASSUME NEW q \in Orgs, NEW v \in Users, role'[v][q] # NoRole PROVE v \in trusted'[q]
    BY <2>1, <1>2, <1>3 DEF TenantsApart
  <2>2. ASSUME NEW q \in Orgs, NEW k \in Keys, key'[k].org = q PROVE key'[k].root \in trusted'[q]
    BY <2>2, <1>3 DEF TenantsApart
  <2> QED
    BY <2>1, <2>2 DEF TenantsApart
<1>6. UnfoundedEmpty'
  BY <1>3 DEF UnfoundedEmpty, Orgs
<1>7. Kept
  BY <1>3 DEF Kept
<1> QED
  BY <1>4, <1>5, <1>6, <1>7

(* Where anybody was let in, the org is founded.                           *)
LEMMA SoundOrgFounded ==
  ASSUME TenancyCore, NEW p, Sound(p), NEW o \in Orgs, p.org = o
  PROVE  o \in founded /\ Trusted(p, o)
  BY DEF TenancyCore, UnfoundedEmpty, Sound, Trusted

LEMMA RootIsUser ==
  ASSUME TenancyCore, NEW p, Sound(p)
  PROVE  Answerable(p) \in Users
<1>1. \/ p.kind = "user" /\ p.actor \in Users
      \/ p.kind = "key" /\ p.actor \in Keys
  BY PrincipalFields DEF Sound
<1> QED
  BY <1>1 DEF Answerable, TenancyCore, TenancyTypeOK

LEMMA GrantCore ==
  ASSUME TenancyCore, NEW p, Sound(p), NEW u \in Users, NEW o \in founded, NEW r \in Roles,
         Grant(p, u, o, r), Ticked
  PROVE  TenancyCore' /\ Kept
<1>1. o \in Orgs /\ o \in 0..MaxOrgs /\ o # 0
  BY TenancyAssumption DEF TenancyCore, TenancyTypeOK, Orgs
<1>2. Trusted(p, o)
  BY <1>1, GranterTrusted DEF Grant
<1>3. r \in AllRoles /\ account \subseteq Users
  BY TenancyAssumption DEF TenancyCore, TenancyTypeOK
<1>4. (TenancyTypeOK /\ TenantsApart /\ UnfoundedEmpty)' /\ Kept
  BY <1>1, <1>2, <1>3, LetIn DEF Grant
<1> QED
  BY <1>4 DEF Grant, TenancyCore

LEMMA InviteCore ==
  ASSUME TenancyCore, NEW p, Sound(p), NEW u \in Users, NEW r \in Roles,
         Invite(p, u, r), Ticked
  PROVE  TenancyCore' /\ Kept
<1>1. p.org \in 0..MaxOrgs
  BY PrincipalFields DEF Sound
<1>2. p.org # 0 => p.org \in founded /\ Trusted(p, p.org)
  BY <1>1, SoundOrgFounded, TenancyAssumption DEF Orgs
<1>3. r \in AllRoles /\ account' \subseteq Users
  BY TenancyAssumption DEF TenancyCore, TenancyTypeOK, Invite
<1>4. (TenancyTypeOK /\ TenantsApart /\ UnfoundedEmpty)' /\ Kept
  BY <1>1, <1>2, <1>3, LetIn DEF Invite
<1> QED
  BY <1>4 DEF Invite, TenancyCore

(* The root of a key that is minted is trusted where the key belongs.      *)
LEMMA MintCore ==
  ASSUME TenancyCore, NEW p, Sound(p), NEW k \in Keys, NEW s \in SUBSET KeyScopes,
         NEW b \in 0..MaxOrgs, Mint(p, k, s, b), Ticked
  PROVE  TenancyCore' /\ Kept
<1> DEFINE new == [org |-> p.org, bound |-> b, scopes |-> s, live |-> TRUE, root |-> Answerable(p)]
<1>1. p.org \in Orgs /\ p.org # 0 /\ p.org \in 0..MaxOrgs
  BY PrincipalFields, TenancyAssumption DEF Sound, Mint, Orgs
<1>2. Answerable(p) \in Users /\ Answerable(p) \in trusted[p.org]
  BY <1>1, RootIsUser DEF Sound
<1>3. /\ key' \in [Keys -> [org : 0..MaxOrgs, bound : 0..MaxOrgs, scopes : SUBSET KeyScopes,
                            live : BOOLEAN, root : Users]]
      /\ key'[k] = new
      /\ \A j \in Keys : j # k => key'[j] = key[j]
  BY <1>1, <1>2 DEF Mint, TenancyCore, TenancyTypeOK
<1>4. key[k].org = 0
  BY DEF Mint, NoKey
<1>5. TenancyTypeOK'
  BY <1>3 DEF Mint, TenancyCore, TenancyTypeOK, Ticked
<1>6. TenantsApart'
  <2>1. \A o \in Orgs, j \in Keys : key'[j].org = o => key'[j].root \in trusted[o]
    BY <1>2, <1>3 DEF TenancyCore, TenantsApart
  <2> QED
    BY <2>1 DEF Mint, TenancyCore, TenantsApart
<1>7. UnfoundedEmpty' /\ \A j \in Keys : key'[j].live => key'[j].org # 0
  BY <1>1, <1>3 DEF Mint, TenancyCore, UnfoundedEmpty
<1>8. Kept
  BY <1>3, <1>4 DEF Mint, Kept
<1> QED
  BY <1>5, <1>6, <1>7, <1>8 DEF TenancyCore

LEMMA RevokeKeyCore ==
  ASSUME TenancyCore, NEW p, NEW k \in Keys, RevokeKey(p, k),
         Ticked
  PROVE  TenancyCore' /\ Kept
<1>1. /\ key' \in [Keys -> [org : 0..MaxOrgs, bound : 0..MaxOrgs, scopes : SUBSET KeyScopes,
                            live : BOOLEAN, root : Users]]
      /\ \A j \in Keys : /\ key'[j].org = key[j].org /\ key'[j].root = key[j].root
                         /\ key'[j].live => key[j].live
  BY DEF RevokeKey, TenancyCore, TenancyTypeOK
<1>2. TenancyTypeOK'
  BY <1>1 DEF RevokeKey, TenancyCore, TenancyTypeOK, Ticked
<1> QED
  BY <1>1, <1>2 DEF RevokeKey, TenancyCore, TenantsApart, UnfoundedEmpty, Kept

(* The rest lets nobody in.                                                *)
LEMMA RevokeMemberCore ==
  ASSUME TenancyCore, NEW p, NEW u \in Users, NEW o \in founded, RevokeMember(p, u, o),
         Ticked
  PROVE  TenancyCore' /\ Kept
<1>1. /\ role' \in [Users -> [0..MaxOrgs -> AllRoles]]
      /\ \A v \in Users, q \in Orgs : role'[v][q] # NoRole => role[v][q] # NoRole
  BY TenancyAssumption DEF RevokeMember, TenancyCore, TenancyTypeOK, Orgs, AllRoles
<1>2. TenancyTypeOK'
  BY <1>1 DEF RevokeMember, TenancyCore, TenancyTypeOK, Ticked
<1> QED
  BY <1>1, <1>2 DEF RevokeMember, TenancyCore, TenantsApart, UnfoundedEmpty, Kept

LEMMA AccountCore ==
  ASSUME TenancyCore, NEW p, \/ \E u \in Users : CreateUser(p, u)
                            \/ \E o \in Orgs : CreateOrg(p, o),
         Ticked
  PROVE  TenancyCore' /\ Kept
<1>1. /\ UNCHANGED <<role, key, trusted>>
      /\ account' \subseteq Users /\ founded' \subseteq Orgs /\ founded \subseteq founded'
  BY DEF CreateUser, CreateOrg, TenancyCore, TenancyTypeOK
<1>2. TenancyTypeOK'
  BY <1>1 DEF TenancyCore, TenancyTypeOK, Ticked
<1> QED
  BY <1>1, <1>2 DEF TenancyCore, TenantsApart, UnfoundedEmpty, Kept

LEMMA ActCore ==
  ASSUME TenancyCore, NEW p, Sound(p), Act(p), Ticked
  PROVE  TenancyCore' /\ Kept
  BY GrantCore, InviteCore, MintCore, RevokeKeyCore, RevokeMemberCore, AccountCore DEF Act

-----------------------------------------------------------------------------
(* The invariant.                                                          *)

LEMMA InitTenancy == TenancyInit => TenancyInv
<1> SUFFICES ASSUME TenancyInit PROVE TenancyInv
  OBVIOUS
<1>1. NoKey \in [org : 0..MaxOrgs, bound : 0..MaxOrgs, scopes : SUBSET KeyScopes, live : BOOLEAN, root : Users]
  BY TenancyAssumption DEF NoKey
<1>2. \A u \in Users, o \in 0..MaxOrgs : role[u][o] = NoRole
  BY DEF TenancyInit
<1>3. TenancyTypeOK
  BY <1>1, TenancyAssumption DEF TenancyInit, TenancyTypeOK, AllRoles
<1>4. TenantsApart
  BY <1>2, TenancyAssumption DEF TenancyInit, TenantsApart, NoKey, Orgs
<1> QED
  BY <1>3, <1>4 DEF TenancyInit, TenancyInv, KeysSound, UnfoundedEmpty, NoKey

(* The org a sign-up founds let nobody in before.                          *)
LEMMA RegisterCore ==
  ASSUME TenancyCore, NEW u \in Users, NEW o \in Orgs, Register(u, o)
  PROVE  TenancyCore' /\ Kept
<1>1. /\ role' \in [Users -> [0..MaxOrgs -> AllRoles]]
      /\ \A v \in Users, q \in Orgs :
           role'[v][q] = IF v = u /\ q = o THEN "owner" ELSE role[v][q]
  BY TenancyAssumption DEF Register, TenancyCore, TenancyTypeOK, Orgs, AllRoles
<1>2. trusted[o] = {}
  BY DEF Register, TenancyCore, UnfoundedEmpty
<1>3. /\ trusted' \in [Orgs -> SUBSET Users]
      /\ \A q \in Orgs : trusted'[q] = IF q = o THEN {u} ELSE trusted[q]
  BY DEF Register, TenancyCore, TenancyTypeOK
<1>4. TenancyTypeOK'
  BY <1>1, <1>3 DEF Register, TenancyCore, TenancyTypeOK, Principals
<1>5. TenantsApart'
  BY <1>1, <1>2, <1>3 DEF Register, TenancyCore, TenantsApart
<1>6. UnfoundedEmpty'
  BY <1>3 DEF Register, TenancyCore, UnfoundedEmpty
<1>7. Kept
  BY <1>2, <1>3 DEF Register, Kept
<1> QED
  BY <1>4, <1>5, <1>6, <1>7 DEF Register, TenancyCore

LEMMA TenancyStep == TenancyInv /\ [TenancyNext]_tenancyVars => TenancyInv'
<1> SUFFICES ASSUME TenancyInv, [TenancyNext]_tenancyVars PROVE TenancyInv'
  OBVIOUS
<1>0. TenancyCore /\ (req # Nobody => Sound(req))
  BY DEF TenancyInv, TenancyCore, KeysSound
<1>1. ASSUME TenancyCore', Kept, req' = req \/ req' = Nobody PROVE TenancyInv'
  <2>1. CASE req' = Nobody
    BY <1>1, <2>1 DEF TenancyInv, TenancyCore, KeysSound, Nobody
  <2>2. CASE req' = req /\ req # Nobody
    <3>1. \A p : Sound(p) => Sound(p)'
      BY <1>1, SoundKept
    <3>2. Sound(req)'
      BY <1>0, <2>2, <3>1 DEF Sound, Answerable
    <3> QED
      BY <1>1, <3>2 DEF TenancyInv, TenancyCore, KeysSound
  <2> QED
    BY <1>1, <2>1, <2>2
<1>2. ASSUME NEW u \in Users, NEW o \in Orgs, Register(u, o) PROVE TenancyInv'
  BY <1>0, <1>1, <1>2, RegisterCore DEF Register
<1>3. CASE Load
  <2>1. Sound(req')
    BY <1>0, <1>3, LoadedSound DEF Load, TenancyCore
  <2> QED
    BY <1>0, <1>3, <2>1
    DEF Load, Sound, Answerable, TenancyInv, TenancyCore, KeysSound, TenancyTypeOK,
        TenantsApart, UnfoundedEmpty
<1>4. ASSUME Counted PROVE acts' \in 0..ActBudget
  BY <1>0, <1>4, TenancyAssumption DEF Counted, TenancyCore, TenancyTypeOK
<1>5. ASSUME NEW stays \in BOOLEAN, SlowAct(stays) PROVE TenancyInv'
  <2>1. Ticked
    BY <1>0, <1>4, <1>5 DEF SlowAct, Ticked, Sound
  <2> QED
    BY <1>0, <1>1, <1>5, <2>1, ActCore DEF SlowAct
<1>6. CASE QuickAct
  <2>1. PICK p \in Loadable : Act(p) /\ Counted
    BY <1>6 DEF QuickAct
  <2>2. Sound(p)
    BY <1>0, LoadedSound DEF TenancyCore
  <2>3. Ticked
    BY <1>0, <1>4, <1>6, <2>1 DEF QuickAct, Ticked, TenancyCore, TenancyTypeOK
  <2> QED
    BY <1>0, <1>1, <1>6, <2>1, <2>2, <2>3, ActCore DEF QuickAct
<1>7. CASE UNCHANGED tenancyVars
  BY <1>7 DEF tenancyVars, TenancyInv, TenancyTypeOK, TenantsApart, KeysSound, UnfoundedEmpty,
              Sound, Answerable
<1> QED
  BY <1>2, <1>3, <1>5, <1>6, <1>7 DEF TenancyNext

(* Whoever has a role in an org, or answers for one of its keys, was let   *)
(* in by its founder, a superuser or somebody who was let in, however      *)
(* stale the principals that acted (UserService.grant, KeyService.mint).   *)
THEOREM NobodyEntersUninvited == TenancySpec => []TenantsApart
<1>1. TenancyInv => TenantsApart
  BY DEF TenancyInv
<1> QED
  BY <1>1, InitTenancy, TenancyStep, PTL DEF TenancySpec

THEOREM TenancyTypeCorrect == TenancySpec => []TenancyTypeOK
<1>1. TenancyInv => TenancyTypeOK
  BY DEF TenancyInv
<1> QED
  BY <1>1, InitTenancy, TenancyStep, PTL DEF TenancySpec

-----------------------------------------------------------------------------
(* Types of a session's state.                                             *)

CallRecord == [ pc : {"idle", "sent", "waiting", "again"},
                tab : Tabs \cup {None}, boot : BOOLEAN, used : Pairs \cup {None} ]
ExchRecord == [ pc : {"idle", "sent", "checked", "answered", "failed"},
                old : Pairs \cup {None}, new : Pairs \cup {None} ]

SessionTyped ==
  /\ SessionTypeOK
  /\ outages \in Nat /\ netfaults \in Nat
  /\ \A t \in Tabs : exch[t].pc # "idle" => exch[t].old \in Pairs

LEMMA NoneIsNoPair == None \notin Pairs
  BY SessionAssumption DEF None, Pairs

LEMMA InitSessionTyped == SessionInit => SessionTyped
  BY SessionAssumption
  DEF SessionInit, SessionTyped, SessionTypeOK, IdleCall, IdleExch

(* Budgets.                                                                *)
LEMMA FaultsTyped ==
  ASSUME SessionTyped,
         \/ UNCHANGED <<outages, netfaults>>
         \/ RedisDown /\ UNCHANGED netfaults
         \/ outages + netfaults < FaultBudget /\ netfaults' = netfaults + 1 /\ UNCHANGED outages
  PROVE  /\ outages' \in Nat /\ netfaults' \in Nat
         /\ outages' + netfaults' \in 0..FaultBudget
         /\ outages' >= outages /\ netfaults' >= netfaults
  BY SessionAssumption DEF SessionTyped, SessionTypeOK, RedisDown

(* A call that ends.                                                       *)
LEMMA EndsTyped ==
  ASSUME SessionTyped, NEW c \in Calls, NEW ok, Ends(c, ok)
  PROVE  /\ call' \in [Calls -> CallRecord]
         /\ call'[c] = IdleCall /\ \A d \in Calls \ {c} : call'[d] = call[d]
         /\ store' \in Pairs \cup {None} /\ writer' \in Tabs \cup {None}
         /\ (store' = store /\ writer' = writer)
            \/ (store' = None /\ writer' = None /\ ~ok /\ call[c].boot)
<1>1. IdleCall \in CallRecord
  BY DEF IdleCall, CallRecord
<1>2. call \in [Calls -> CallRecord]
  BY DEF SessionTyped, SessionTypeOK, CallRecord
<1>3. /\ store' \in Pairs \cup {None} /\ writer' \in Tabs \cup {None}
      /\ (store' = store /\ writer' = writer)
         \/ (store' = None /\ writer' = None /\ ~ok /\ call[c].boot)
  BY DEF Ends, SessionTyped, SessionTypeOK
<1>4. call' = [call EXCEPT ![c] = IdleCall]
  BY DEF Ends
<1> HIDE DEF IdleCall
<1> QED
  BY <1>1, <1>2, <1>3, <1>4

(* An exchange that changes its state.                                     *)
LEMMA ExchangeMoves ==
  ASSUME SessionTyped, NEW t \in Tabs, NEW s \in {"checked", "answered", "failed"},
         exch' = [exch EXCEPT ![t].pc = s], exch[t].pc # "idle"
  PROVE  /\ exch' \in [Tabs -> ExchRecord]
         /\ exch'[t].pc = s /\ exch'[t].old = exch[t].old /\ exch'[t].new = exch[t].new
         /\ \A u \in Tabs \ {t} : exch'[u] = exch[u]
         /\ \A u \in Tabs : exch'[u].pc # "idle" => exch'[u].old \in Pairs
<1>1. exch \in [Tabs -> ExchRecord]
  BY DEF SessionTyped, SessionTypeOK, ExchRecord
<1>2. exch' \in [Tabs -> ExchRecord]
  BY <1>1 DEF ExchRecord
<1>3. /\ exch'[t].pc = s /\ exch'[t].old = exch[t].old /\ exch'[t].new = exch[t].new
      /\ \A u \in Tabs \ {t} : exch'[u] = exch[u]
  BY <1>1 DEF ExchRecord
<1> QED
  BY <1>2, <1>3 DEF SessionTyped

LEMMA IssueTyped ==
  ASSUME SessionTyped, NEW p \in Pairs, NEW old \in Pairs \cup {None}, Issue(p, old)
  PROVE  /\ life' \in [Pairs -> {"unissued", "fresh", "stale"}]
         /\ parent' \in [Pairs -> Pairs \cup {None}]
         /\ life[p] = "unissued" /\ life'[p] = "fresh" /\ parent'[p] = old
         /\ \A q \in Pairs \ {p} : life'[q] = life[q] /\ parent'[q] = parent[q]
  BY DEF SessionTyped, SessionTypeOK, Issue

LEMMA SessionTypes == SessionTyped /\ [SessionNext]_sessionVars => SessionTyped'
<1> SUFFICES ASSUME SessionTyped, [SessionNext]_sessionVars PROVE SessionTyped'
  OBVIOUS
<1> USE DEF CallRecord, ExchRecord
<1>1. ASSUME NEW p \in Pairs, Age(p) PROVE SessionTyped'
  BY <1>1 DEF Age, SessionTyped, SessionTypeOK
<1>2. ASSUME NEW t \in Tabs, Login(t) PROVE SessionTyped'
  <2>1. PICK p \in Pairs : Issue(p, None) /\ store' = p
    BY <1>2 DEF Login
  <2> QED
    BY <1>2, <2>1, IssueTyped DEF Login, SessionTyped, SessionTypeOK
<1>3. ASSUME NEW t \in Tabs, RefreshCheck(t) PROVE SessionTyped'
  <2>1. \E s \in {"checked", "failed"} : exch' = [exch EXCEPT ![t].pc = s]
    BY <1>3 DEF RefreshCheck
  <2>2. /\ exch' \in [Tabs -> ExchRecord]
        /\ \A u \in Tabs : exch'[u].pc # "idle" => exch'[u].old \in Pairs
    BY <1>3, <2>1, ExchangeMoves DEF RefreshCheck
  <2>3. /\ outages' \in Nat /\ netfaults' \in Nat /\ outages' + netfaults' \in 0..FaultBudget
    BY <1>3, FaultsTyped DEF RefreshCheck, RedisUp
  <2>4. overlap' \subseteq Pairs
    BY <1>3 DEF RefreshCheck, SessionTyped, SessionTypeOK
  <2> QED
    BY <1>3, <2>2, <2>3, <2>4 DEF RefreshCheck, SessionTyped, SessionTypeOK
<1>4. ASSUME NEW t \in Tabs, RefreshBurn(t) PROVE SessionTyped'
  <2> DEFINE old == exch[t].old
  <2>1. old \in Pairs
    BY <1>4 DEF RefreshBurn, SessionTyped
  <2>2. PICK p \in Pairs : Issue(p, old) /\ exch' = [exch EXCEPT ![t].pc = "answered", ![t].new = p]
    BY <1>4 DEF RefreshBurn
  <2>3. /\ exch' \in [Tabs -> ExchRecord]
        /\ exch'[t].old = old /\ \A u \in Tabs \ {t} : exch'[u] = exch[u]
    <3>1. exch \in [Tabs -> ExchRecord]
      BY DEF SessionTyped, SessionTypeOK
    <3> QED
      BY <2>2, <3>1
  <2>4. /\ denied' \subseteq Pairs
        /\ outages' \in Nat /\ netfaults' \in Nat /\ outages' + netfaults' \in 0..FaultBudget
    BY <1>4, <2>1, FaultsTyped DEF RefreshBurn, Revoke, RedisUp, SessionTyped, SessionTypeOK
  <2>5. /\ life' \in [Pairs -> {"unissued", "fresh", "stale"}]
        /\ parent' \in [Pairs -> Pairs \cup {None}]
    BY <2>1, <2>2, IssueTyped
  <2> QED
    BY <1>4, <2>1, <2>3, <2>4, <2>5 DEF RefreshBurn, SessionTyped, SessionTypeOK
<1>5. ASSUME NEW t \in Tabs, ExchangeLost(t) PROVE SessionTyped'
  <2>1. /\ exch' \in [Tabs -> ExchRecord]
        /\ \A u \in Tabs : exch'[u].pc # "idle" => exch'[u].old \in Pairs
    BY <1>5, ExchangeMoves DEF ExchangeLost
  <2>2. /\ outages' \in Nat /\ netfaults' \in Nat /\ outages' + netfaults' \in 0..FaultBudget
    BY <1>5, FaultsTyped DEF ExchangeLost
  <2> QED
    BY <1>5, <2>1, <2>2 DEF ExchangeLost, SessionTyped, SessionTypeOK
<1>6. ASSUME NEW t \in Tabs, RefreshDone(t) PROVE SessionTyped'
  <2>1. exch[t].new \in Pairs \cup {None}
    BY DEF SessionTyped, SessionTypeOK
  <2>2. call' \in [Calls -> CallRecord]
    <3> DEFINE again(c) == [call[c] EXCEPT !.pc = "again", !.used = exch[t].new]
    <3>1. ASSUME NEW r \in CallRecord
          PROVE  [r EXCEPT !.pc = "again", !.used = exch[t].new] \in CallRecord
      BY <2>1
    <3>2. IdleCall \in CallRecord /\ \A c \in Calls : call[c] \in CallRecord
      BY DEF IdleCall, SessionTyped, SessionTypeOK
    <3>5. \A c \in Calls : again(c) \in CallRecord
      <4> HIDE DEF CallRecord
      <4> QED
        BY <3>1, <3>2
    <3> HIDE DEF CallRecord
    <3>3. CASE Renewed(t)
      <4>1. call' = [c \in Calls |-> IF c \in Waiting(t) THEN again(c) ELSE call[c]]
        BY <3>3 DEF Renewed
      <4> HIDE DEF again
      <4> QED
        BY <3>5, <3>2, <4>1
    <3>4. CASE NotRenewed(t)
      BY <3>2, <3>4 DEF NotRenewed
    <3> QED
      BY <1>6, <3>3, <3>4 DEF RefreshDone
  <2>3. store' \in Pairs \cup {None} /\ writer' \in Tabs \cup {None}
    BY <1>6, <2>1 DEF RefreshDone, Renewed, NotRenewed, SessionTyped, SessionTypeOK
  <2>4. exch' \in [Tabs -> ExchRecord] /\ \A u \in Tabs : exch'[u].pc # "idle" => exch'[u].old \in Pairs
    BY <1>6 DEF RefreshDone, IdleExch, SessionTyped, SessionTypeOK
  <2> QED
    BY <1>6, <2>2, <2>3, <2>4 DEF RefreshDone, SessionTyped, SessionTypeOK
<1>7. ASSUME NEW t \in Tabs, LogoutRevoke(t) PROVE SessionTyped'
  <2>1. denied' \subseteq Pairs
    BY <1>7 DEF LogoutRevoke, Revoke, SessionTyped, SessionTypeOK
  <2>2. /\ outages' \in Nat /\ netfaults' \in Nat /\ outages' + netfaults' \in 0..FaultBudget
    BY <1>7, FaultsTyped DEF LogoutRevoke, Revoke, RedisUp
  <2> QED
    BY <1>7, <2>1, <2>2 DEF LogoutRevoke, SessionTyped, SessionTypeOK
<1>8. ASSUME NEW t \in Tabs, LogoutClear(t) PROVE SessionTyped'
  BY <1>8 DEF LogoutClear, SessionTyped, SessionTypeOK
<1>9. ASSUME NEW c \in Calls, NEW t \in Tabs, NEW boot \in BOOLEAN, Send(c, t, boot)
      PROVE  SessionTyped'
  <2>1. [pc |-> "sent", tab |-> t, boot |-> boot, used |-> store] \in CallRecord
    BY DEF SessionTyped, SessionTypeOK
  <2>2. call' \in [Calls -> CallRecord]
    BY <1>9, <2>1 DEF Send, SessionTyped, SessionTypeOK
  <2> QED
    BY <1>9, <2>2 DEF Send, SessionTyped, SessionTypeOK
<1>10. ASSUME NEW c \in Calls, Answer(c) PROVE SessionTyped'
  <2>1. CASE UNCHANGED exch /\ (Ends(c, TRUE) \/ Ends(c, FALSE))
    BY <1>10, <2>1, EndsTyped DEF Answer, SessionTyped, SessionTypeOK
  <2>2. CASE ~(UNCHANGED exch /\ (Ends(c, TRUE) \/ Ends(c, FALSE)))
    <3> DEFINE t == call[c].tab
               new == [pc |-> "sent", old |-> store, new |-> None]
    <3>1. /\ store # None
          /\ call' = [call EXCEPT ![c].pc = "waiting"]
          /\ exch' = exch \/ exch' = [exch EXCEPT ![t] = new]
          /\ UNCHANGED <<store, writer>>
      BY <1>10, <2>2 DEF Answer
    <3>2. store \in Pairs /\ new \in ExchRecord
      BY <3>1 DEF SessionTyped, SessionTypeOK
    <3>3. exch' \in [Tabs -> ExchRecord] /\ \A u \in Tabs : exch'[u] = exch[u] \/ exch'[u] = new
      BY <3>1, <3>2 DEF SessionTyped, SessionTypeOK
    <3>4. call' \in [Calls -> CallRecord]
      BY <3>1 DEF SessionTyped, SessionTypeOK
    <3>5. \A u \in Tabs : exch'[u].pc # "idle" => exch'[u].old \in Pairs
      BY <3>2, <3>3 DEF SessionTyped
    <3> QED
      BY <1>10, <3>1, <3>3, <3>4, <3>5 DEF Answer, SessionTyped, SessionTypeOK
  <2> QED
    BY <2>1, <2>2
<1>11. ASSUME NEW c \in Calls, CallFails(c) PROVE SessionTyped'
  <2>1. /\ outages' \in Nat /\ netfaults' \in Nat /\ outages' + netfaults' \in 0..FaultBudget
    BY <1>11, FaultsTyped DEF CallFails
  <2> QED
    BY <1>11, <2>1, EndsTyped DEF CallFails, SessionTyped, SessionTypeOK
<1>12. ASSUME NEW c \in Calls, AnswerAgain(c) PROVE SessionTyped'
  BY <1>12, EndsTyped DEF AnswerAgain, SessionTyped, SessionTypeOK
<1>13. CASE UNCHANGED sessionVars
  BY <1>13 DEF sessionVars, SessionTyped, SessionTypeOK
<1> QED
  BY <1>1, <1>2, <1>3, <1>4, <1>5, <1>6, <1>7, <1>8, <1>9, <1>10, <1>11, <1>12, <1>13
  DEF SessionNext

-----------------------------------------------------------------------------
(* A refresh token is spent once.                                          *)

(* What bought a pair is denied ...                                        *)
Burnt == \A q \in Pairs : parent[q] \in Pairs => parent[q] \in denied

(* ... so what passed the check bought nothing yet, and is the business of *)
(* one exchange.                                                           *)
Sole ==
  \A t \in Tabs :
    exch[t].pc = "checked" /\ exch[t].old \notin overlap
    => /\ \A q \in Pairs : parent[q] # exch[t].old
       /\ \A u \in Tabs \ {t} : ~ (exch[u].pc = "checked" /\ exch[u].old = exch[t].old)

OneChild ==
  \A p \in Pairs \ overlap :
    \A q, r \in Pairs : parent[q] = p /\ parent[r] = p => q = r

SpendInv == SessionTyped /\ (outages = 0 => Burnt /\ Sole /\ OneChild)

(* A step that neither issues nor checks.                                  *)
LEMMA SpendQuiet ==
  ASSUME SpendInv, SessionTyped', UNCHANGED <<parent, overlap>>, denied \subseteq denied',
         outages' >= outages,
         \A t \in Tabs : exch'[t].pc = "checked"
                        => exch[t].pc = "checked" /\ exch'[t].old = exch[t].old
  PROVE  SpendInv'
<1>1. outages' = 0 => outages = 0
  BY DEF SpendInv, SessionTyped
<1> SUFFICES ASSUME outages' = 0 PROVE (Burnt /\ Sole /\ OneChild)'
  BY DEF SpendInv
<1>2. Burnt /\ Sole /\ OneChild
  BY <1>1 DEF SpendInv
<1>3. Burnt' /\ OneChild'
  BY <1>2 DEF Burnt, OneChild
<1>4. Sole'
  BY <1>2 DEF Sole
<1> QED
  BY <1>3, <1>4

LEMMA SpendCheck ==
  ASSUME SpendInv, SessionTyped', NEW t \in Tabs, RefreshCheck(t)
  PROVE  SpendInv'
<1> DEFINE old == exch[t].old
<1>0. old \in Pairs /\ outages \in Nat /\ exch \in [Tabs -> ExchRecord]
  BY DEF RefreshCheck, SpendInv, SessionTyped, SessionTypeOK, ExchRecord
<1>1. CASE RedisDown
  BY <1>0, <1>1 DEF RedisDown, SpendInv
<1>2. CASE RedisUp /\ old \in denied /\ exch' = [exch EXCEPT ![t].pc = "failed"]
  <2>1. /\ exch'[t].pc = "failed" /\ \A u \in Tabs \ {t} : exch'[u] = exch[u]
    BY <1>0, <1>2 DEF ExchRecord
  <2>2. overlap \subseteq overlap' /\ UNCHANGED <<parent, denied, outages>>
    BY <1>2 DEF RefreshCheck, RedisUp
  <2> QED
    BY <2>1, <2>2 DEF SpendInv, Burnt, Sole, OneChild
<1>3. CASE RedisUp /\ old \notin denied /\ exch' = [exch EXCEPT ![t].pc = "checked"]
  <2>1. /\ exch'[t].pc = "checked" /\ exch'[t].old = old
        /\ \A u \in Tabs \ {t} : exch'[u] = exch[u]
    BY <1>0, <1>3 DEF ExchRecord
  <2>2. /\ overlap \subseteq overlap' /\ UNCHANGED <<parent, denied, outages>>
        /\ \A u \in Tabs \ {t} : exch[u].pc = "checked" /\ exch[u].old = old => old \in overlap'
    BY <1>3 DEF RefreshCheck, RedisUp
  <2> SUFFICES ASSUME outages = 0 PROVE (Burnt /\ Sole /\ OneChild)'
    BY <2>2 DEF SpendInv
  <2>3. Burnt /\ Sole /\ OneChild
    BY DEF SpendInv
  <2>4. Burnt' /\ OneChild'
    BY <2>2, <2>3 DEF Burnt, OneChild
  <2>5. \A q \in Pairs : parent[q] # old
    BY <1>0, <1>3, <2>3 DEF Burnt
  <2>6. ASSUME NEW v \in Tabs, exch'[v].pc = "checked", exch'[v].old \notin overlap'
        PROVE  /\ \A q \in Pairs : parent'[q] # exch'[v].old
               /\ \A u \in Tabs \ {v} : ~ (exch'[u].pc = "checked" /\ exch'[u].old = exch'[v].old)
    <3>1. CASE v = t
      BY <2>1, <2>2, <2>5, <2>6, <3>1
    <3>2. CASE v # t
      BY <2>1, <2>2, <2>3, <2>6, <3>2 DEF Sole
    <3> QED
      BY <3>1, <3>2
  <2> QED
    BY <2>4, <2>6 DEF Sole
<1> QED
  BY <1>1, <1>2, <1>3 DEF RefreshCheck

LEMMA SpendBurn ==
  ASSUME SpendInv, SessionTyped', NEW t \in Tabs, RefreshBurn(t)
  PROVE  SpendInv'
<1> DEFINE old == exch[t].old
<1>0. old \in Pairs /\ outages \in Nat /\ exch \in [Tabs -> ExchRecord]
  BY DEF RefreshBurn, SpendInv, SessionTyped, SessionTypeOK, ExchRecord
<1>1. CASE RedisDown
  BY <1>0, <1>1 DEF RedisDown, SpendInv
<1>2. CASE outages # 0 /\ RedisUp
  BY <1>2 DEF RedisUp, SpendInv
<1>3. CASE outages = 0 /\ RedisUp /\ denied' = denied \cup {old}
  <2>1. PICK p \in Pairs : Issue(p, old) /\ exch' = [exch EXCEPT ![t].pc = "answered", ![t].new = p]
    BY DEF RefreshBurn
  <2>2. exch'[t].pc = "answered" /\ \A u \in Tabs \ {t} : exch'[u] = exch[u]
    BY <1>0, <2>1 DEF ExchRecord
  <2>3. parent'[p] = old /\ \A q \in Pairs \ {p} : parent'[q] = parent[q]
    BY <1>0, <2>1, IssueTyped DEF SpendInv
  <2>4. Burnt /\ Sole /\ OneChild /\ UNCHANGED overlap
    BY <1>3 DEF SpendInv, RefreshBurn
  <2>5. Burnt'
    BY <1>3, <2>3, <2>4 DEF Burnt
  <2>6. Sole'
    <3>1. ASSUME NEW v \in Tabs, exch'[v].pc = "checked", exch'[v].old \notin overlap'
          PROVE  /\ \A q \in Pairs : parent'[q] # exch'[v].old
                 /\ \A u \in Tabs \ {v} : ~ (exch'[u].pc = "checked" /\ exch'[u].old = exch'[v].old)
      <4>1. v # t /\ exch'[v] = exch[v]
        BY <2>2, <3>1
      <4>2. exch[v].old # old
        BY <2>4, <3>1, <4>1 DEF Sole, RefreshBurn
      <4> QED
        BY <2>2, <2>3, <2>4, <3>1, <4>1, <4>2 DEF Sole
    <3> QED
      BY <3>1 DEF Sole
  <2>7. OneChild'
    <3>1. old \notin overlap => \A q \in Pairs : parent[q] # old
      BY <2>4 DEF Sole, RefreshBurn
    <3> QED
      BY <2>3, <2>4, <3>1 DEF OneChild
  <2> QED
    BY <2>5, <2>6, <2>7 DEF SpendInv
<1> QED
  BY <1>1, <1>2, <1>3 DEF RefreshBurn, Revoke

LEMMA SpendLogin ==
  ASSUME SpendInv, SessionTyped', NEW t \in Tabs, Login(t)
  PROVE  SpendInv'
<1>1. PICK p \in Pairs : Issue(p, None)
  BY DEF Login
<1>2. parent'[p] = None /\ \A q \in Pairs \ {p} : parent'[q] = parent[q]
  BY <1>1, IssueTyped DEF SpendInv
<1>3. UNCHANGED <<denied, exch, overlap, outages>>
  BY DEF Login
<1>4. \A v \in Tabs : exch[v].pc = "checked" => exch[v].old # None
  BY NoneIsNoPair DEF SpendInv, SessionTyped
<1> QED
  BY <1>2, <1>3, <1>4, NoneIsNoPair DEF SpendInv, Burnt, Sole, OneChild

LEMMA InitSpend == SessionInit => SpendInv
<1> SUFFICES ASSUME SessionInit PROVE SpendInv
  OBVIOUS
<1>1. \A q \in Pairs : parent[q] = None
  BY DEF SessionInit
<1>2. \A t \in Tabs : exch[t].pc = "idle"
  BY DEF SessionInit, IdleExch
<1> QED
  BY <1>1, <1>2, InitSessionTyped, NoneIsNoPair DEF SpendInv, Burnt, Sole, OneChild

LEMMA SpendStep == SpendInv /\ [SessionNext]_sessionVars => SpendInv'
<1> SUFFICES ASSUME SpendInv, [SessionNext]_sessionVars PROVE SpendInv'
  OBVIOUS
<1>0. SessionTyped /\ SessionTyped'
  BY SessionTypes DEF SpendInv
<1>1. exch \in [Tabs -> ExchRecord] /\ outages \in Nat
  BY <1>0 DEF SessionTyped, SessionTypeOK, ExchRecord
<1>2. ASSUME UNCHANGED <<parent, overlap, denied, outages, exch>> PROVE SpendInv'
  BY <1>0, <1>1, <1>2, SpendQuiet
<1>3. ASSUME NEW c \in Calls, Answer(c) PROVE SpendInv'
  <2>1. \A t \in Tabs : exch'[t].pc = "checked" => exch'[t] = exch[t]
    <3>1. exch' = exch \/ exch' = [exch EXCEPT ![call[c].tab] =
                                       [pc |-> "sent", old |-> store, new |-> None]]
      BY <1>3 DEF Answer
    <3> QED
      BY <1>1, <3>1
  <2> QED
    BY <1>0, <1>1, <1>3, <2>1, SpendQuiet DEF Answer
<1>4. ASSUME NEW t \in Tabs, ExchangeLost(t) \/ RefreshDone(t) PROVE SpendInv'
  <2>1. \A u \in Tabs : exch'[u].pc = "checked" => exch'[u] = exch[u]
    BY <1>1, <1>4 DEF ExchangeLost, RefreshDone, IdleExch, ExchRecord
  <2> QED
    BY <1>0, <1>1, <1>4, <2>1, SpendQuiet DEF ExchangeLost, RefreshDone
<1>5. ASSUME NEW t \in Tabs, LogoutRevoke(t) PROVE SpendInv'
  <2>1. denied \subseteq denied' /\ outages' >= outages
    BY <1>1, <1>5 DEF LogoutRevoke, Revoke, RedisUp, RedisDown
  <2> QED
    BY <1>0, <1>5, <2>1, SpendQuiet DEF LogoutRevoke
<1> QED
  BY <1>0, <1>2, <1>3, <1>4, <1>5, SpendLogin, SpendCheck, SpendBurn
  DEF SessionNext, Age, Send, CallFails, AnswerAgain, LogoutClear, sessionVars

(* Two elements that are one make one element at most.                     *)
LEMMA AtMostOne ==
  ASSUME NEW S, \A x, y \in S : x = y
  PROVE  Cardinality(S) <= 1
<1>1. CASE S = {}
  BY <1>1, FS_EmptySet
<1>2. CASE \E x : S = {x}
  BY <1>2, FS_Singleton
<1> QED
  BY <1>1, <1>2

(* "A refresh token is single-use" (AuthService.refresh): until Redis      *)
(* fails, and but for two exchanges that were both past the check.         *)
THEOREM RefreshSpentOnce == SessionSpec => []SingleUse
<1>1. SpendInv => SingleUse
  BY AtMostOne DEF SpendInv, OneChild, SingleUse
<1> QED
  BY <1>1, InitSpend, SpendStep, PTL DEF SessionSpec

-----------------------------------------------------------------------------
(* Tokens are dropped when they are spent.                                 *)

(* A pair an exchange brought is fresh and not stored yet; a call that is  *)
(* sent again carries a fresh token.                                       *)
Brought ==
  /\ store # None => life[store] # "unissued"
  /\ \A t \in Tabs : exch[t].pc = "answered" =>
       /\ exch[t].new \in Pairs /\ life[exch[t].new] = "fresh" /\ exch[t].new # store
       /\ \A u \in Tabs \ {t} : exch[u].pc = "answered" => exch[u].new # exch[t].new
  /\ \A c \in Calls : call[c].pc = "again" =>
       call[c].used \in Pairs /\ life[call[c].used] = "fresh"

(* A call that waits was refused, so the token it used is stale.           *)
Refused ==
  \A c \in Calls :
    /\ call[c].pc = "sent" => call[c].used \in Pairs /\ life[call[c].used] # "unissued"
    /\ call[c].pc = "waiting" => call[c].used \in Pairs /\ life[call[c].used] = "stale"
    /\ call[c].pc # "idle" => call[c].tab \in Tabs

(* What an exchange that failed sent was denied, or a request was lost.    *)
FailedFor == \A t \in Tabs : exch[t].pc = "failed" => netfaults > 0 \/ exch[t].old \in denied

(* While a tab loads, the store holds what its exchange sent or what       *)
(* another tab stored since.                                               *)
Loading ==
  \A c \in Calls :
    call[c].boot /\ call[c].pc \in {"sent", "waiting"} /\ exch[call[c].tab].pc # "idle"
    => store = None \/ store = exch[call[c].tab].old \/ writer # call[c].tab

DropInv == SessionTyped /\ Brought /\ Refused /\ FailedFor /\ Loading

LEMMA InitDrop == SessionInit => DropInv
<1> SUFFICES ASSUME SessionInit PROVE DropInv
  OBVIOUS
<1>1. \A c \in Calls : call[c].pc = "idle"
  BY DEF SessionInit, IdleCall
<1>2. \A t \in Tabs : exch[t].pc = "idle"
  BY DEF SessionInit, IdleExch
<1> QED
  BY <1>1, <1>2, InitSessionTyped
  DEF SessionInit, DropInv, Brought, Refused, FailedFor, Loading

(* Calls after one of them ended.                                          *)
LEMMA DropEnds ==
  ASSUME DropInv, SessionTyped', NEW c \in Calls, NEW ok, Ends(c, ok),
         UNCHANGED <<life, exch, denied>>, netfaults' >= netfaults
  PROVE  DropInv'
<1>1. /\ call'[c].pc = "idle" /\ \A d \in Calls \ {c} : call'[d] = call[d]
      /\ (store' = store /\ writer' = writer) \/ store' = None
  BY EndsTyped DEF DropInv, IdleCall
<1>2. netfaults \in Nat /\ netfaults' \in Nat
  BY DEF DropInv, SessionTyped
<1>3. Brought'
  BY <1>1, NoneIsNoPair DEF DropInv, Brought
<1>4. Refused' /\ FailedFor' /\ Loading'
  BY <1>1, <1>2 DEF DropInv, Refused, FailedFor, Loading
<1> QED
  BY <1>3, <1>4 DEF DropInv

LEMMA DropAge ==
  ASSUME DropInv, SessionTyped', NEW p \in Pairs, Age(p)
  PROVE  DropInv'
<1>1. /\ life[p] = "fresh" /\ life'[p] = "stale" /\ \A q \in Pairs \ {p} : life'[q] = life[q]
      /\ store = p /\ \A c \in Calls : call[c].pc = "again" => call[c].used # p
      /\ UNCHANGED <<denied, store, writer, call, exch, netfaults>>
  BY DEF Age, DropInv, SessionTyped, SessionTypeOK
<1>2. Brought'
  BY <1>1 DEF DropInv, Brought
<1>3. Refused'
  BY <1>1 DEF DropInv, Refused
<1> QED
  BY <1>1, <1>2, <1>3 DEF DropInv, FailedFor, Loading

LEMMA DropLogin ==
  ASSUME DropInv, SessionTyped', NEW t \in Tabs, Login(t)
  PROVE  DropInv'
<1>1. PICK p \in Pairs : Issue(p, None) /\ store' = p
  BY DEF Login
<1>2. /\ life[p] = "unissued" /\ life'[p] = "fresh" /\ \A q \in Pairs \ {p} : life'[q] = life[q]
  BY <1>1, IssueTyped DEF DropInv
<1>3. /\ writer' = t /\ UNCHANGED <<denied, call, exch, netfaults>>
      /\ \A c \in Calls : call[c].tab = t => ~call[c].boot
  BY DEF Login
<1>4. Brought'
  BY <1>1, <1>2, <1>3 DEF DropInv, Brought
<1>5. Refused'
  BY <1>2, <1>3 DEF DropInv, Refused
<1> QED
  BY <1>3, <1>4, <1>5 DEF DropInv, FailedFor, Loading

LEMMA DropCheck ==
  ASSUME DropInv, SessionTyped', NEW t \in Tabs, RefreshCheck(t) \/ ExchangeLost(t)
  PROVE  DropInv'
<1>1. netfaults \in Nat /\ netfaults' \in Nat /\ netfaults' >= netfaults
  BY DEF RefreshCheck, ExchangeLost, DropInv, SessionTyped
<1>2. PICK s \in {"checked", "failed"} :
        /\ exch' = [exch EXCEPT ![t].pc = s] /\ exch[t].pc # "idle"
        /\ s = "failed" => netfaults' > 0 \/ exch[t].old \in denied
  BY <1>1 DEF RefreshCheck, ExchangeLost, DropInv, SessionTyped
<1>3. /\ exch'[t].pc = s /\ exch'[t].old = exch[t].old
      /\ \A u \in Tabs \ {t} : exch'[u] = exch[u]
  BY <1>2, ExchangeMoves DEF DropInv
<1>4. UNCHANGED <<life, denied, store, writer, call>>
  BY DEF RefreshCheck, ExchangeLost
<1>5. Brought'
  BY <1>3, <1>4 DEF DropInv, Brought
<1>6. FailedFor'
  BY <1>1, <1>2, <1>3, <1>4 DEF DropInv, FailedFor
<1>7. Loading'
  BY <1>2, <1>3, <1>4 DEF DropInv, Loading, Refused
<1> QED
  BY <1>4, <1>5, <1>6, <1>7 DEF DropInv, Refused

LEMMA DropBurn ==
  ASSUME DropInv, SessionTyped', NEW t \in Tabs, RefreshBurn(t)
  PROVE  DropInv'
<1>1. exch[t].old \in Pairs /\ exch \in [Tabs -> ExchRecord]
  BY DEF RefreshBurn, DropInv, SessionTyped, SessionTypeOK, ExchRecord
<1>2. PICK p \in Pairs : /\ Issue(p, exch[t].old)
                        /\ exch' = [exch EXCEPT ![t].pc = "answered", ![t].new = p]
  BY DEF RefreshBurn
<1>3. /\ life[p] = "unissued" /\ life'[p] = "fresh" /\ \A q \in Pairs \ {p} : life'[q] = life[q]
  BY <1>1, <1>2, IssueTyped DEF DropInv
<1>4. /\ exch'[t].pc = "answered" /\ exch'[t].new = p /\ exch'[t].old = exch[t].old
      /\ \A u \in Tabs \ {t} : exch'[u] = exch[u]
  BY <1>1, <1>2 DEF ExchRecord
<1>5. denied \subseteq denied' /\ UNCHANGED <<store, writer, call, netfaults>>
  BY DEF RefreshBurn, Revoke
<1>6. Brought'
  <2>1. store # None => store \in Pairs
    BY DEF DropInv, SessionTyped, SessionTypeOK
  <2>2. store' # None => life'[store'] # "unissued"
    BY <1>3, <1>5, <2>1 DEF DropInv, Brought
  <2>3. \A u \in Tabs \ {t} : exch[u].pc = "answered" => exch[u].new \in Pairs /\ exch[u].new # p
    BY <1>3 DEF DropInv, Brought
  <2>4. p # store
    BY <1>3, <2>1, NoneIsNoPair DEF DropInv, Brought
  <2>5. ASSUME NEW v \in Tabs, exch'[v].pc = "answered"
        PROVE  /\ exch'[v].new \in Pairs /\ life'[exch'[v].new] = "fresh" /\ exch'[v].new # store'
               /\ \A u \in Tabs \ {v} : exch'[u].pc = "answered" => exch'[u].new # exch'[v].new
    <3>1. CASE v = t
      BY <1>3, <1>4, <1>5, <2>3, <2>4, <3>1
    <3>2. CASE v # t
      BY <1>3, <1>4, <1>5, <2>3, <2>5, <3>2 DEF DropInv, Brought
    <3> QED
      BY <3>1, <3>2
  <2>6. \A c \in Calls : call'[c].pc = "again" =>
          call'[c].used \in Pairs /\ life'[call'[c].used] = "fresh"
    BY <1>3, <1>5 DEF DropInv, Brought
  <2> QED
    BY <2>2, <2>5, <2>6 DEF Brought
<1>7. Refused'
  BY <1>3, <1>5 DEF DropInv, Refused
<1>8. FailedFor'
  BY <1>4, <1>5 DEF DropInv, FailedFor
<1>9. Loading'
  <2>1. \A u \in Tabs : exch'[u].old = exch[u].old /\ exch[t].pc # "idle"
    BY <1>4 DEF RefreshBurn
  <2>2. \A u \in Tabs : exch'[u].pc # "idle" => exch[u].pc # "idle"
    BY <1>4, <2>1
  <2>3. \A c \in Calls : call[c].pc # "idle" => call[c].tab \in Tabs
    BY DEF DropInv, Refused
  <2> QED
    BY <1>5, <2>1, <2>2, <2>3 DEF DropInv, Loading
<1> QED
  BY <1>6, <1>7, <1>8, <1>9 DEF DropInv

(* Who waited for the exchange of a tab.                                   *)
LEMMA DropDone ==
  ASSUME DropInv, SessionTyped', NEW t \in Tabs, RefreshDone(t)
  PROVE  DropInv'
<1>1. exch \in [Tabs -> ExchRecord] /\ call \in [Calls -> CallRecord]
  BY DEF DropInv, SessionTyped, SessionTypeOK, CallRecord, ExchRecord
<1>2. exch'[t].pc = "idle" /\ \A u \in Tabs \ {t} : exch'[u] = exch[u]
  BY <1>1 DEF RefreshDone, IdleExch
<1>3. UNCHANGED <<life, denied, netfaults>>
  BY DEF RefreshDone
<1>4. FailedFor'
  BY <1>2, <1>3 DEF DropInv, FailedFor
<1>5. CASE Renewed(t)
  <2>1. /\ exch[t].new \in Pairs /\ life[exch[t].new] = "fresh"
        /\ store' = exch[t].new /\ writer' = t
    BY <1>5 DEF Renewed, DropInv, Brought
  <2>2. \A c \in Calls \ Waiting(t) : call'[c] = call[c]
    BY <1>5 DEF Renewed
  <2>3. \A c \in Waiting(t) : /\ c \in Calls /\ call'[c].pc = "again" /\ call'[c].used = exch[t].new
                            /\ call'[c].tab = t
    <3> DEFINE again(r) == [r EXCEPT !.pc = "again", !.used = exch[t].new]
    <3>1. ASSUME NEW r \in CallRecord
          PROVE  again(r).pc = "again" /\ again(r).used = exch[t].new /\ again(r).tab = r.tab
      BY DEF CallRecord
    <3>2. \A c \in Waiting(t) :
            c \in Calls /\ call[c] \in CallRecord /\ call[c].tab = t /\ call'[c] = again(call[c])
      BY <1>1, <1>5 DEF Renewed, Waiting
    <3> HIDE DEF again
    <3> QED
      BY <3>1, <3>2
  <2>4. Brought'
    <3>1. \A u \in Tabs : exch'[u].pc = "answered" => u # t /\ exch[u].new # exch[t].new
      BY <1>2, <1>5 DEF Renewed, DropInv, Brought
    <3>2. \A c \in Calls : call'[c].pc = "again" =>
            call'[c].used \in Pairs /\ life'[call'[c].used] = "fresh"
      BY <1>3, <2>1, <2>2, <2>3 DEF DropInv, Brought
    <3> QED
      BY <1>2, <1>3, <2>1, <3>1, <3>2 DEF DropInv, Brought
  <2>5. Refused'
    BY <1>3, <2>2, <2>3 DEF DropInv, Refused
  <2>6. Loading'
    BY <1>2, <2>1, <2>2, <2>3 DEF DropInv, Loading, Refused
  <2> QED
    BY <1>4, <2>4, <2>5, <2>6 DEF DropInv
<1>6. CASE NotRenewed(t)
  <2>1. /\ \A c \in Calls : call'[c] = call[c] \/ call'[c] = IdleCall
        /\ (store' = store /\ writer' = writer) \/ store' = None
    BY <1>6 DEF NotRenewed
  <2>2. IdleCall.pc = "idle"
    BY DEF IdleCall
  <2>3. Brought'
    BY <1>2, <1>3, <2>1, <2>2, NoneIsNoPair DEF DropInv, Brought
  <2>4. Refused'
    BY <1>3, <2>1, <2>2 DEF DropInv, Refused
  <2>5. Loading'
    BY <1>2, <2>1, <2>2 DEF DropInv, Loading, Refused
  <2> QED
    BY <1>4, <2>3, <2>4, <2>5 DEF DropInv
<1> QED
  BY <1>5, <1>6 DEF RefreshDone

LEMMA DropLogout ==
  ASSUME DropInv, SessionTyped', NEW t \in Tabs, LogoutRevoke(t) \/ LogoutClear(t)
  PROVE  DropInv'
<1>1. /\ denied \subseteq denied' /\ netfaults' >= netfaults /\ UNCHANGED <<life, call, exch>>
      /\ (store' = store /\ writer' = writer) \/ store' = None
  BY DEF LogoutRevoke, LogoutClear, Revoke, DropInv, SessionTyped
<1>2. netfaults \in Nat /\ netfaults' \in Nat
  BY DEF DropInv, SessionTyped
<1>3. Brought'
  BY <1>1, NoneIsNoPair DEF DropInv, Brought
<1> QED
  BY <1>1, <1>2, <1>3 DEF DropInv, Refused, FailedFor, Loading

LEMMA DropSend ==
  ASSUME DropInv, SessionTyped', NEW c \in Calls, NEW t \in Tabs, NEW boot \in BOOLEAN,
         Send(c, t, boot)
  PROVE  DropInv'
<1>1. /\ call'[c] = [pc |-> "sent", tab |-> t, boot |-> boot, used |-> store]
      /\ \A d \in Calls \ {c} : call'[d] = call[d]
  BY DEF Send, DropInv, SessionTyped, SessionTypeOK
<1>2. /\ call'[c].pc = "sent" /\ call'[c].tab = t /\ call'[c].boot = boot /\ call'[c].used = store
  BY <1>1
<1>3. /\ UNCHANGED <<life, denied, store, writer, exch, netfaults>>
      /\ store \in Pairs /\ (boot => exch[t].pc = "idle")
  BY DEF Send, IdleExch, DropInv, SessionTyped, SessionTypeOK
<1>4. Brought' /\ Refused'
  BY <1>1, <1>2, <1>3, NoneIsNoPair DEF DropInv, Brought, Refused
<1>5. Loading'
  BY <1>1, <1>2, <1>3 DEF DropInv, Loading
<1> QED
  BY <1>3, <1>4, <1>5 DEF DropInv, FailedFor

(* A refused call joins the exchange of its tab or starts one.             *)
LEMMA DropAnswer ==
  ASSUME DropInv, SessionTyped', NEW c \in Calls, Answer(c)
  PROVE  DropInv'
<1> DEFINE t == call[c].tab
           new == [pc |-> "sent", old |-> store, new |-> None]
<1>1. CASE UNCHANGED exch /\ (Ends(c, TRUE) \/ Ends(c, FALSE))
  <2>1. netfaults' >= netfaults /\ UNCHANGED <<life, denied>>
    BY DEF Answer, DropInv, SessionTyped
  <2> QED
    BY <1>1, <2>1, DropEnds
<1>2. CASE ~ (UNCHANGED exch /\ (Ends(c, TRUE) \/ Ends(c, FALSE)))
  <2>1. /\ ~ AccessValid(call[c].used) /\ store # None
        /\ call' = [call EXCEPT ![c].pc = "waiting"]
        /\ exch' = IF exch[t] = IdleExch THEN [exch EXCEPT ![t] = new] ELSE exch
        /\ call[c].pc = "sent" /\ UNCHANGED <<life, denied, store, writer, netfaults>>
    BY <1>2 DEF Answer
  <2>2. /\ exch \in [Tabs -> ExchRecord] /\ call \in [Calls -> CallRecord]
        /\ t \in Tabs /\ life \in [Pairs -> {"unissued", "fresh", "stale"}]
    BY <2>1 DEF DropInv, Refused, SessionTyped, SessionTypeOK, CallRecord, ExchRecord
  <2>3. /\ call'[c].pc = "waiting" /\ call'[c].used = call[c].used
        /\ call'[c].tab = t /\ call'[c].boot = call[c].boot
        /\ \A d \in Calls \ {c} : call'[d] = call[d]
    BY <2>1, <2>2 DEF CallRecord
  <2>4. /\ exch'[t] = exch[t] \/ (exch'[t].pc = "sent" /\ exch'[t].old = store)
        /\ \A u \in Tabs \ {t} : exch'[u] = exch[u]
    BY <2>1, <2>2
  <2>5. call[c].used \in Pairs /\ life[call[c].used] = "stale"
    BY <2>1, <2>2, NoneIsNoPair DEF DropInv, Refused, AccessValid
  <2>6. Brought'
    <3>1. \A u \in Tabs : exch'[u].pc = "answered" => exch[u].pc = "answered" /\ exch'[u] = exch[u]
      BY <2>4
    <3>2. \A d \in Calls : call'[d].pc = "again" => call[d].pc = "again" /\ call'[d] = call[d]
      BY <2>3
    <3> QED
      BY <2>1, <3>1, <3>2 DEF DropInv, Brought
  <2>7. Refused'
    BY <2>1, <2>2, <2>3, <2>5 DEF DropInv, Refused
  <2>8. FailedFor'
    BY <2>1, <2>4 DEF DropInv, FailedFor
  <2>9. Loading'
    <3>1. ASSUME NEW d \in Calls, call'[d].boot, call'[d].pc \in {"sent", "waiting"},
                 exch'[call'[d].tab].pc # "idle"
          PROVE  store' = None \/ store' = exch'[call'[d].tab].old \/ writer' # call'[d].tab
      <4>1. call'[d].tab = call[d].tab /\ call[d].tab \in Tabs
            /\ call[d].boot /\ call[d].pc \in {"sent", "waiting"}
        BY <2>1, <2>2, <2>3, <3>1 DEF DropInv, Refused
      <4>2. exch'[call[d].tab] = exch[call[d].tab] \/ exch'[call[d].tab].old = store
        BY <2>4, <4>1
      <4> QED
        BY <2>1, <3>1, <4>1, <4>2 DEF DropInv, Loading
    <3> QED
      BY <3>1 DEF Loading
  <2> QED
    BY <2>6, <2>7, <2>8, <2>9 DEF DropInv
<1> QED
  BY <1>1, <1>2

LEMMA DropStep == DropInv /\ [SessionNext]_sessionVars => DropInv'
<1> SUFFICES ASSUME DropInv, [SessionNext]_sessionVars PROVE DropInv'
  OBVIOUS
<1>0. SessionTyped /\ SessionTyped'
  BY SessionTypes DEF DropInv
<1>1. ASSUME NEW c \in Calls, CallFails(c) \/ AnswerAgain(c) PROVE DropInv'
  <2>1. netfaults' >= netfaults
    <3>1. CASE CallFails(c)
      BY <1>0, <3>1 DEF CallFails, SessionTyped
    <3>2. CASE AnswerAgain(c)
      BY <1>0, <3>2 DEF AnswerAgain, SessionTyped
    <3> QED
      BY <1>1, <3>1, <3>2
  <2> QED
    BY <1>0, <1>1, <2>1, DropEnds DEF CallFails, AnswerAgain
<1>2. CASE UNCHANGED sessionVars
  BY <1>2, <1>0 DEF sessionVars, DropInv, Brought, Refused, FailedFor, Loading
<1> QED
  BY <1>0, <1>1, <1>2, DropAge, DropLogin, DropCheck, DropBurn, DropDone, DropLogout, DropSend,
     DropAnswer
  DEF SessionNext

(* What bootstrap's catch throws away for every tab was of no use, or      *)
(* another tab had stored it since; until a request or Redis fails.        *)
THEOREM DropsWhatIsSpent == SessionSpec => DroppedOnlyWhenSpent
<1> DEFINE Spent ==
      \/ leaving' # leaving
      \/ netfaults' + outages > 0
      \/ store \in denied \/ life[store] # "fresh"
      \/ \E c \in Calls : /\ call[c] # call'[c]
                          /\ call[c].used # store /\ writer # call[c].tab
<1>1. DropInv /\ [SessionNext]_sessionVars => [store # None /\ store' = None => Spent]_sessionVars
  <2> SUFFICES ASSUME DropInv, SessionNext, store # None, store' = None PROVE Spent
    OBVIOUS
  <2>0. SessionTyped /\ SessionTyped' /\ store \in Pairs
    BY SessionTypes DEF DropInv, SessionTyped, SessionTypeOK
  <2>1. ASSUME NEW p \in Pairs, Age(p) PROVE FALSE
    BY <2>1 DEF Age
  <2>2. ASSUME NEW t \in Tabs, Login(t) PROVE FALSE
    BY <2>2, NoneIsNoPair DEF Login
  <2>3. ASSUME NEW t \in Tabs, RefreshCheck(t) \/ RefreshBurn(t) \/ ExchangeLost(t) \/ LogoutRevoke(t)
        PROVE  FALSE
    BY <2>3 DEF RefreshCheck, RefreshBurn, ExchangeLost, LogoutRevoke
  <2>4. ASSUME NEW t \in Tabs, LogoutClear(t) PROVE Spent
    BY <2>0, <2>4 DEF LogoutClear, SessionTyped, SessionTypeOK
  <2>5. ASSUME NEW c \in Calls, NEW t \in Tabs, NEW boot \in BOOLEAN, Send(c, t, boot) PROVE FALSE
    BY <2>5 DEF Send
  <2>6. ASSUME NEW c \in Calls, Answer(c) PROVE FALSE
    BY <2>6 DEF Answer, Ends
  <2>7. ASSUME NEW c \in Calls, CallFails(c) PROVE Spent
    BY <2>0, <2>7 DEF CallFails, SessionTyped
  <2>8. ASSUME NEW c \in Calls, AnswerAgain(c) PROVE FALSE
    BY <2>8, NoneIsNoPair DEF AnswerAgain, Ends, AccessValid, DropInv, Brought
  <2>9. ASSUME NEW t \in Tabs, RefreshDone(t) PROVE Spent
    <3>1. NotRenewed(t)
      BY <2>9, NoneIsNoPair DEF RefreshDone, Renewed, DropInv, Brought
    <3>2. PICK c \in Waiting(t) : call[c].boot
      BY <3>1 DEF NotRenewed
    <3>3. /\ c \in Calls /\ call[c].tab = t /\ call[c].pc = "waiting" /\ call'[c] = IdleCall
      BY <3>1, <3>2 DEF NotRenewed, Waiting
    <3>4. call[c] # call'[c]
      BY <3>3 DEF IdleCall
    <3>5. store = call[c].used => life[store] # "fresh"
      BY <3>3 DEF DropInv, Refused
    <3>6. store = exch[t].old \/ writer # t
      BY <3>1, <3>2, <3>3 DEF NotRenewed, DropInv, Loading
    <3>7. netfaults > 0 \/ exch[t].old \in denied
      BY <3>1 DEF NotRenewed, DropInv, FailedFor
    <3>8. netfaults > 0 => netfaults' + outages > 0
      BY <2>0, <2>9 DEF RefreshDone, SessionTyped
    <3> QED
      BY <3>3, <3>4, <3>5, <3>6, <3>7, <3>8
  <2> QED
    BY <2>1, <2>2, <2>3, <2>4, <2>5, <2>6, <2>7, <2>8, <2>9 DEF SessionNext
<1> QED
  BY <1>1, InitDrop, DropStep, PTL DEF SessionSpec, DroppedOnlyWhenSpent

-----------------------------------------------------------------------------
(* Subscriptions: types.                                                   *)

Event == [type : {"completed", "updated", "payment_failed", "deleted", "other"},
          plan : Paid \cup {"free"}, meta : BOOLEAN, cust : Customers, sub : Ids]
Row == [plan : Paid \cup {"free"}, billing : {b \in Billing : Len(b.seen) <= Ring}]
Request == {Free} \cup [handler : {"checkout"}, row : Row, cust : Customers]
                  \cup [handler : {"webhook"}, row : Row, event : Ids]

BillingTyped ==
  /\ stripe \subseteq Subscriptions
  /\ events \in Seq(Event) /\ Len(events) <= MaxEvents
  /\ \A s \in stripe : s.sub <= Len(events)
  /\ customers \in Customers
  /\ org \in Row
  /\ hand \in [Handlers -> Request]
  /\ deliveries \in 0..DeliveryBudget
  /\ applied \in [Ids -> Nat]
  /\ raced \in BOOLEAN /\ ordered \in BOOLEAN

(* The ring remembers the new id and all the old ones but the oldest.      *)
LEMMA RememberKeeps ==
  ASSUME NEW s \in Seq(Ids), Len(s) <= Ring, NEW i \in Ids
  PROVE  /\ Remember(s, i) \in Seq(Ids) /\ Len(Remember(s, i)) <= Ring
         /\ \E n \in 1..Len(Remember(s, i)) : Remember(s, i)[n] = i
         /\ \A n \in 1..Len(s) : ~ (Len(s) = Ring /\ n = 1)
              => \E m \in 1..Len(Remember(s, i)) : Remember(s, i)[m] = s[n]
<1> DEFINE all == Append(s, i)
<1>0. Ring \in Nat \ {0} /\ Len(s) \in Nat
  BY BillingAssumption
<1>1. /\ all \in Seq(Ids) /\ Len(all) = Len(s) + 1 /\ all[Len(s) + 1] = i
      /\ \A n \in 1..Len(s) : all[n] = s[n]
  BY <1>0
<1> HIDE DEF all
<1>2. CASE Len(all) > Ring
  <2>0. Len(s) = Ring /\ Len(all) - Ring + 1 = 2 /\ Len(all) = Ring + 1
    BY <1>0, <1>1, <1>2
  <2>1. Len(s) = Ring /\ Remember(s, i) = SubSeq(all, 2, Ring + 1)
    <3>1. Remember(s, i) = SubSeq(all, Len(all) - Ring + 1, Len(all))
      BY <1>2 DEF Remember, all
    <3> QED BY <2>0, <3>1
  <2>2. /\ SubSeq(all, 2, Ring + 1) \in Seq(Ids)
        /\ Len(SubSeq(all, 2, Ring + 1)) = Ring
        /\ \A n \in 1..Ring : SubSeq(all, 2, Ring + 1)[n] = all[n + 1]
    BY <1>0, <1>1, <2>1, SubSeqProperties
  <2>3. Remember(s, i)[Ring] = i /\ Ring \in 1..Ring
    BY <1>0, <1>1, <2>1, <2>2
  <2>4. \A n \in 1..Len(s) : n # 1 => n - 1 \in 1..Ring /\ Remember(s, i)[n - 1] = s[n]
    BY <1>0, <1>1, <2>1, <2>2
  <2> QED
    BY <2>1, <2>2, <2>3, <2>4
<1>3. CASE ~ (Len(all) > Ring)
  <2>1. Remember(s, i) = all
    BY <1>3 DEF Remember, all
  <2> QED
    BY <1>0, <1>1, <1>3, <2>1
<1> QED
  BY <1>2, <1>3

LEMMA InitBillingTyped == BillingInit => BillingTyped
<1> SUFFICES ASSUME BillingInit PROVE BillingTyped
  OBVIOUS
<1>1. org \in Row
  <2>1. <<>> \in Seq(Ids) /\ Len(<<>>) = 0 /\ 0 <= Ring
    BY BillingAssumption
  <2>2. [status |-> "none", cust |-> NoCustomer, seen |-> <<>>] \in Billing
    BY <2>1, BillingAssumption DEF Billing, Customers, NoCustomer
  <2> QED
    BY <2>1, <2>2 DEF BillingInit, Row
<1>2. events \in Seq(Event) /\ Len(events) <= MaxEvents
  <2>1. events = <<>>
    BY DEF BillingInit
  <2> QED
    BY <2>1, BillingAssumption
<1>3. hand \in [Handlers -> Request]
  BY DEF BillingInit, Request
<1>4. applied \in [Ids -> Nat]
  BY DEF BillingInit
<1>5. stripe \subseteq Subscriptions /\ customers \in Customers /\ \A s \in stripe : s.sub <= Len(events)
  BY BillingAssumption DEF BillingInit, Customers, NoCustomer
<1>6. deliveries \in 0..DeliveryBudget
  BY BillingAssumption DEF BillingInit
<1>7. raced \in BOOLEAN /\ ordered \in BOOLEAN
  BY Zenon DEF BillingInit
<1> QED
  BY <1>1, <1>2, <1>3, <1>4, <1>5, <1>6, <1>7 DEF BillingTyped

(* An event that is appended leaves the others as they are.                *)
LEMMA EmitTyped ==
  ASSUME BillingTyped, NEW type \in {"completed", "updated", "payment_failed", "deleted", "other"},
         NEW plan \in Paid \cup {"free"}, NEW meta \in BOOLEAN, NEW s \in Subscriptions,
         Emit(type, plan, meta, s)
  PROVE  /\ events' \in Seq(Event) /\ Len(events') <= MaxEvents /\ Len(events') = Len(events) + 1
         /\ events'[Len(events')].type = type /\ events'[Len(events')].plan = plan
         /\ events'[Len(events')].sub = s.sub
         /\ \A i \in 1..Len(events) : events'[i] = events[i]
<1> DEFINE e == [type |-> type, plan |-> plan, meta |-> meta, cust |-> s.cust, sub |-> s.sub]
<1>1. e \in Event /\ e.type = type /\ e.plan = plan /\ e.sub = s.sub
  BY DEF Event, Subscriptions
<1>2. events' = Append(events, e) /\ Len(events) < MaxEvents
  BY DEF Emit
<1> HIDE DEF e
<1>3. events \in Seq(Event) /\ Len(events) \in Nat
  BY DEF BillingTyped
<1> QED
  BY <1>1, <1>2, <1>3, BillingAssumption

(* What Stripe does: one more event, about a new subscription or about one *)
(* that lives.                                                             *)
StripeActs ==
  /\ \/ \E p \in Paid, c \in Customers : Pay(p, c)
     \/ \E s \in stripe : Renew(s) \/ PaymentFails(s) \/ Cancel(s) \/ OtherEvent(s)
  /\ UNCHANGED <<customers, org, hand, deliveries, applied, evicted, raced, ordered>>

Bears(s) ==
  LET e == events'[Len(events')]
  IN  s \notin stripe /\ s.sub = Len(events') /\ stripe' = stripe \cup {s} /\ e.type = "completed"
      /\ e.plan = s.plan

Concerns(s) ==
  LET e == events'[Len(events')]
  IN  /\ s \in stripe /\ e.sub = s.sub /\ e.type # "completed"
      /\ e.type = "updated" => e.plan = s.plan
      /\ e.type = "deleted" => e.plan = "free"
      /\ stripe' = IF e.type = "deleted" THEN stripe \ {s} ELSE stripe

LEMMA StripeTyped ==
  ASSUME BillingTyped, StripeActs
  PROVE  /\ BillingTyped'
         /\ Len(events') = Len(events) + 1
         /\ \A i \in 1..Len(events) : events'[i] = events[i]
         /\ \E s \in Subscriptions : Bears(s) \/ Concerns(s)
<1>0. /\ UNCHANGED <<customers, org, hand, deliveries, applied, evicted, raced, ordered>>
      /\ Len(events) \in Nat /\ stripe \subseteq Subscriptions
      /\ \A s \in stripe : s.sub \in Nat /\ s.sub <= Len(events)
  BY DEF StripeActs, BillingTyped, Subscriptions, Ids
<1>1. ASSUME NEW type \in {"completed", "updated", "payment_failed", "deleted", "other"},
             NEW plan \in Paid \cup {"free"}, NEW meta \in BOOLEAN, NEW s \in Subscriptions,
             Emit(type, plan, meta, s), stripe' \subseteq stripe \cup {s}, s.sub <= Len(events) + 1
      PROVE  /\ BillingTyped'
             /\ Len(events') = Len(events) + 1
             /\ \A i \in 1..Len(events) : events'[i] = events[i]
             /\ events'[Len(events')].type = type /\ events'[Len(events')].plan = plan
             /\ events'[Len(events')].sub = s.sub
  <2>1. /\ events' \in Seq(Event) /\ Len(events') <= MaxEvents /\ Len(events') = Len(events) + 1
        /\ events'[Len(events')].type = type /\ events'[Len(events')].plan = plan
        /\ events'[Len(events')].sub = s.sub
        /\ \A i \in 1..Len(events) : events'[i] = events[i]
    BY <1>1, EmitTyped
  <2>2. stripe' \subseteq Subscriptions /\ \A t \in stripe' : t.sub <= Len(events')
    BY <1>0, <1>1, <2>1
  <2>3. BillingTyped'
    BY <1>0, <1>1, <2>1, <2>2 DEF BillingTyped
  <2> QED
    BY <2>1, <2>3
<1>2. ASSUME NEW p \in Paid, NEW c \in Customers, Pay(p, c)
      PROVE  /\ BillingTyped'
             /\ Len(events') = Len(events) + 1
             /\ \A i \in 1..Len(events) : events'[i] = events[i]
             /\ \E s \in Subscriptions : Bears(s)
  <2> DEFINE s == [sub |-> Len(events) + 1, plan |-> p, cust |-> c]
  <2>1. /\ Emit("completed", p, TRUE, s) /\ stripe' = stripe \cup {s}
    BY <1>2 DEF Pay
  <2>2. s \in Subscriptions /\ s.sub = Len(events) + 1 /\ s.plan = p
    <3>1. Len(events) < MaxEvents
      BY <2>1 DEF Emit
    <3>2. Len(events) + 1 \in Ids
      BY <1>0, <3>1, BillingAssumption DEF Ids
    <3> QED
      BY <3>2 DEF Subscriptions
  <2> HIDE DEF s
  <2>3. stripe' \subseteq stripe \cup {s} /\ s.sub <= Len(events) + 1
    BY <1>0, <2>1, <2>2
  <2>4. s \notin stripe
    BY <1>0, <2>2
  <2>5. /\ BillingTyped'
        /\ Len(events') = Len(events) + 1
        /\ \A i \in 1..Len(events) : events'[i] = events[i]
        /\ events'[Len(events')].type = "completed" /\ events'[Len(events')].plan = p
    BY <1>1, <2>1, <2>2, <2>3
  <2> QED
    BY <2>1, <2>2, <2>4, <2>5 DEF Bears
<1>3. ASSUME NEW s \in stripe, Renew(s) \/ PaymentFails(s) \/ Cancel(s) \/ OtherEvent(s)
      PROVE  /\ BillingTyped'
             /\ Len(events') = Len(events) + 1
             /\ \A i \in 1..Len(events) : events'[i] = events[i]
             /\ Concerns(s) /\ s \in Subscriptions
  <2>0. s \in Subscriptions /\ s.plan \in Paid /\ s.sub <= Len(events) + 1
    BY <1>0 DEF Subscriptions
  <2>1. CASE Renew(s)
    <3>1. Emit("updated", s.plan, TRUE, s) /\ stripe' = stripe
      BY <2>1 DEF Renew
    <3>2. /\ BillingTyped' /\ Len(events') = Len(events) + 1
          /\ \A i \in 1..Len(events) : events'[i] = events[i]
          /\ events'[Len(events')].type = "updated" /\ events'[Len(events')].plan = s.plan
          /\ events'[Len(events')].sub = s.sub
      BY <1>0, <1>1, <2>0, <3>1
    <3> QED
      BY <2>0, <3>1, <3>2 DEF Concerns
  <2>2. CASE Cancel(s)
    <3>1. Emit("deleted", "free", TRUE, s) /\ stripe' = stripe \ {s}
      BY <2>2 DEF Cancel
    <3>2. /\ BillingTyped' /\ Len(events') = Len(events) + 1
          /\ \A i \in 1..Len(events) : events'[i] = events[i]
          /\ events'[Len(events')].type = "deleted" /\ events'[Len(events')].plan = "free"
          /\ events'[Len(events')].sub = s.sub
      BY <1>0, <1>1, <2>0, <3>1
    <3> QED
      BY <2>0, <3>1, <3>2 DEF Concerns
  <2>3. CASE PaymentFails(s) \/ OtherEvent(s)
    <3>1. PICK type \in {"payment_failed", "other"}, meta \in BOOLEAN :
            Emit(type, "free", meta, s) /\ stripe' = stripe
      BY <2>3 DEF PaymentFails, OtherEvent
    <3>2. /\ BillingTyped' /\ Len(events') = Len(events) + 1
          /\ \A i \in 1..Len(events) : events'[i] = events[i]
          /\ events'[Len(events')].type = type /\ events'[Len(events')].sub = s.sub
      BY <1>0, <1>1, <2>0, <3>1
    <3> QED
      BY <2>0, <3>1, <3>2 DEF Concerns
  <2> QED
    BY <1>3, <2>1, <2>2, <2>3
<1> QED
  BY <1>2, <1>3 DEF StripeActs

(* A handler's turn.                                                       *)
LEMMA HandTyped ==
  ASSUME BillingTyped, NEW h \in Handlers, NEW r \in Request, hand' = [hand EXCEPT ![h] = r]
  PROVE  /\ hand' \in [Handlers -> Request] /\ hand'[h] = r
         /\ \A g \in Handlers \ {h} : hand'[g] = hand[g]
<1>1. hand \in [Handlers -> Request]
  BY DEF BillingTyped
<1> QED
  BY <1>1

LEMMA LoadTyped ==
  ASSUME BillingTyped, NEW h \in Handlers, CheckoutLoad(h) \/ \E i \in Ids : WebhookLoad(h, i)
  PROVE  BillingTyped'
<1>1. CASE CheckoutLoad(h)
  <2>1. customers' \in Customers
    BY <1>1, BillingAssumption DEF CheckoutLoad, BillingTyped, Customers
  <2>2. [handler |-> "checkout", row |-> org, cust |-> customers + 1] \in Request
    BY <1>1, <2>1 DEF CheckoutLoad, BillingTyped, Request
  <2>3. hand' \in [Handlers -> Request]
    BY <1>1, <2>2, HandTyped DEF CheckoutLoad
  <2> QED
    BY <1>1, <2>1, <2>3 DEF CheckoutLoad, BillingTyped
<1>2. ASSUME NEW i \in Ids, WebhookLoad(h, i) PROVE BillingTyped'
  <2>1. [handler |-> "webhook", row |-> org, event |-> i] \in Request
    BY DEF BillingTyped, Request
  <2>2. hand' \in [Handlers -> Request]
    BY <1>2, <2>1, HandTyped DEF WebhookLoad, BillingTyped
  <2>3. deliveries' \in 0..DeliveryBudget
    BY <1>2, BillingAssumption DEF WebhookLoad, BillingTyped
  <2> QED
    BY <1>2, <2>2, <2>3 DEF WebhookLoad, BillingTyped
<1> QED
  BY <1>1, <1>2

(* The request a handler works on.                                         *)
LEMMA RequestFields ==
  ASSUME BillingTyped, NEW h \in Handlers
  PROVE  /\ hand[h].handler = "checkout" => hand[h].row \in Row /\ hand[h].cust \in Customers
         /\ hand[h].handler = "webhook" => hand[h].row \in Row /\ hand[h].event \in Ids
<1>1. hand[h] \in Request
  BY DEF BillingTyped
<1> QED
  BY <1>1 DEF Request, Free

LEMMA RowFields ==
  ASSUME NEW r \in Row
  PROVE  /\ r.plan \in Paid \cup {"free"}
         /\ r.billing.seen \in Seq(Ids) /\ Len(r.billing.seen) <= Ring
         /\ r.billing \in Billing /\ r.billing.cust \in Customers
         /\ r.billing.status \in {"none", "active", "past_due", "canceled"}
  BY DEF Row, Billing

LEMMA CheckoutTyped ==
  ASSUME BillingTyped, NEW h \in Handlers, CheckoutCommit(h)
  PROVE  /\ BillingTyped' /\ hand'[h] = Free /\ \A g \in Handlers \ {h} : hand'[g] = hand[g]
         /\ org'.plan = org.plan
         /\ ~raced' => ~raced /\ org'.billing.seen = org.billing.seen
<1> DEFINE row == hand[h].row
           bill == [row.billing EXCEPT !.cust = hand[h].cust]
<1>1. row \in Row /\ hand[h].cust \in Customers
  BY RequestFields DEF CheckoutCommit
<1>2. bill \in Billing /\ bill.seen = row.billing.seen
  BY <1>1, RowFields DEF Billing
<1>3. /\ org \in Row /\ org' = [org EXCEPT !.billing = bill]
      /\ raced' = (raced \/ org # row) /\ raced \in BOOLEAN
  BY DEF CheckoutCommit, BillingTyped
<1> HIDE DEF bill
<1>4. org' \in Row /\ org'.plan = org.plan /\ org'.billing = bill
  BY <1>1, <1>2, <1>3, RowFields DEF Row
<1>5. Free \in Request
  BY DEF Request
<1>6. /\ hand' \in [Handlers -> Request] /\ hand'[h] = Free
      /\ \A g \in Handlers \ {h} : hand'[g] = hand[g]
  BY <1>5, HandTyped DEF CheckoutCommit
<1>7. BillingTyped'
  BY <1>3, <1>4, <1>6 DEF CheckoutCommit, BillingTyped
<1>8. ~raced' => ~raced /\ org'.billing.seen = org.billing.seen
  BY <1>2, <1>3, <1>4
<1> QED
  BY <1>4, <1>6, <1>7, <1>8

(* What a webhook handler writes.                                          *)
LEMMA WebhookTyped ==
  ASSUME BillingTyped, NEW h \in Handlers, WebhookCommit(h),
         hand[h].event \in 1..Len(events)
  PROVE  LET i == hand[h].event
             row == hand[h].row
             plan == PlanAfter(events[i], row.plan)
         IN  /\ i \in Ids /\ row \in Row
             /\ BillingTyped' /\ hand'[h] = Free /\ \A g \in Handlers \ {h} : hand'[g] = hand[g]
             /\ applied'[i] = applied[i] + 1 /\ \A j \in Ids \ {i} : applied'[j] = applied[j]
             /\ org'.plan = (IF plan = row.plan THEN org.plan ELSE plan)
             /\ org'.billing.seen = Remember(row.billing.seen, i)
<1> DEFINE i == hand[h].event
           row == hand[h].row
           e == events[i]
           plan == PlanAfter(e, row.plan)
           bill == [row.billing EXCEPT !.status = StatusAfter(e, @), !.seen = Remember(@, i)]
<1>1. i \in Ids /\ row \in Row /\ e \in Event
  BY RequestFields DEF WebhookCommit, BillingTyped
<1>2. plan \in Paid \cup {"free"}
  BY <1>1, RowFields DEF PlanAfter, Event
<1>3. StatusAfter(e, row.billing.status) \in {"none", "active", "past_due", "canceled"}
  BY <1>1, RowFields DEF StatusAfter
<1>4. /\ Remember(row.billing.seen, i) \in Seq(Ids)
      /\ Len(Remember(row.billing.seen, i)) <= Ring
  BY <1>1, RowFields, RememberKeeps
<1>5. bill \in Billing /\ bill.seen = Remember(row.billing.seen, i)
  <2>1. row.billing \in Billing
    BY <1>1, RowFields
  <2> QED
    BY <1>3, <1>4, <2>1 DEF Billing
<1>6. org' = [plan |-> IF plan = row.plan THEN org.plan ELSE plan, billing |-> bill]
  BY DEF WebhookCommit
<1> HIDE DEF bill, plan
<1>7. /\ org' \in Row /\ org'.billing.seen = Remember(row.billing.seen, i)
      /\ org'.plan = (IF plan = row.plan THEN org.plan ELSE plan)
  <2>1. org.plan \in Paid \cup {"free"}
    BY RowFields DEF BillingTyped
  <2> QED
    BY <1>2, <1>4, <1>5, <1>6, <2>1 DEF Row
<1>8. Free \in Request
  BY DEF Request
<1>9. /\ hand' \in [Handlers -> Request] /\ hand'[h] = Free
      /\ \A g \in Handlers \ {h} : hand'[g] = hand[g]
  BY <1>8, HandTyped DEF WebhookCommit
<1>10. /\ applied' \in [Ids -> Nat]
       /\ applied'[i] = applied[i] + 1 /\ \A j \in Ids \ {i} : applied'[j] = applied[j]
  BY <1>1 DEF WebhookCommit, BillingTyped
<1>11. raced' \in BOOLEAN /\ ordered' \in BOOLEAN
  BY DEF WebhookCommit, BillingTyped
<1>12. BillingTyped'
  BY <1>7, <1>9, <1>10, <1>11 DEF WebhookCommit, BillingTyped
<1> QED
  BY <1>1, <1>7, <1>9, <1>10, <1>12 DEF plan

-----------------------------------------------------------------------------
(* An event is applied once.                                               *)

(* A request that was let in works on an event its row does not remember.  *)
Fresh ==
  \A h \in Handlers : hand[h].handler = "webhook" =>
    hand[h].event \in 1..Len(events) /\ ~ Seen(hand[h].event, hand[h].row.billing)

Known == \A i \in Ids : applied[i] > 0 => i <= Len(events)

(* Until a document is overwritten unseen, the row remembers what was      *)
(* applied, or it fell out of the ring.                                    *)
Remembered ==
  ~raced => \A i \in Ids \ evicted : applied[i] > 0 => Seen(i, org.billing)

OnceInv == BillingTyped /\ Fresh /\ Known /\ Remembered /\ AppliedOnce

LEMMA InitOnce == BillingInit => OnceInv
<1> SUFFICES ASSUME BillingInit PROVE OnceInv
  OBVIOUS
<1>1. \A i \in Ids : applied[i] = 0
  BY DEF BillingInit
<1>2. \A h \in Handlers : hand[h].handler = "free"
  BY DEF BillingInit, Free
<1> QED
  BY <1>1, <1>2, InitBillingTyped DEF OnceInv, Fresh, Known, Remembered, AppliedOnce

LEMMA OnceStripe == ASSUME OnceInv, StripeActs PROVE OnceInv'
<1>1. BillingTyped' /\ Len(events') = Len(events) + 1
  BY StripeTyped DEF OnceInv
<1>2. Len(events) \in Nat
  BY DEF OnceInv, BillingTyped
<1>3. UNCHANGED <<org, hand, applied, evicted, raced>>
  BY DEF StripeActs
<1>4. 1..Len(events) \subseteq 1..Len(events') /\ \A i \in Ids : i <= Len(events) => i <= Len(events')
  BY <1>1, <1>2 DEF Ids
<1> QED
  BY <1>1, <1>3, <1>4 DEF OnceInv, Fresh, Known, Remembered, AppliedOnce, Seen

LEMMA OnceLoad ==
  ASSUME OnceInv, NEW h \in Handlers, CheckoutLoad(h) \/ \E i \in Ids : WebhookLoad(h, i)
  PROVE  OnceInv'
<1>1. BillingTyped'
  BY LoadTyped DEF OnceInv
<1>2. UNCHANGED <<events, org, applied, evicted, raced>>
  BY DEF CheckoutLoad, WebhookLoad
<1>3. \A g \in Handlers : \/ hand'[g] = hand[g]
                        \/ hand'[g].handler = "checkout"
                        \/ /\ hand'[g].event \in 1..Len(events)
                           /\ ~ Seen(hand'[g].event, hand'[g].row.billing)
  <2>0. hand \in [Handlers -> Request]
    BY DEF OnceInv, BillingTyped
  <2>1. CASE CheckoutLoad(h)
    BY <2>0, <2>1 DEF CheckoutLoad
  <2>2. ASSUME NEW i \in Ids, WebhookLoad(h, i), hand' # hand
        PROVE  /\ \A g \in Handlers \ {h} : hand'[g] = hand[g]
               /\ hand'[h].event \in 1..Len(events) /\ ~ Seen(hand'[h].event, hand'[h].row.billing)
    <3> DEFINE r == [handler |-> "webhook", row |-> org, event |-> i]
    <3>1. hand' = [hand EXCEPT ![h] = r] /\ i <= Len(events) /\ ~ Seen(i, org.billing)
      BY <2>2 DEF WebhookLoad
    <3>2. r.event = i /\ r.row = org
      OBVIOUS
    <3>3. i \in 1..Len(events)
      BY <3>1 DEF Ids, OnceInv, BillingTyped
    <3> HIDE DEF r
    <3> QED
      BY <2>0, <3>1, <3>2, <3>3
  <2> QED
    BY <2>1, <2>2
<1>4. Fresh'
  BY <1>2, <1>3 DEF OnceInv, Fresh, Seen
<1> QED
  BY <1>1, <1>2, <1>4 DEF OnceInv, Known, Remembered, AppliedOnce, Seen

LEMMA OnceCheckout ==
  ASSUME OnceInv, NEW h \in Handlers, CheckoutCommit(h)
  PROVE  OnceInv'
<1>1. /\ BillingTyped' /\ hand'[h] = Free /\ \A g \in Handlers \ {h} : hand'[g] = hand[g]
      /\ ~raced' => ~raced /\ org'.billing.seen = org.billing.seen
  BY CheckoutTyped DEF OnceInv
<1>2. UNCHANGED <<events, applied, evicted>>
  BY DEF CheckoutCommit
<1>3. Fresh'
  BY <1>1, <1>2 DEF OnceInv, Fresh, Seen, Free
<1> QED
  BY <1>1, <1>2, <1>3 DEF OnceInv, Known, Remembered, AppliedOnce, Seen

LEMMA OnceWebhook ==
  ASSUME OnceInv, NEW h \in Handlers, WebhookCommit(h)
  PROVE  OnceInv'
<1> DEFINE i == hand[h].event
           row == hand[h].row
<1>0. BillingTyped /\ i \in 1..Len(events) /\ ~ Seen(i, row.billing)
  BY DEF OnceInv, Fresh, WebhookCommit
<1>1. /\ i \in Ids /\ row \in Row
      /\ BillingTyped' /\ hand'[h] = Free /\ \A g \in Handlers \ {h} : hand'[g] = hand[g]
      /\ applied'[i] = applied[i] + 1 /\ \A j \in Ids \ {i} : applied'[j] = applied[j]
      /\ org'.billing.seen = Remember(row.billing.seen, i)
  BY <1>0, WebhookTyped
<1>2. /\ UNCHANGED events
      /\ raced' = (raced \/ org # row)
      /\ evicted' = IF Len(row.billing.seen) = Ring
                    THEN evicted \cup {row.billing.seen[1]} ELSE evicted
  BY DEF WebhookCommit
<1>3. applied \in [Ids -> Nat]
  BY <1>0 DEF BillingTyped
<1>4. Fresh'
  BY <1>1, <1>2 DEF OnceInv, Fresh, Seen, Free
<1>5. Known'
  BY <1>0, <1>1, <1>2 DEF OnceInv, Known
<1> SUFFICES ASSUME ~raced' PROVE Remembered' /\ AppliedOnce'
  BY <1>1, <1>4, <1>5 DEF OnceInv, Remembered, AppliedOnce
<1>6. ~raced /\ org = row
  BY <1>2
<1>7. \A j \in Ids \ evicted : applied[j] <= 1 /\ (applied[j] > 0 => Seen(j, row.billing))
  BY <1>6 DEF OnceInv, AppliedOnce, Remembered
<1>8. i \notin evicted => applied[i] = 0
  BY <1>0, <1>1, <1>3, <1>7
<1>9. AppliedOnce'
  BY <1>1, <1>2, <1>3, <1>7, <1>8 DEF AppliedOnce
<1>10. row.billing.seen \in Seq(Ids) /\ Len(row.billing.seen) <= Ring
  BY <1>1, RowFields
<1>11. /\ \E n \in 1..Len(org'.billing.seen) : org'.billing.seen[n] = i
       /\ \A n \in 1..Len(row.billing.seen) :
            ~ (Len(row.billing.seen) = Ring /\ n = 1)
            => \E m \in 1..Len(org'.billing.seen) : org'.billing.seen[m] = row.billing.seen[n]
  <2> DEFINE s == row.billing.seen
             r == Remember(s, i)
  <2>1. /\ \E n \in 1..Len(r) : r[n] = i
        /\ \A n \in 1..Len(s) : ~ (Len(s) = Ring /\ n = 1) => \E m \in 1..Len(r) : r[m] = s[n]
    <3> HIDE DEF s, i
    <3>1. s \in Seq(Ids) /\ Len(s) <= Ring /\ i \in Ids
      BY <1>1, <1>10 DEF s
    <3> QED
      BY <3>1, RememberKeeps
  <2>2. org'.billing.seen = r
    BY <1>1
  <2> QED
    BY <2>1, <2>2
<1>12. ASSUME NEW j \in Ids, j \notin evicted', applied'[j] > 0
       PROVE  \E n \in 1..Len(org'.billing.seen) : org'.billing.seen[n] = j
  <2>1. CASE j = i
    BY <1>11, <2>1
  <2>2. CASE j # i
    <3>1. PICK n \in 1..Len(row.billing.seen) : row.billing.seen[n] = j
      BY <1>1, <1>2, <1>7, <1>12, <2>2 DEF Seen
    <3>2. ~ (Len(row.billing.seen) = Ring /\ n = 1)
      BY <1>2, <1>12, <3>1
    <3> QED
      BY <1>11, <3>1, <3>2
  <2> QED
    BY <2>1, <2>2
<1> QED
  BY <1>9, <1>12 DEF Remembered, Seen

LEMMA OnceStep == OnceInv /\ [BillingNext]_billingVars => OnceInv'
<1> SUFFICES ASSUME OnceInv, [BillingNext]_billingVars PROVE OnceInv'
  OBVIOUS
<1>1. CASE UNCHANGED billingVars
  BY <1>1 DEF billingVars, OnceInv, BillingTyped, Fresh, Known, Remembered, AppliedOnce, Seen
<1> QED
  BY <1>1, OnceStripe, OnceLoad, OnceCheckout, OnceWebhook DEF BillingNext, StripeActs

(* "Stripe retries webhooks, so skip events we've applied", for any ring,  *)
(* number of handlers and order of deliveries.                             *)
THEOREM EventsAppliedOnce == BillingSpec => []AppliedOnce
<1>1. OnceInv => AppliedOnce
  BY DEF OnceInv
<1> QED
  BY <1>1, InitOnce, OnceStep, PTL DEF BillingSpec

-----------------------------------------------------------------------------
(* The plan follows the events.                                            *)

Done == {i \in Ids : applied[i] > 0}
Bought == {i \in Done : events[i].type \in {"completed", "updated", "deleted"}}

(* As long as events are applied in order those applied are the first.     *)
InOrder == ordered => \E n \in Nat : Done = 1..n

FreeWhenDeleted == \A i \in 1..Len(events) : events[i].type = "deleted" => events[i].plan = "free"

(* What Stripe tells is about subscriptions that live.                     *)
AboutTheLiving ==
  \A n \in 1..Len(events) :
    /\ events[n].type # "completed" => events[n].sub \in Alive(n - 1)
    /\ events[n].type = "updated" => events[n].plan = events[events[n].sub].plan

StripeLives ==
  /\ \A s \in stripe : s.sub \in Alive(Len(events)) /\ s.plan = events[s.sub].plan
  /\ \A s, t \in stripe : s.sub = t.sub => s = t

PlanOfLast ==
  ordered /\ ~raced =>
    /\ \A i \in Bought : (\A j \in Bought : j <= i) => org.plan = events[i].plan
    /\ Bought = {} => org.plan = "free"

StripeInv == FreeWhenDeleted /\ AboutTheLiving /\ StripeLives

PlanInv == OnceInv /\ InOrder /\ StripeInv /\ PlanOfLast

LEMMA InitPlan == BillingInit => PlanInv
<1> SUFFICES ASSUME BillingInit PROVE PlanInv
  OBVIOUS
<1>1. \A i \in Ids : applied[i] = 0
  BY DEF BillingInit
<1>2. Done = {} /\ Bought = {} /\ 1..0 = {}
  BY <1>1 DEF Done, Bought
<1>3. Len(events) = 0 /\ stripe = {} /\ org.plan = "free"
  BY DEF BillingInit
<1> QED
  BY <1>2, <1>3, InitOnce DEF PlanInv, InOrder, StripeInv, FreeWhenDeleted, AboutTheLiving,
     StripeLives, PlanOfLast

(* Of the events up to n only n itself can end what lived before it.       *)
LEMMA AliveNext ==
  ASSUME NEW n \in Nat \ {0}
  PROVE  /\ Alive(n) \subseteq Alive(n - 1) \cup {n}
         /\ n \in Alive(n) => events[n].type = "completed"
         /\ \A i \in Alive(n) : events[n].type = "deleted" => events[n].sub # i
         /\ \A i \in Alive(n - 1) : (events[n].type = "deleted" => events[n].sub # i) => i \in Alive(n)
<1>1. 1..n = (1..(n - 1)) \cup {n}
  OBVIOUS
<1> QED
  BY <1>1 DEF Alive

LEMMA DoneKnown == ASSUME OnceInv PROVE Done \subseteq 1..Len(events) /\ Len(events) \in Nat
  BY DEF OnceInv, Known, Done, Ids, BillingTyped

(* Stripe's own part of the invariant.                                     *)
LEMMA StripeStep ==
  ASSUME OnceInv, StripeInv, StripeActs
  PROVE  StripeInv'
<1>0. PICK N \in Nat : N = Len(events)
  BY DoneKnown
<1> DEFINE L == N + 1
<1>1. /\ Len(events') = L /\ L - 1 = N /\ L \in Nat \ {0}
      /\ \A i \in 1..N : events'[i] = events[i]
  BY <1>0, StripeTyped DEF OnceInv
<1>2. PICK s \in Subscriptions : Bears(s) \/ Concerns(s)
  BY StripeTyped DEF OnceInv
<1>3. \A n \in 0..N : Alive(n)' = Alive(n)
  <2> TAKE n \in 0..N
  <2>1. \A i \in 1..n : events'[i] = events[i]
    BY <1>1
  <2> QED
    BY <2>1 DEF Alive
<1>4. \A n \in 0..N : Alive(n) \subseteq 1..n
  BY DEF Alive
<1>5. \A t \in stripe : /\ t.sub \in Alive(N) /\ t.sub \in 1..N
                         /\ t.plan = events[t.sub].plan /\ events'[t.sub] = events[t.sub]
  BY <1>0, <1>1, <1>4 DEF StripeInv, StripeLives
<1>6. \A t \in stripe : (events'[L].type = "deleted" => events'[L].sub # t.sub) => t.sub \in Alive(L)'
  <2> TAKE t \in stripe
  <2>1. 1..L = (1..N) \cup {L}
    BY <1>1
  <2>2. t.sub \in Alive(N)'
    BY <1>1, <1>3, <1>5
  <2> HIDE DEF L
  <2> QED
    BY <1>1, <2>1, <2>2 DEF Alive
<1>7. \A n \in 1..N :
         /\ events'[n].type # "completed" => events'[n].sub \in Alive(n - 1)'
         /\ events'[n].type = "updated" => events'[n].plan = events'[events'[n].sub].plan
  <2> TAKE n \in 1..N
  <2>1. events'[n] = events[n] /\ n - 1 \in 0..N /\ Alive(n - 1)' = Alive(n - 1)
    BY <1>1, <1>3
  <2>2. events[n].type # "completed" => events[n].sub \in 1..N
    BY <1>0, <1>1, <1>4, <2>1 DEF StripeInv, AboutTheLiving
  <2>3. events[n].type # "completed" => events'[events[n].sub] = events[events[n].sub]
    BY <1>1, <2>2
  <2> QED
    BY <1>0, <2>1, <2>3 DEF StripeInv, AboutTheLiving
<1>8. \A n \in 1..L : n \in 1..N \/ n = L
  BY <1>1
<1>9. CASE Bears(s)
  <2>1. /\ s \notin stripe /\ s.sub = L /\ stripe' = stripe \cup {s}
        /\ events'[L].type = "completed" /\ events'[L].plan = s.plan
    BY <1>1, <1>9 DEF Bears
  <2>2. FreeWhenDeleted' /\ AboutTheLiving'
    BY <1>0, <1>1, <1>7, <1>8, <2>1 DEF StripeInv, FreeWhenDeleted, AboutTheLiving
  <2>3. L \in Alive(L)'
    <3>1. \A j \in 1..L : events'[j].type = "deleted" => events'[j].sub # L
      <4> TAKE j \in 1..L
      <4>1. j = L \/ j \in 1..N
        BY <1>8
      <4>2. ASSUME j \in 1..N, events'[j].type = "deleted" PROVE events'[j].sub # L
        <5>1. events'[j].sub \in Alive(j - 1)'
          BY <1>7, <4>2
        <5>2. j - 1 \in 0..N /\ Alive(j - 1)' \subseteq 1..(j - 1)
          BY <1>1, <1>3, <1>4, <4>2
        <5> QED
          BY <1>1, <4>2, <5>1, <5>2
      <4> QED
        BY <2>1, <4>1, <4>2
    <3>2. L \in 1..L
      BY <1>1
    <3> HIDE DEF L
    <3> QED
      BY <1>1, <2>1, <3>1, <3>2 DEF Alive
  <2>4. \A t \in stripe' : t.sub \in Alive(L)' /\ t.plan = events'[t.sub].plan
    BY <1>5, <1>6, <2>1, <2>3
  <2>5. \A t, u \in stripe' : t.sub = u.sub => t = u
    <3>1. \A t \in stripe : t.sub # L
      BY <1>1, <1>5
    <3> QED
      BY <2>1, <3>1 DEF StripeInv, StripeLives
  <2> QED
    BY <1>1, <2>2, <2>4, <2>5 DEF StripeInv, StripeLives
<1>10. CASE Concerns(s)
  <2>1. /\ s \in stripe /\ events'[L].sub = s.sub /\ events'[L].type # "completed"
        /\ events'[L].type = "updated" => events'[L].plan = s.plan
        /\ events'[L].type = "deleted" => events'[L].plan = "free"
        /\ stripe' = IF events'[L].type = "deleted" THEN stripe \ {s} ELSE stripe
    BY <1>1, <1>10 DEF Concerns
  <2>2. s.sub \in Alive(L - 1)' /\ s.plan = events'[s.sub].plan
    BY <1>1, <1>3, <1>5, <2>1
  <2>3. FreeWhenDeleted' /\ AboutTheLiving'
    BY <1>0, <1>1, <1>7, <1>8, <2>1, <2>2 DEF StripeInv, FreeWhenDeleted, AboutTheLiving
  <2>4. \A t \in stripe' : t.sub \in Alive(L)' /\ t.plan = events'[t.sub].plan
    BY <1>5, <1>6, <2>1 DEF StripeInv, StripeLives
  <2>5. \A t, u \in stripe' : t.sub = u.sub => t = u
    BY <2>1 DEF StripeInv, StripeLives
  <2> QED
    BY <1>1, <2>3, <2>4, <2>5 DEF StripeInv, StripeLives
<1> QED
  BY <1>2, <1>9, <1>10

LEMMA PlanStripe == ASSUME PlanInv, StripeActs PROVE PlanInv'
<1>1. /\ OnceInv' /\ Len(events') = Len(events) + 1 /\ Len(events) \in Nat
      /\ \A i \in 1..Len(events) : events'[i] = events[i]
  BY OnceStripe, StripeTyped, DoneKnown DEF PlanInv, OnceInv
<1>2. UNCHANGED <<org, applied, raced, ordered>>
  BY DEF StripeActs
<1>3. Done' = Done /\ \A i \in Done : events'[i] = events[i]
  BY <1>1, <1>2, DoneKnown DEF Done, PlanInv
<1>4. Bought' = Bought
  BY <1>3 DEF Bought
<1>5. StripeInv'
  BY StripeStep DEF PlanInv
<1>6. PlanOfLast'
  BY <1>2, <1>3, <1>4 DEF PlanInv, PlanOfLast, Bought
<1> QED
  BY <1>1, <1>2, <1>3, <1>5, <1>6 DEF PlanInv, InOrder

LEMMA PlanRest ==
  ASSUME PlanInv, OnceInv', UNCHANGED <<stripe, events, applied, ordered>>, org'.plan = org.plan,
         ~raced' => ~raced
  PROVE  PlanInv'
<1>1. Done' = Done /\ Bought' = Bought
  BY DEF Done, Bought
<1>2. StripeInv'
  BY DEF PlanInv, StripeInv, FreeWhenDeleted, AboutTheLiving, StripeLives, Alive
<1> QED
  BY <1>1, <1>2 DEF PlanInv, InOrder, PlanOfLast

LEMMA PlanWebhook ==
  ASSUME PlanInv, NEW h \in Handlers, WebhookCommit(h)
  PROVE  PlanInv'
<1> DEFINE i == hand[h].event
           row == hand[h].row
           e == events[i]
           plan == PlanAfter(e, row.plan)
<1>0. OnceInv /\ OnceInv' /\ BillingTyped /\ i \in 1..Len(events)
  BY OnceWebhook DEF PlanInv, OnceInv, Fresh, WebhookCommit
<1>1. /\ i \in Ids
      /\ applied'[i] = applied[i] + 1 /\ \A j \in Ids \ {i} : applied'[j] = applied[j]
      /\ org'.plan = (IF plan = row.plan THEN org.plan ELSE plan)
  BY <1>0, WebhookTyped
<1>2. /\ UNCHANGED <<stripe, events>>
      /\ raced' = (raced \/ org # row)
      /\ ordered' = (ordered /\ i = 1 + Cardinality(Done))
  BY DEF WebhookCommit, Done
<1>3. applied \in [Ids -> Nat]
  BY <1>0 DEF BillingTyped
<1>4. Done' = Done \cup {i}
  BY <1>1, <1>3 DEF Done
<1>5. Bought' = IF e.type \in {"completed", "updated", "deleted"} THEN Bought \cup {i} ELSE Bought
  BY <1>2, <1>4 DEF Bought
<1>6. StripeInv'
  BY <1>2 DEF PlanInv, StripeInv, FreeWhenDeleted, AboutTheLiving, StripeLives, Alive
<1>7. ASSUME ordered'
      PROVE  \E n \in Nat : Done = 1..n /\ i = n + 1
  <2>1. PICK n \in Nat : Done = 1..n
    BY <1>2, <1>7 DEF PlanInv, InOrder
  <2>2. Cardinality(Done) = n
    BY <2>1, FS_Interval
  <2>3. i = 1 + Cardinality(Done)
    BY <1>2, <1>7
  <2>4. i = n + 1
    BY <2>2, <2>3
  <2> QED
    BY <2>1, <2>4
<1>8. InOrder'
  <2>1. ASSUME ordered' PROVE \E n \in Nat : Done' = 1..n
    <3>1. PICK n \in Nat : Done = 1..n /\ i = n + 1
      BY <1>7, <2>1
    <3>2. (1..n) \cup {n + 1} = 1..(n + 1) /\ n + 1 \in Nat
      OBVIOUS
    <3> QED
      BY <1>4, <3>1, <3>2
  <2> QED
    BY <2>1 DEF InOrder
<1>9. PlanOfLast'
  <2> SUFFICES ASSUME ordered', ~raced'
               PROVE  /\ \A k \in Bought' : (\A j \in Bought' : j <= k) => org'.plan = events[k].plan
                      /\ Bought' = {} => org'.plan = "free"
    BY <1>2 DEF PlanOfLast
  <2>1. ordered /\ ~raced /\ org = row
    BY <1>2
  <2>2. PICK n \in Nat : Done = 1..n /\ i = n + 1
    BY <1>7
  <2>3. org'.plan = plan
    BY <1>1, <2>1
  <2>4. Bought \subseteq 1..n
    BY <2>2 DEF Bought
  <2>5. CASE e.type \in {"completed", "updated", "deleted"}
    <3>0. Bought' = Bought \cup {i}
      BY <1>5, <2>5
    <3>1. ASSUME NEW k \in Bought', \A j \in Bought' : j <= k PROVE k = i
      <4>1. k \in 1..n \/ k = i
        BY <2>4, <3>0, <3>1
      <4>2. i <= k
        BY <3>0, <3>1
      <4> QED BY <2>2, <4>1, <4>2
    <3>2. plan = e.plan
      BY <1>0, <2>5 DEF PlanAfter, PlanInv, StripeInv, FreeWhenDeleted
    <3> QED
      BY <2>3, <3>0, <3>1, <3>2
  <2>6. CASE e.type \notin {"completed", "updated", "deleted"}
    <3>1. Bought' = Bought /\ plan = row.plan
      BY <1>5, <2>6 DEF PlanAfter
    <3>2. /\ \A k \in Bought : (\A j \in Bought : j <= k) => org.plan = events[k].plan
          /\ Bought = {} => org.plan = "free"
      BY <2>1 DEF PlanInv, PlanOfLast
    <3> QED
      BY <2>1, <2>3, <3>1, <3>2
  <2> QED
    BY <2>5, <2>6
<1> QED
  BY <1>0, <1>6, <1>8, <1>9 DEF PlanInv

LEMMA PlanStep == PlanInv /\ [BillingNext]_billingVars => PlanInv'
<1> SUFFICES ASSUME PlanInv, [BillingNext]_billingVars PROVE PlanInv'
  OBVIOUS
<1>0. OnceInv /\ BillingTyped /\ OnceInv'
  BY OnceStep DEF PlanInv, OnceInv
<1>1. ASSUME NEW h \in Handlers, CheckoutLoad(h) \/ \E i \in Ids : WebhookLoad(h, i) PROVE PlanInv'
  <2>1. UNCHANGED <<stripe, events, org, applied, raced, ordered>>
    BY <1>1 DEF CheckoutLoad, WebhookLoad
  <2> QED
    BY <1>0, <2>1, PlanRest
<1>2. ASSUME NEW h \in Handlers, CheckoutCommit(h) PROVE PlanInv'
  <2>1. org'.plan = org.plan /\ (~raced' => ~raced)
    BY <1>0, <1>2, CheckoutTyped
  <2>2. UNCHANGED <<stripe, events, applied, ordered>>
    BY <1>2 DEF CheckoutCommit
  <2> QED
    BY <1>0, <2>1, <2>2, PlanRest
<1>3. CASE UNCHANGED billingVars
  <2>1. UNCHANGED <<stripe, events, org, applied, raced, ordered>>
    BY <1>3 DEF billingVars
  <2> QED
    BY <1>0, <2>1, PlanRest
<1> QED
  BY <1>1, <1>2, <1>3, PlanStripe, PlanWebhook DEF BillingNext, StripeActs

(* A set of numbers below a bound has a greatest element.                  *)
LEMMA GreatestNat ==
  ASSUME NEW N \in Nat, NEW S \in SUBSET (0..N), S # {}
  PROVE  \E n \in S : \A m \in S : m <= n
<1> DEFINE T == {k \in Nat : N - k \in S}
<1>0. \A m \in S : N - m \in Nat /\ N - (N - m) = m
  OBVIOUS
<1>1. PICK s \in S : TRUE
  OBVIOUS
<1>2. N - s \in T
  BY <1>0
<1>3. PICK k \in T : \A m \in T : ~ (<<m, k>> \in OpToRel(<, Nat))
  BY <1>2, NatLessThanWellFounded, WFMin
<1>4. \A m \in T : ~ (m < k)
  BY <1>3 DEF OpToRel
<1>5. \A m \in S : N - m \in T
  BY <1>0
<1>6. \A m \in S : m <= N - k
  <2> TAKE m \in S
  <2>1. ~ (N - m < k)
    <3>1. N - m \in T
      BY <1>5
    <3> HIDE DEF T
    <3> QED
      BY <1>4, <3>1
  <2>2. k \in Nat
    OBVIOUS
  <2>3. m \in 0..N
    OBVIOUS
  <2> HIDE DEF T
  <2> QED
    BY <2>1, <2>2, <2>3
<1> QED
  BY <1>3, <1>6

(* As long as events are applied in order and no document is overwritten,  *)
(* an org has no paid plan that no living subscription pays for, and, if   *)
(* no two ever lived at once, the plan of the one that lives: for any      *)
(* number of subscriptions and events (apply_webhook_event).               *)
THEOREM PlanFollowsEvents == BillingSpec => []PlanFollows
<1>1. PlanInv => PlanFollows
  <2> SUFFICES ASSUME PlanInv, NEW n \in 0..Len(events), ordered, ~raced, Done = 1..n
               PROVE  /\ org.plan # "free" => \E i \in Alive(n) : events[i].plan = org.plan
                      /\ (\A m \in 1..n : \A i, j \in Alive(m) : i = j)
                         => \A i \in Alive(n) : events[i].plan = org.plan
    BY DEF PlanFollows, Done
  <2>0. n \in Nat /\ Len(events) \in Nat /\ Alive(n) \subseteq 1..n
    BY DoneKnown DEF PlanInv, Alive
  <2>1. CASE Bought = {}
    <3>1. org.plan = "free"
      BY <2>1 DEF PlanInv, PlanOfLast
    <3>2. Alive(n) = {}
      BY <2>0, <2>1 DEF Bought, Alive
    <3> QED
      BY <3>1, <3>2
  <2>2. CASE Bought # {}
    <3>1. Bought \subseteq 0..MaxEvents /\ MaxEvents \in Nat
      BY BillingAssumption DEF Bought, Done, Ids
    <3>2. PICK k \in Bought : \A j \in Bought : j <= k
      BY <2>2, <3>1, GreatestNat
    <3>3. org.plan = events[k].plan /\ k \in 1..n /\ k \in 1..Len(events) /\ k \in Nat \ {0}
      BY <2>0, <3>2 DEF PlanInv, PlanOfLast, Bought
    <3>4. Alive(n) = Alive(k)
      <4>1. \A j \in 1..n : events[j].type \in {"completed", "deleted"} => j \in 1..k
        BY <2>0, <3>2, <3>3 DEF Bought
      <4>2. 1..k \subseteq 1..n
        BY <2>0, <3>3
      <4> QED
        BY <4>1, <4>2 DEF Alive
    <3>5. CASE events[k].type = "completed"
      <4>1. \A j \in 1..k : events[j].type = "deleted" => events[j].sub # k
        <5> TAKE j \in 1..k
        <5>1. ASSUME events[j].type = "deleted" PROVE events[j].sub \in 1..(j - 1)
          BY <3>3, <5>1 DEF PlanInv, StripeInv, AboutTheLiving, Alive
        <5> QED
          BY <3>3, <5>1
      <4>2. k \in Alive(k)
        BY <3>3, <3>5, <4>1 DEF Alive
      <4> QED
        BY <3>3, <3>4, <4>2
    <3>6. CASE events[k].type = "updated"
      <4> DEFINE s == events[k].sub
      <4>1. s \in Alive(k - 1) /\ events[s].plan = events[k].plan
        BY <3>3, <3>6 DEF PlanInv, StripeInv, AboutTheLiving
      <4>2. s \in Alive(k)
        BY <3>3, <3>6, <4>1, AliveNext
      <4> HIDE DEF s
      <4> QED
        BY <3>3, <3>4, <4>1, <4>2
    <3>7. CASE events[k].type = "deleted"
      <4> DEFINE s == events[k].sub
      <4>1. s \in Alive(k - 1) /\ org.plan = "free"
        BY <3>3, <3>7 DEF PlanInv, StripeInv, AboutTheLiving, FreeWhenDeleted
      <4>2. Alive(k) \subseteq Alive(k - 1) /\ s \notin Alive(k)
        BY <3>3, <3>7, AliveNext
      <4>3. k - 1 \in 1..n
        BY <2>0, <3>3, <4>1 DEF Alive
      <4> HIDE DEF s
      <4> QED
        BY <3>4, <4>1, <4>2, <4>3
    <3> QED
      BY <3>2, <3>5, <3>6, <3>7 DEF Bought
  <2> QED
    BY <2>1, <2>2
<1> QED
  BY <1>1, InitPlan, PlanStep, PTL DEF BillingSpec

THEOREM BillingTypeCorrect == BillingSpec => []BillingTypeOK
<1>1. OnceInv => BillingTypeOK
  BY RowFields DEF OnceInv, BillingTyped, BillingTypeOK
<1> QED
  BY <1>1, InitOnce, OnceStep, PTL DEF BillingSpec

-----------------------------------------------------------------------------
(* Token buckets.  All processes' clocks are behind Redis' by late - s to  *)
(* late seconds, with s at most one: that is the hypothesis the proof is   *)
(* about (Clocks).                                                         *)

Clocks(late, s) == \A n \in Nodes : late - s <= Lag[n] /\ Lag[n] <= late

Hash == [there : BOOLEAN, tokens : 0..(Capacity * Window), ts : Int, expires : Nat]

(* A hash lives on for a full refill and a second after the request that   *)
(* wrote it.                                                               *)
Living(late, s) ==
  \A b \in Buckets : bucket[b].there => bucket[b].ts + late <= bucket[b].expires - Expiry + s

(* What was let through since some second, and what the bucket holds, is   *)
(* paid by a full bucket and the refill up to the last request; where the  *)
(* hash is gone, by the refill up to now alone.                            *)
PaidFor(late) ==
  \A b \in Buckets \ loose : \A from \in 0..clock :
    \/ passed[b][clock] = Before(b, from)
    \/ IF bucket[b].there
       THEN Window * (passed[b][clock] - Before(b, from)) + bucket[b].tokens
            <= Capacity * Window + (bucket[b].ts + late - from) * Capacity
       ELSE Window * (passed[b][clock] - Before(b, from)) <= (clock - from) * Capacity

Bounded(s) ==
  \A b \in Buckets \ loose : \A from, to \in 0..clock :
    from <= to
    => Window * (passed[b][to] - Before(b, from))
       <= Capacity * Window + (to - from + s) * Capacity

RateInv(late, s) == RateTypeOK /\ Living(late, s) /\ PaidFor(late) /\ Bounded(s)

-----------------------------------------------------------------------------
(* Arithmetic the bounds need.                                             *)

LEMMA Full == Capacity * Window \in Nat /\ Capacity * Window = Window * Capacity
  BY RateAssumption

LEMMA TimesCapacity ==
  ASSUME NEW x \in Int, NEW y \in Int, x <= y
  PROVE  x * Capacity <= y * Capacity /\ (y - x) * Capacity = y * Capacity - x * Capacity
  BY RateAssumption

LEMMA MaxMinOfTwo ==
  ASSUME NEW x \in Int, NEW y \in Int
  PROVE  /\ Max({x, y}) = IF x >= y THEN x ELSE y
         /\ Min({x, y}) = IF x <= y THEN x ELSE y
<1>1. \E m \in {x, y} : \A k \in {x, y} : m >= k
  <2>1. CASE x >= y
    BY <2>1
  <2>2. CASE y >= x
    BY <2>2
  <2> QED
    BY <2>1, <2>2
<1>2. \E m \in {x, y} : \A k \in {x, y} : m <= k
  <2>1. CASE x <= y
    BY <2>1
  <2>2. CASE y <= x
    BY <2>2
  <2> QED
    BY <2>1, <2>2
<1>3. Max({x, y}) \in {x, y} /\ \A k \in {x, y} : Max({x, y}) >= k
  BY <1>1 DEF Max
<1>4. Min({x, y}) \in {x, y} /\ \A k \in {x, y} : Min({x, y}) <= k
  BY <1>2 DEF Min
<1> QED
  BY <1>3, <1>4

(* A bucket never holds more than a full one, nor more than it held and    *)
(* what time added.                                                        *)
LEMMA RefilledBound ==
  ASSUME NEW h \in Hash, NEW now \in Int
  PROVE  /\ Refilled(h, now) \in 0..(Capacity * Window)
         /\ ~h.there => Refilled(h, now) = Capacity * Window
         /\ h.there /\ h.ts <= now => Refilled(h, now) <= h.tokens + (now - h.ts) * Capacity
<1>0. h.there \in BOOLEAN /\ h.tokens \in 0..(Capacity * Window) /\ h.ts \in Int
  BY DEF Hash
<1>1. CASE ~h.there
  BY <1>1, Full DEF Refilled
<1>2. CASE h.there
  <2> DEFINE gain == Max({0, now - h.ts})
  <2>1. gain = IF 0 >= now - h.ts THEN 0 ELSE now - h.ts
    BY <1>0, MaxMinOfTwo
  <2>2. gain \in Nat /\ (h.ts <= now => gain = now - h.ts)
    BY <1>0, <2>1
  <2> HIDE DEF gain
  <2>3. gain * Capacity \in Nat
    BY <2>2, RateAssumption
  <2>4. Refilled(h, now) = Min({Capacity * Window, h.tokens + gain * Capacity})
    BY <1>2 DEF Refilled, gain
  <2> DEFINE full == Capacity * Window
             filled == h.tokens + gain * Capacity
  <2>5. full \in Nat /\ filled \in Nat
    BY <1>0, <2>3, Full
  <2>6. Refilled(h, now) = IF full <= filled THEN full ELSE filled
    <3>1. Refilled(h, now) = Min({full, filled})
      BY <2>4
    <3> HIDE DEF full, filled
    <3> QED
      BY <2>5, <3>1, MaxMinOfTwo
  <2>7. Refilled(h, now) \in 0..(Capacity * Window) /\ Refilled(h, now) <= h.tokens + gain * Capacity
    BY <2>5, <2>6, Full
  <2> QED
    BY <1>2, <2>2, <2>7
<1> QED
  BY <1>0, <1>1, <1>2

LEMMA BucketOfTotal == \A r \in RateRequests : BucketOf(r) \in {"recall", "read", "write"}
  BY DEF RateRequests, BucketOf

LEMMA InitRate ==
  ASSUME NEW late \in Int, NEW s \in {0, 1}
  PROVE  RateInit => RateInv(late, s)
<1> SUFFICES ASSUME RateInit PROVE RateInv(late, s)
  OBVIOUS
<1>1. clock = 0 /\ \A b \in Buckets : \A t \in 0..MaxTime : passed[b][t] = 0
  BY DEF RateInit
<1>2. \A b \in Buckets : ~bucket[b].there
  BY DEF RateInit, NoHash
<1>3. RateTypeOK
  BY RateAssumption, Full DEF RateInit, RateTypeOK, NoHash
<1>4. PaidFor(late)
  BY <1>1, RateAssumption DEF PaidFor, Before
<1>5. Bounded(s)
  <2> SUFFICES ASSUME NEW b \in Buckets
               PROVE  Window * (passed[b][0] - 0) <= Capacity * Window + (0 - 0 + s) * Capacity
    BY <1>1 DEF Bounded, Before
  <2>1. passed[b][0] = 0
    BY <1>1, RateAssumption
  <2> QED
    BY <2>1, Full, RateAssumption
<1> QED
  BY <1>2, <1>3, <1>4, <1>5 DEF RateInv, Living

(* The bounds, over a bucket's numbers: d requests passed since `from`.    *)
LEMMA CheckPays ==
  ASSUME NEW d \in Int, NEW from \in Int, NEW now \in Int, NEW late \in Int, NEW c \in Int,
         from <= c, c <= now + late,
         NEW h \in Hash, h.there => h.ts <= now,
         \/ d = 0
         \/ IF h.there THEN Window * d + h.tokens <= Capacity * Window + (h.ts + late - from) * Capacity
                       ELSE Window * d <= (c - from) * Capacity
  PROVE  Window * d + Refilled(h, now) <= Capacity * Window + (now + late - from) * Capacity
<1> DEFINE tokens == Refilled(h, now)
           full == Capacity * Window
<1>0. /\ tokens \in 0..full /\ full \in Nat /\ h.ts \in Int /\ h.tokens \in Int
      /\ ~h.there => tokens = full
      /\ h.there => tokens <= h.tokens + (now - h.ts) * Capacity
  BY RefilledBound, Full DEF Hash
<1> HIDE DEF tokens, full
<1>1. CASE d = 0
  <2>1. (now + late - from) * Capacity \in Nat
    BY RateAssumption
  <2>2. Window * d = 0
    BY <1>1, RateAssumption
  <2> QED
    BY <1>0, <2>1, <2>2 DEF tokens, full
<1>2. CASE d # 0 /\ h.there
  <2>1. Window * d + h.tokens <= full + (h.ts + late - from) * Capacity
    BY <1>2 DEF full
  <2>2. (h.ts + late - from) * Capacity + (now - h.ts) * Capacity = (now + late - from) * Capacity
    BY <1>0, RateAssumption
  <2>3. /\ Window * d \in Int /\ (h.ts + late - from) * Capacity \in Int
        /\ (now - h.ts) * Capacity \in Int /\ (now + late - from) * Capacity \in Int
    BY <1>0, RateAssumption
  <2> QED
    BY <1>0, <1>2, <2>1, <2>2, <2>3 DEF tokens, full
<1>3. CASE d # 0 /\ ~h.there
  <2>1. Window * d <= (c - from) * Capacity
    BY <1>3
  <2>2. (c - from) * Capacity <= (now + late - from) * Capacity
    BY TimesCapacity
  <2>3. Window * d \in Int /\ (c - from) * Capacity \in Int /\ (now + late - from) * Capacity \in Int
    BY RateAssumption
  <2> QED
    BY <1>0, <1>3, <2>1, <2>2, <2>3 DEF tokens, full
<1> QED
  BY <1>1, <1>2, <1>3

LEMMA CheckStep ==
  ASSUME NEW late \in Int, NEW s \in {0, 1}, Clocks(late, s), RateInv(late, s),
         NEW n \in Nodes, NEW r \in RateRequests, Check(n, r)
  PROVE  RateInv(late, s)'
<1> DEFINE b == BucketOf(r)
           now == clock - Lag[n]
           tokens == Refilled(bucket[b], now)
           allowed == tokens >= Window
           new == [there |-> TRUE, tokens |-> IF allowed THEN tokens - Window ELSE tokens,
                   ts |-> now, expires |-> clock + Expiry]
           k == IF allowed /\ b \notin loose' THEN 1 ELSE 0
<1>0. /\ b \in Buckets /\ clock \in 0..MaxTime /\ clock \in Int /\ now \in Int /\ MaxTime \in Nat
      /\ bucket \in [Buckets -> Hash] /\ passed \in [Buckets -> [0..MaxTime -> Nat]]
      /\ loose \subseteq Buckets
  <2>1. b \in Buckets
    BY DEF Check
  <2>2. /\ bucket \in [Buckets -> Hash] /\ passed \in [Buckets -> [0..MaxTime -> Nat]]
        /\ loose \subseteq Buckets /\ clock \in 0..MaxTime
    BY DEF RateInv, RateTypeOK, Hash
  <2> HIDE DEF b
  <2> QED
    BY <2>1, <2>2, RateAssumption
<1>1. clock <= now + late /\ now + late <= clock + s
  BY <1>0, RateAssumption DEF Clocks
<1>2. tokens \in 0..(Capacity * Window)
  BY <1>0, RefilledBound
<1>3. /\ bucket' = [bucket EXCEPT ![b] = new]
      /\ loose' = IF bucket[b].there /\ now < bucket[b].ts THEN loose \cup {b} ELSE loose
      /\ passed' = [passed EXCEPT ![b][clock] = IF allowed /\ b \notin loose' THEN @ + 1 ELSE @]
      /\ clock' = clock
  BY DEF Check
<1> HIDE DEF b, now
<1>4. new.tokens \in 0..(Capacity * Window) /\ new.ts = now /\ new.expires = clock + Expiry /\ new.there
  BY <1>2, Full, RateAssumption
<1>5. new \in Hash
  <2>1. clock + Expiry \in Nat
    BY <1>0, RateAssumption DEF Expiry
  <2> QED
    BY <1>0, <1>4, <2>1 DEF Hash
<1> HIDE DEF new
<1>6. /\ bucket' \in [Buckets -> Hash] /\ bucket'[b] = new
      /\ \A a \in Buckets \ {b} : bucket'[a] = bucket[a]
  BY <1>0, <1>3, <1>5
<1>7. /\ passed' \in [Buckets -> [0..MaxTime -> Nat]]
      /\ passed'[b][clock] = passed[b][clock] + k
      /\ \A t \in 0..MaxTime : t # clock => passed'[b][t] = passed[b][t]
      /\ \A a \in Buckets \ {b} : passed'[a] = passed[a]
  <2> DEFINE count == IF allowed /\ b \notin loose' THEN passed[b][clock] + 1 ELSE passed[b][clock]
  <2>1. passed[b][clock] \in Nat
    BY <1>0
  <2>2. count \in Nat /\ count = passed[b][clock] + k
    BY <2>1
  <2>3. passed' = [passed EXCEPT ![b] = [passed[b] EXCEPT ![clock] = count]]
    BY <1>0, <1>3
  <2> HIDE DEF count
  <2> QED
    BY <1>0, <2>2, <2>3
<1>8. loose \subseteq loose' /\ loose' \subseteq Buckets
      /\ (b \notin loose' => b \notin loose /\ (bucket[b].there => bucket[b].ts <= now))
  <2>1. bucket[b].ts \in Int
    BY <1>0 DEF Hash
  <2> QED
    BY <1>0, <1>3, <2>1
<1>9. \A a \in Buckets : \A from \in 0..clock : Before(a, from)' = Before(a, from) /\ Before(a, from) \in Nat
  <2> TAKE a \in Buckets
  <2> TAKE from \in 0..clock
  <2>1. CASE from = 0
    BY <2>1 DEF Before
  <2>2. CASE from # 0
    <3>1. from - 1 \in 0..MaxTime /\ from - 1 # clock
      BY <1>0, <2>2
    <3>2. passed'[a][from - 1] = passed[a][from - 1] /\ passed[a][from - 1] \in Nat
      BY <1>0, <1>7, <3>1
    <3> QED
      BY <2>2, <3>2 DEF Before
  <2> QED
    BY <2>1, <2>2
<1>10. RateTypeOK'
  BY <1>0, <1>3, <1>6, <1>7, <1>8 DEF RateTypeOK, Hash
<1>11. Living(late, s)'
  <2>1. new.ts + late <= new.expires - Expiry + s
    BY <1>0, <1>1, <1>4, RateAssumption DEF Expiry
  <2> QED
    BY <1>6, <2>1 DEF RateInv, Living
<1>12. ASSUME NEW from \in 0..clock, b \notin loose'
       PROVE  Window * (passed'[b][clock] - Before(b, from)) + new.tokens
              <= Capacity * Window + (now + late - from) * Capacity
  <2> DEFINE d == passed[b][clock] - Before(b, from)
  <2>1. d \in Int /\ from \in Int /\ from <= clock /\ passed[b][clock] \in Nat
    BY <1>0, <1>9
  <2>2. \/ d = 0
        \/ IF bucket[b].there
           THEN Window * d + bucket[b].tokens <= Capacity * Window + (bucket[b].ts + late - from) * Capacity
           ELSE Window * d <= (clock - from) * Capacity
    BY <1>0, <1>8, <1>9, <1>12, <2>1 DEF RateInv, PaidFor
  <2>3. bucket[b] \in Hash
    BY <1>0
  <2> HIDE DEF d
  <2>4. Window * d + tokens <= Capacity * Window + (now + late - from) * Capacity
    <3> DEFINE h == bucket[b]
    <3>1. h \in Hash /\ (h.there => h.ts <= now)
      BY <1>8, <1>12, <2>3
    <3>2. \/ d = 0
          \/ IF h.there THEN Window * d + h.tokens <= Capacity * Window + (h.ts + late - from) * Capacity
                        ELSE Window * d <= (clock - from) * Capacity
      BY <2>2
    <3> HIDE DEF h
    <3>3. Window * d + Refilled(h, now) <= Capacity * Window + (now + late - from) * Capacity
      BY <1>0, <1>1, <2>1, <3>1, <3>2, CheckPays
    <3> QED
      BY <3>3 DEF h
  <2>5. passed'[b][clock] - Before(b, from) = d + k
    <3>1. k \in {0, 1} /\ passed'[b][clock] = passed[b][clock] + k /\ Before(b, from) \in Nat
      BY <1>0, <1>7, <1>9
    <3> HIDE DEF k
    <3> QED
      BY <2>1, <3>1 DEF d
  <2>6. Window * (d + k) + new.tokens = Window * d + tokens
    <3>1. CASE allowed
      <4>1. k = 1 /\ new.tokens = tokens - Window
        BY <1>12, <3>1 DEF new
      <4>2. tokens \in Int
        BY <1>2, Full
      <4> HIDE DEF tokens, k
      <4>3. Window * (d + 1) = Window * d + Window /\ Window * d \in Int
        BY <2>1, RateAssumption
      <4> QED
        BY <4>1, <4>2, <4>3, RateAssumption
    <3>2. CASE ~allowed
      BY <1>2, <2>1, <3>2, RateAssumption DEF new
    <3> QED
      BY <3>1, <3>2
  <2> QED
    BY <2>4, <2>5, <2>6
<1>13. PaidFor(late)'
  <2>1. ASSUME NEW a \in Buckets \ loose', NEW from \in 0..clock'
        PROVE  \/ passed'[a][clock'] = Before(a, from)'
               \/ IF bucket'[a].there
                  THEN Window * (passed'[a][clock'] - Before(a, from)') + bucket'[a].tokens
                       <= Capacity * Window + (bucket'[a].ts + late - from) * Capacity
                  ELSE Window * (passed'[a][clock'] - Before(a, from)') <= (clock' - from) * Capacity
    <3>1. CASE a = b
      BY <1>3, <1>4, <1>6, <1>9, <1>12, <2>1, <3>1
    <3>2. CASE a # b
      BY <1>3, <1>6, <1>7, <1>8, <1>9, <2>1, <3>2 DEF RateInv, PaidFor
    <3> QED
      BY <3>1, <3>2
  <2> QED
    BY <2>1 DEF PaidFor
<1>14. Bounded(s)'
  <2>1. ASSUME NEW a \in Buckets \ loose', NEW from \in 0..clock', NEW to \in 0..clock', from <= to
        PROVE  Window * (passed'[a][to] - Before(a, from)')
               <= Capacity * Window + (to - from + s) * Capacity
    <3>1. CASE a = b /\ to = clock
      <4> DEFINE x == Window * (passed'[b][clock] - Before(b, from))
      <4>1. x + new.tokens <= Capacity * Window + (now + late - from) * Capacity
        BY <1>3, <1>12, <2>1, <3>1
      <4>2. (now + late - from) * Capacity <= (clock - from + s) * Capacity
        <5>1. from \in Int
          BY <1>3, <2>1
        <5>2. /\ now + late - from \in Int /\ clock - from + s \in Int
              /\ now + late - from <= clock - from + s
          BY <1>0, <1>1, <5>1
        <5> QED
          BY <5>2, TimesCapacity
      <4>3. new.tokens \in Nat /\ x \in Int
        <5>1. passed'[b][clock] \in Nat /\ Before(b, from) \in Nat /\ new.tokens \in Nat
          <6>1. from \in 0..clock /\ clock \in 0..MaxTime
            BY <1>0, <1>3, <2>1
          <6>2. passed'[b][clock] \in Nat
            BY <1>0, <1>7, <6>1
          <6>3. new.tokens \in Nat
            BY <1>4, Full
          <6> QED
            BY <1>0, <1>9, <6>1, <6>2, <6>3
        <5> QED
          BY <5>1, RateAssumption
      <4>4. (now + late - from) * Capacity \in Int /\ (clock - from + s) * Capacity \in Int
        BY <1>0, RateAssumption
      <4>5. x <= Capacity * Window + (clock - from + s) * Capacity
        <5> HIDE DEF x
        <5> QED
          BY <4>1, <4>2, <4>3, <4>4, Full
      <4> QED
        BY <1>3, <1>9, <3>1, <4>5
    <3>2. CASE a # b \/ to # clock
      <4>0. a \in Buckets \ loose /\ from \in 0..clock /\ to \in 0..clock /\ to \in 0..MaxTime
        BY <1>0, <1>3, <1>8, <2>1
      <4>1. passed'[a][to] = passed[a][to]
        BY <1>7, <3>2, <4>0
      <4>2. Before(a, from)' = Before(a, from)
        BY <1>9, <4>0
      <4> QED
        BY <2>1, <4>0, <4>1, <4>2 DEF RateInv, Bounded
    <3> QED
      BY <3>1, <3>2
  <2> QED
    BY <2>1 DEF Bounded
<1> QED
  BY <1>10, <1>11, <1>13, <1>14 DEF RateInv

LEMMA SecondStep ==
  ASSUME NEW late \in Int, NEW s \in {0, 1}, RateInv(late, s), Second
  PROVE  RateInv(late, s)'
<1>0. /\ clock \in 0..MaxTime /\ clock \in Nat /\ clock < MaxTime /\ clock' = clock + 1 /\ MaxTime \in Nat
      /\ bucket \in [Buckets -> Hash] /\ passed \in [Buckets -> [0..MaxTime -> Nat]]
      /\ loose' = loose /\ loose \subseteq Buckets
  <2>1. /\ clock \in 0..MaxTime /\ loose \subseteq Buckets /\ bucket \in [Buckets -> Hash]
        /\ passed \in [Buckets -> [0..MaxTime -> Nat]]
    BY DEF RateInv, RateTypeOK, Hash
  <2>2. clock < MaxTime /\ clock' = clock + 1 /\ loose' = loose
    BY DEF Second
  <2> QED
    BY <2>1, <2>2, RateAssumption
<1>1. NoHash \in Hash /\ ~NoHash.there
  BY Full DEF NoHash, Hash
<1>2. /\ bucket' \in [Buckets -> Hash]
      /\ \A b \in Buckets : \/ bucket'[b] = bucket[b]
                          \/ /\ ~bucket'[b].there
                             /\ bucket[b].there => bucket[b].expires <= clock + 1
  <2>1. bucket' = [b \in Buckets |-> IF bucket[b].there /\ bucket[b].expires <= clock + 1
                                    THEN NoHash ELSE bucket[b]]
    BY DEF Second
  <2> HIDE DEF NoHash
  <2> QED
    BY <1>0, <1>1, <2>1
<1>3. /\ passed' \in [Buckets -> [0..MaxTime -> Nat]]
      /\ \A b \in Buckets : /\ passed'[b][clock + 1] = passed[b][clock]
                          /\ \A t \in 0..clock : passed'[b][t] = passed[b][t]
  <2>1. passed' = [b \in Buckets |-> [passed[b] EXCEPT ![clock + 1] = passed[b][clock]]]
    BY DEF Second
  <2>2. clock + 1 \in 0..MaxTime /\ \A t \in 0..clock : t \in 0..MaxTime /\ t # clock + 1
    BY <1>0
  <2>3. \A b \in Buckets : passed[b][clock] \in Nat
    BY <1>0
  <2> QED
    BY <1>0, <2>1, <2>2, <2>3
<1>4. \A b \in Buckets : \A from \in 0..clock : Before(b, from)' = Before(b, from) /\ Before(b, from) \in Nat
  <2> TAKE b \in Buckets
  <2> TAKE from \in 0..clock
  <2>1. CASE from = 0
    BY <2>1 DEF Before
  <2>2. CASE from # 0
    <3>1. from - 1 \in 0..clock /\ from - 1 \in 0..MaxTime
      BY <1>0, <2>2
    <3> QED
      BY <1>0, <1>3, <2>2, <3>1 DEF Before
  <2> QED
    BY <2>1, <2>2
<1>5. ASSUME NEW b \in Buckets, NEW from, from = clock + 1
      PROVE  Before(b, from)' = passed[b][clock]
  <2>1. from # 0 /\ from - 1 = clock /\ clock \in 0..clock
    BY <1>0, <1>5
  <2> QED
    BY <1>3, <2>1 DEF Before
<1>6. RateTypeOK'
  <2>1. clock' \in 0..MaxTime /\ loose' \subseteq Buckets
    BY <1>0
  <2> QED
    BY <1>2, <1>3, <2>1 DEF RateTypeOK, Hash
<1>7. Living(late, s)'
  BY <1>2 DEF RateInv, Living
<1>8. ASSUME NEW b \in Buckets \ loose, NEW from \in 0..clock, bucket[b].there,
             bucket[b].expires <= clock + 1, passed[b][clock] # Before(b, from)
      PROVE  Window * (passed[b][clock] - Before(b, from)) <= (clock + 1 - from) * Capacity
  <2> DEFINE x == Window * (passed[b][clock] - Before(b, from))
             h == bucket[b]
  <2>1. /\ x + h.tokens <= Capacity * Window + (h.ts + late - from) * Capacity
        /\ h.ts + late <= h.expires - Expiry + s
    BY <1>8 DEF RateInv, PaidFor, Living
  <2>2. h \in Hash /\ x \in Int /\ from \in Int
    <3>1. passed[b][clock] \in Nat /\ Before(b, from) \in Nat
      BY <1>0, <1>4
    <3> QED
      BY <1>0, <3>1, RateAssumption
  <2>3. h.tokens \in Nat /\ h.ts \in Int /\ h.expires \in Nat /\ h.expires <= clock + 1
    BY <1>8, <2>2, Full DEF Hash
  <2> HIDE DEF x, h
  <2>4. h.ts + late - from <= clock + 1 - Window - from
    <3>1. /\ s \in Int /\ s <= 1 /\ Window \in Int /\ clock \in Int
          /\ h.ts + late <= h.expires - (Window + 1) + s
      BY <1>0, <2>1, RateAssumption DEF Expiry
    <3> QED
      BY <2>2, <2>3, <3>1
  <2>5. (h.ts + late - from) * Capacity <= (clock + 1 - Window - from) * Capacity
    <3>1. h.ts + late - from \in Int /\ clock + 1 - Window - from \in Int
      BY <1>0, <2>2, <2>3, RateAssumption
    <3> QED
      BY <2>4, <3>1, TimesCapacity
  <2>6. (clock + 1 - Window - from) * Capacity = (clock + 1 - from) * Capacity - Capacity * Window
    BY <1>0, <2>2, RateAssumption
  <2>7. (h.ts + late - from) * Capacity \in Int /\ (clock + 1 - from) * Capacity \in Int
    BY <1>0, <2>2, <2>3, RateAssumption
  <2>8. x <= (clock + 1 - from) * Capacity
    BY <2>1, <2>2, <2>3, <2>5, <2>6, <2>7, Full
  <2> QED
    BY <2>8 DEF x
<1>9. PaidFor(late)'
  <2> DEFINE before(b, from) == Window * (passed[b][clock] - Before(b, from))
             after(b, from) == Window * (passed'[b][clock'] - Before(b, from)')
  <2> SUFFICES ASSUME NEW b \in Buckets \ loose', NEW from \in 0..clock'
               PROVE  \/ passed'[b][clock'] = Before(b, from)'
                      \/ IF bucket'[b].there
                         THEN after(b, from) + bucket'[b].tokens
                              <= Capacity * Window + (bucket'[b].ts + late - from) * Capacity
                         ELSE after(b, from) <= (clock' - from) * Capacity
    BY DEF PaidFor
  <2>0. b \in Buckets \ loose /\ from \in 0..(clock + 1) /\ clock' = clock + 1
    BY <1>0
  <2>3. (clock' - from) * Capacity = (clock + 1 - from) * Capacity
    <3>1. clock' - from = clock + 1 - from
      BY <1>0, <2>0
    <3> QED
      BY <3>1, Zenon
  <2>1. CASE from = clock + 1
    BY <1>3, <1>5, <2>0, <2>1
  <2>2. CASE from # clock + 1
    <3>1. from \in 0..clock /\ Before(b, from)' = Before(b, from) /\ Before(b, from) \in Nat
      BY <1>0, <1>4, <2>0, <2>2
    <3>2. passed[b][clock] \in Nat /\ passed'[b][clock'] = passed[b][clock]
      BY <1>0, <1>3, <2>0
    <3>3. after(b, from) = before(b, from) /\ before(b, from) \in Int
      BY <3>1, <3>2, RateAssumption
    <3>4. \/ passed'[b][clock'] = Before(b, from)'
          \/ IF bucket[b].there
             THEN before(b, from) + bucket[b].tokens
                  <= Capacity * Window + (bucket[b].ts + late - from) * Capacity
             ELSE before(b, from) <= (clock - from) * Capacity
      BY <2>0, <3>1, <3>2 DEF RateInv, PaidFor
    <3>5. passed'[b][clock'] # Before(b, from)' /\ bucket[b].there /\ bucket[b].expires <= clock + 1
          => before(b, from) <= (clock + 1 - from) * Capacity
      BY <1>8, <2>0, <3>1, <3>2
    <3>6. /\ (clock - from) * Capacity <= (clock + 1 - from) * Capacity
          /\ (clock - from) * Capacity \in Int /\ (clock + 1 - from) * Capacity \in Int
      <4>1. clock - from \in Int /\ clock + 1 - from \in Int /\ clock - from <= clock + 1 - from
        BY <1>0, <3>1
      <4> QED
        BY <4>1, TimesCapacity, RateAssumption
    <3> HIDE DEF before, after
    <3>7. CASE bucket'[b] = bucket[b] /\ bucket[b].there
      BY <3>3, <3>4, <3>7
    <3>8. CASE ~bucket'[b].there /\ ~bucket[b].there
      <4>1. \/ passed'[b][clock'] = Before(b, from)'
            \/ before(b, from) <= (clock + 1 - from) * Capacity
        BY <3>3, <3>4, <3>6, <3>8
      <4> QED
        BY <2>3, <3>3, <3>8, <4>1, Zenon
    <3>9. CASE ~bucket'[b].there /\ bucket[b].there
      <4>1. bucket[b].expires <= clock + 1
        BY <1>2, <2>0, <3>9
      <4> QED
        BY <2>3, <3>3, <3>5, <3>9, <4>1, Zenon
    <3> QED
      BY <1>2, <2>0, <3>7, <3>8, <3>9
  <2> QED
    BY <2>1, <2>2
<1>10. Bounded(s)'
  <2> DEFINE before(b, from) == Window * (passed[b][clock] - Before(b, from))
             after(b, from, to) == Window * (passed'[b][to] - Before(b, from)')
  <2> SUFFICES ASSUME NEW b \in Buckets \ loose', NEW from \in 0..clock', NEW to \in 0..clock',
                      from <= to
               PROVE  after(b, from, to) <= Capacity * Window + (to - from + s) * Capacity
    BY DEF Bounded
  <2>0. b \in Buckets \ loose /\ from \in 0..(clock + 1) /\ to \in 0..(clock + 1)
    BY <1>0
  <2>1. CASE to # clock + 1
    <3>1. to \in 0..clock /\ from \in 0..clock
      BY <1>0, <2>0, <2>1
    <3>2. passed'[b][to] = passed[b][to] /\ Before(b, from)' = Before(b, from)
      BY <1>3, <1>4, <2>0, <3>1
    <3>3. Window * (passed[b][to] - Before(b, from)) <= Capacity * Window + (to - from + s) * Capacity
      BY <2>0, <3>1 DEF RateInv, Bounded
    <3> QED
      BY <3>2, <3>3
  <2>2. CASE to = clock + 1 /\ from # clock + 1
    <3>1. from \in 0..clock /\ clock \in 0..clock /\ from <= clock
      BY <1>0, <2>0, <2>2
    <3>2. before(b, from) <= Capacity * Window + (clock - from + s) * Capacity
      BY <2>0, <3>1 DEF RateInv, Bounded
    <3>3. (clock - from + s) * Capacity <= (clock + 1 - from + s) * Capacity
      <4>1. clock - from + s \in Int /\ clock + 1 - from + s \in Int
            /\ clock - from + s <= clock + 1 - from + s
        BY <1>0, <3>1
      <4> QED
        BY <4>1, TimesCapacity
    <3>4. /\ passed[b][clock] \in Nat /\ Before(b, from) \in Nat
          /\ passed'[b][to] = passed[b][clock] /\ Before(b, from)' = Before(b, from)
      <4>1. passed[b][clock] \in Nat /\ passed'[b][to] = passed[b][clock]
        BY <1>0, <1>3, <2>0, <2>2
      <4>2. Before(b, from) \in Nat /\ Before(b, from)' = Before(b, from)
        BY <1>4, <2>0, <3>1
      <4> QED
        BY <4>1, <4>2
    <3>5. /\ before(b, from) \in Int /\ after(b, from, to) = before(b, from)
          /\ (clock - from + s) * Capacity \in Int /\ (clock + 1 - from + s) * Capacity \in Int
      <4>1. after(b, from, to) = before(b, from)
        BY <3>4, Zenon
      <4>2. before(b, from) \in Int
        BY <3>4, RateAssumption
      <4>3. (clock - from + s) * Capacity \in Int /\ (clock + 1 - from + s) * Capacity \in Int
        BY <1>0, <3>1, RateAssumption
      <4> QED
        BY <4>1, <4>2, <4>3
    <3> HIDE DEF before, after
    <3>6. before(b, from) <= Capacity * Window + (clock + 1 - from + s) * Capacity
      BY <3>2, <3>3, <3>5, Full
    <3>7. (to - from + s) * Capacity = (clock + 1 - from + s) * Capacity
      <4>1. to - from + s = clock + 1 - from + s
        BY <1>0, <2>0, <2>2
      <4> QED
        BY <4>1, Zenon
    <3> QED
      BY <3>5, <3>6, <3>7, Zenon
  <2>3. CASE to = clock + 1 /\ from = clock + 1
    <3>1. passed'[b][to] - Before(b, from)' = 0
      <4>1. passed[b][clock] \in Nat
        BY <1>0, <2>0
      <4> QED
        BY <1>3, <1>5, <2>0, <2>3, <4>1
    <3>2. to - from + s = s /\ s * Capacity \in Nat
      BY <1>0, <2>3, RateAssumption
    <3>3. Window * 0 = 0
      BY RateAssumption
    <3> QED
      BY <3>1, <3>2, <3>3, Full
  <2> QED
    BY <2>1, <2>2, <2>3, <2>0
<1> QED
  BY <1>6, <1>7, <1>9, <1>10 DEF RateInv

LEMMA FailOpenStep ==
  ASSUME NEW late \in Int, NEW s \in {0, 1}, RateInv(late, s), NEW r \in RateRequests, FailOpen(r)
  PROVE  RateInv(late, s)'
<1>1. UNCHANGED <<clock, bucket, passed>> /\ loose \subseteq loose' /\ loose' \subseteq Buckets
  BY DEF FailOpen, RateInv, RateTypeOK
<1>2. \A b, from : Before(b, from)' = Before(b, from)
  BY <1>1 DEF Before
<1>3. RateTypeOK' /\ Living(late, s)'
  BY <1>1 DEF RateInv, RateTypeOK, Living
<1>4. PaidFor(late)'
  BY <1>1, <1>2 DEF RateInv, PaidFor
<1>5. Bounded(s)'
  BY <1>1, <1>2 DEF RateInv, Bounded
<1> QED
  BY <1>3, <1>4, <1>5 DEF RateInv

LEMMA RateStep ==
  ASSUME NEW late \in Int, NEW s \in {0, 1}, Clocks(late, s)
  PROVE  RateInv(late, s) /\ [RateNext]_rateVars => RateInv(late, s)'
<1> SUFFICES ASSUME RateInv(late, s), [RateNext]_rateVars PROVE RateInv(late, s)'
  OBVIOUS
<1>1. CASE UNCHANGED rateVars
  <2>1. UNCHANGED <<clock, bucket, passed, loose>> /\ \A b, from : Before(b, from)' = Before(b, from)
    BY <1>1 DEF rateVars, Before
  <2>2. RateTypeOK' /\ Living(late, s)'
    BY <2>1 DEF RateInv, RateTypeOK, Living
  <2>3. PaidFor(late)' /\ Bounded(s)'
    BY <2>1 DEF RateInv, PaidFor, Bounded
  <2> QED
    BY <2>2, <2>3 DEF RateInv
<1> QED
  BY <1>1, CheckStep, FailOpenStep, SecondStep DEF RateNext

(* Clocks that differ by s seconds lie between those of a slowest process  *)
(* and s seconds more.                                                     *)
LEMMA SlowestClock ==
  ASSUME NEW s \in {0, 1}, ClocksWithin(s)
  PROVE  \E late \in Int : Clocks(late, s)
<1>1. \A n \in Nodes : Lag[n] \in Int
  BY RateAssumption
<1>2. CASE \E m \in Nodes : \A n \in Nodes : Lag[n] <= Lag[m]
  <2>1. PICK m \in Nodes : \A n \in Nodes : Lag[n] <= Lag[m]
    BY <1>2
  <2>2. \A n \in Nodes : Lag[m] - s <= Lag[n]
    BY <1>1 DEF ClocksWithin
  <2> QED
    BY <1>1, <2>1, <2>2 DEF Clocks
<1>3. CASE Nodes = {}
  BY <1>3 DEF Clocks
<1>4. CASE Nodes # {} /\ ~ \E m \in Nodes : \A n \in Nodes : Lag[n] <= Lag[m]
  <2>1. PICK m \in Nodes : TRUE
    BY <1>4
  <2>2. PICK n \in Nodes : Lag[n] > Lag[m]
    BY <1>1, <1>4, <2>1
  <2>3. PICK k \in Nodes : Lag[k] > Lag[n]
    BY <1>1, <1>4, <2>2
  <2>4. Lag[k] - Lag[m] <= s
    BY DEF ClocksWithin
  <2> QED
    BY <1>1, <2>2, <2>3, <2>4
<1> QED
  BY <1>2, <1>3, <1>4

(* No window admits more than its rate, for any number of processes,       *)
(* callers and requests, as long as their clocks differ by a second at     *)
(* most (the script's PEXPIRE and refill).                                 *)
THEOREM RateKept == RateSpec => []WithinRate
<1>0. ClocksWithin(0) => ClocksWithin(1)
  BY RateAssumption DEF ClocksWithin
<1>1. CASE ClocksWithin(0)
  <2>1. PICK late \in Int : Clocks(late, 0)
    BY <1>1, SlowestClock
  <2>2. Clocks(late, 1)
    BY <2>1, RateAssumption DEF Clocks
  <2>3. RateInit => RateInv(late, 0) /\ RateInv(late, 1)
    BY InitRate
  <2>4. RateInv(late, 0) /\ RateInv(late, 1) /\ [RateNext]_rateVars
        => RateInv(late, 0)' /\ RateInv(late, 1)'
    BY <2>1, <2>2, RateStep
  <2>5. RateInv(late, 0) /\ RateInv(late, 1) => WithinRate
    BY DEF RateInv, Bounded, WithinRate
  <2> QED
    BY <2>3, <2>4, <2>5, PTL DEF RateSpec
<1>2. CASE ClocksWithin(1) /\ ~ ClocksWithin(0)
  <2>1. PICK late \in Int : Clocks(late, 1)
    BY <1>2, SlowestClock
  <2>2. RateInit => RateInv(late, 1)
    BY InitRate
  <2>3. RateInv(late, 1) /\ [RateNext]_rateVars => RateInv(late, 1)'
    BY <2>1, RateStep
  <2>4. RateInv(late, 1) => WithinRate
    BY <1>2 DEF RateInv, Bounded, WithinRate
  <2> QED
    BY <2>2, <2>3, <2>4, PTL DEF RateSpec
<1>3. CASE ~ ClocksWithin(1)
  <2>1. WithinRate
    BY <1>0, <1>3 DEF WithinRate
  <2> QED
    BY <2>1, PTL
<1> QED
  BY <1>0, <1>1, <1>2, <1>3
=============================================================================
