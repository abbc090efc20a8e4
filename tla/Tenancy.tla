------------------------------ MODULE Tenancy ------------------------------
(***************************************************************************)
(* Tenants, their members and the accounts that own them, as the handlers  *)
(* of internal/handlers/http/{tenant,user} change them through             *)
(* internal/services/{tenant,user}.                                        *)
(*                                                                         *)
(* No handler uses a database transaction, so a request is a process that  *)
(* makes one repository call per step; what it has read so far lives in    *)
(* req[p] and may be stale by the time it is used.  Reads that only refuse *)
(* a request before anything was written are guards of its first action: a *)
(* refused request changes nothing.  The steps read and write the tables   *)
(* of migrations 1, 6 and 7:                                               *)
(*                                                                         *)
(*   users    the row of an account: absent, live, or soft-deleted (rows   *)
(*            are never removed, and the e-mail column is UNIQUE, so a     *)
(*            user stands for an account and for its e-mail address);      *)
(*   slugOf   the slug of a tenant's row, None when there is no such row.  *)
(*            name and status are written with it and no code reads them;  *)
(*   members  tenant_members: the member_type of the pair, or "none";      *)
(*   configs  the tenants with a row in anniversary_site_configs, which    *)
(*            holds a foreign key ON DELETE RESTRICT on its tenant.        *)
(*                                                                         *)
(* granted and titles are history variables: the slugs each tenant was     *)
(* ever given by its creation, by a global user or by the default-tenant   *)
(* upsert, and the users who ever owned it.                                *)
(***************************************************************************)
EXTENDS Integers, FiniteSets

CONSTANTS
  Procs,        \* requests that can be in flight at once
  Users,        \* accounts
  Admins,       \* the users with permission tenants:access_all
  Seeded,       \* accounts that exist at the start (created by an admin)
  Tenants,      \* tenant ids (a bound: uuids never run out in the code)
  Slugs,        \* normalised slugs
  Default,      \* the id of the tenant migration 7 inserts
  DefaultSlug,  \* "default"
  None,         \* no slug, no tenant, no user
  Limit,        \* Limit[u]: tenants of u's plan, negative for unlimited
  Requests,     \* the operations clients call
  Faults        \* may a database call fail, or the process die, mid-request?

ASSUME TenancyAssumption ==
  /\ Admins \subseteq Seeded /\ Seeded \subseteq Users
  /\ Default \in Tenants /\ DefaultSlug \in Slugs
  /\ None \notin Slugs \cup Tenants \cup Users
  /\ Limit \in [Users -> Int]
  /\ Faults \in BOOLEAN

VARIABLES users, slugOf, members, configs, req, granted, titles

db == <<users, slugOf, members, configs>>
vars == <<users, slugOf, members, configs, req, granted, titles>>

Ops == {"create", "register", "google", "update", "delete", "addMember", "load"}

\* The repository call a request makes next.
PCs == {"idle", "quota", "getBySlug", "storeUser", "storeTenant", "storeOwner",
        "isOwner", "checkSlug", "save", "delete", "getUser", "storeMember",
        "ensureDefault", "resolve", "saveConfig"}

MemberTypes == {"owner", "member"}

Idle == [pc |-> "idle", op |-> "none", user |-> None, tid |-> None,
         slug |-> None, row |-> None, target |-> None, kind |-> "none"]

Init ==
  /\ users = [u \in Users |-> IF u \in Seeded THEN "live" ELSE "absent"]
  /\ slugOf = [t \in Tenants |-> IF t = Default THEN DefaultSlug ELSE None]
  /\ members = [t \in Tenants |-> [u \in Users |-> "none"]]
  /\ configs = {Default}
  /\ req = [p \in Procs |-> Idle]
  /\ granted = {<<Default, DefaultSlug>>}
  /\ titles = {}

Exists(t) == slugOf[t] # None
Taken(s) == \E t \in Tenants : slugOf[t] = s
HeldByAnother(t, s) == \E o \in Tenants \ {t} : slugOf[o] = s
OwnedBy(u) == {t \in Tenants : members[t][u] = "owner"}

\* A uuid nobody has seen: never stored, and not drawn by a request in flight.
Fresh(t) ==
  /\ \A s \in Slugs : <<t, s>> \notin granted
  /\ \A p \in Procs : req[p].tid # t

Begin(p, r) == req[p].pc = "idle" /\ req' = [req EXCEPT ![p] = r]
Goto(p, pc) == req' = [req EXCEPT ![p].pc = pc]
Finish(p)   == req' = [req EXCEPT ![p] = Idle]
At(p, pc)   == req[p].pc = pc

-----------------------------------------------------------------------------
(* TenantService.Create: the slug must be free, then the quota, then the   *)
(* tenant row, then the creator's owner row.                               *)

Create(p, u, s, t) ==
  /\ "create" \in Requests
  /\ users[u] # "absent"
  /\ ~Taken(s)
  /\ Fresh(t)
  /\ Begin(p, [Idle EXCEPT !.op = "create", !.user = u, !.slug = s, !.tid = t,
                           !.pc = IF u \in Admins THEN "storeTenant" ELSE "quota"])
  /\ UNCHANGED <<db, granted, titles>>

\* mutant: the limit itself is let through
WithinQuotaOffByOne(u) == Limit[u] < 0 \/ Cardinality(OwnedBy(u)) <= Limit[u]

WithinQuota(u) == Limit[u] < 0 \/ Cardinality(OwnedBy(u)) < Limit[u]

\* UserRepo.GetByID and CountOwnedByUser: the first reads only the user row,
\* so the two commute with every other step and make one.
CreateQuota(p) ==
  /\ At(p, "quota")
  /\ IF users[req[p].user] = "live" /\ WithinQuota(req[p].user)
     THEN Goto(p, "storeTenant")
     ELSE Finish(p)
  /\ UNCHANGED <<db, granted, titles>>

-----------------------------------------------------------------------------
(* RegisterUser stores the account and only then looks at the slug;        *)
(* LoginWithGoogle of an unknown e-mail looks at the slug first.  A None   *)
(* slug is one that sanitizeTenantSlug rejects.                            *)

RegisterUser(p, u, s, t) ==
  /\ "register" \in Requests
  /\ users[u] # "live"
  /\ Fresh(t)
  /\ Begin(p, [Idle EXCEPT !.op = "register", !.user = u, !.slug = s, !.tid = t,
                           !.pc = "storeUser"])
  /\ UNCHANGED <<db, granted, titles>>

LoginWithGoogle(p, u, s, t) ==
  /\ "google" \in Requests
  /\ users[u] # "live"
  /\ Fresh(t)
  /\ Begin(p, [Idle EXCEPT !.op = "google", !.user = u, !.slug = s, !.tid = t,
                           !.pc = "getBySlug"])
  /\ UNCHANGED <<db, granted, titles>>

\* mutant: the e-mail column loses its UNIQUE constraint
StoreUserNoUnique(p) ==
  /\ At(p, "storeUser")
  /\ users' = [users EXCEPT ![req[p].user] = "live"]
  /\ Goto(p, IF req[p].op = "register" THEN "getBySlug" ELSE "storeTenant")
  /\ UNCHANGED <<slugOf, members, configs, granted, titles>>

\* UserRepo.Store: the address of a soft-deleted account is still taken.
StoreUser(p) ==
  /\ At(p, "storeUser")
  /\ IF users[req[p].user] = "absent"
     THEN /\ users' = [users EXCEPT ![req[p].user] = "live"]
          /\ Goto(p, IF req[p].op = "register" THEN "getBySlug" ELSE "storeTenant")
     ELSE Finish(p) /\ UNCHANGED users
  /\ UNCHANGED <<slugOf, members, configs, granted, titles>>

GetBySlug(p) ==
  /\ At(p, "getBySlug")
  /\ IF req[p].slug = None \/ Taken(req[p].slug)
     THEN Finish(p)
     ELSE Goto(p, IF req[p].op = "register" THEN "storeTenant" ELSE "storeUser")
  /\ UNCHANGED <<db, granted, titles>>

-----------------------------------------------------------------------------
(* The last two calls of a creation, shared by Create, RegisterUser and    *)
(* LoginWithGoogle.                                                        *)

\* mutant: the request ends once the tenant row is stored
StoreTenantOnly(p) ==
  /\ At(p, "storeTenant")
  /\ ~Taken(req[p].slug)
  /\ slugOf' = [slugOf EXCEPT ![req[p].tid] = req[p].slug]
  /\ granted' = granted \cup {<<req[p].tid, req[p].slug>>}
  /\ Finish(p)
  /\ UNCHANGED <<users, members, configs, titles>>

\* TenantRepo.Store under the UNIQUE slug.
StoreTenant(p) ==
  /\ At(p, "storeTenant")
  /\ IF Taken(req[p].slug)
     THEN Finish(p) /\ UNCHANGED <<slugOf, granted>>
     ELSE /\ slugOf' = [slugOf EXCEPT ![req[p].tid] = req[p].slug]
          /\ granted' = granted \cup {<<req[p].tid, req[p].slug>>}
          /\ Goto(p, "storeOwner")
  /\ UNCHANGED <<users, members, configs, titles>>

\* AddOrUpdateMember: an upsert, which the foreign key refuses once the
\* tenant is gone (the user row never goes).
Upsert(t, u, kind) ==
  IF Exists(t)
  THEN /\ members' = [members EXCEPT ![t][u] = kind]
       /\ titles' = IF kind = "owner" THEN titles \cup {<<t, u>>} ELSE titles
  ELSE UNCHANGED <<members, titles>>

StoreOwner(p) ==
  /\ At(p, "storeOwner")
  /\ Upsert(req[p].tid, req[p].user, "owner")
  /\ Finish(p)
  /\ UNCHANGED <<users, slugOf, configs, granted>>

-----------------------------------------------------------------------------
(* TenantService.Update, Delete and AddMember: GetByID, then               *)
(* ensureTenantManageable, then the operation's own calls.                 *)

Update(p, u, t, s) ==
  /\ "update" \in Requests
  /\ users[u] # "absent"
  /\ Exists(t)
  /\ Begin(p, [Idle EXCEPT !.op = "update", !.user = u, !.tid = t, !.slug = s,
                           !.row = slugOf[t], !.pc = "isOwner"])
  /\ UNCHANGED <<db, granted, titles>>

Delete(p, u, t) ==
  /\ "delete" \in Requests
  /\ users[u] # "absent"
  /\ Exists(t)
  /\ Begin(p, [Idle EXCEPT !.op = "delete", !.user = u, !.tid = t,
                           !.row = slugOf[t], !.pc = "isOwner"])
  /\ UNCHANGED <<db, granted, titles>>

AddMember(p, u, t, target, kind) ==
  /\ "addMember" \in Requests
  /\ users[u] # "absent"
  /\ Exists(t)
  /\ Begin(p, [Idle EXCEPT !.op = "addMember", !.user = u, !.tid = t,
                           !.target = target, !.kind = kind, !.pc = "isOwner"])
  /\ UNCHANGED <<db, granted, titles>>

\* mutant: any member may manage the tenant
ManageableByMember(u, t) == u \in Admins \/ members[t][u] # "none"

Manageable(u, t) == u \in Admins \/ members[t][u] = "owner"

\* Delete also refuses the slug "default" here, on the row it has read.
AfterAuthorisation(r) ==
  CASE r.op = "update"    -> IF r.slug = None THEN "save" ELSE "checkSlug"
    [] r.op = "delete"    -> IF r.row = DefaultSlug THEN "idle" ELSE "delete"
    [] r.op = "addMember" -> "getUser"

EnsureTenantManageable(p) ==
  /\ At(p, "isOwner")
  /\ IF Manageable(req[p].user, req[p].tid) /\ AfterAuthorisation(req[p]) # "idle"
     THEN Goto(p, AfterAuthorisation(req[p]))
     ELSE Finish(p)
  /\ UNCHANGED <<db, granted, titles>>

\* mutant: the slug lock is dropped
SlugAcceptableUnlocked(r) == ~HeldByAnother(r.tid, r.slug)

\* ErrTenantSlugLocked compares with the row read before; then GetBySlug.
SlugAcceptable(r) ==
  /\ r.slug = r.row \/ r.user \in Admins
  /\ ~HeldByAnother(r.tid, r.slug)

UpdateCheckSlug(p) ==
  /\ At(p, "checkSlug")
  /\ IF SlugAcceptable(req[p])
     THEN req' = [req EXCEPT ![p].row = req[p].slug, ![p].pc = "save"]
     ELSE Finish(p)
  /\ UNCHANGED <<db, granted, titles>>

\* gorm's Save writes every column of the row read before; when the row is
\* gone, Save inserts it again (without the members that went with it).
UpdateSave(p) ==
  /\ At(p, "save")
  /\ IF HeldByAnother(req[p].tid, req[p].row)
     THEN UNCHANGED <<slugOf, granted>>
     ELSE /\ slugOf' = [slugOf EXCEPT ![req[p].tid] = req[p].row]
          /\ granted' = IF req[p].user \in Admins /\ req[p].slug # None
                        THEN granted \cup {<<req[p].tid, req[p].row>>}
                        ELSE granted
  /\ Finish(p)
  /\ UNCHANGED <<users, members, configs, titles>>

\* mutant: the configurations' foreign key cascades
DeletableCascading(t) == TRUE

Deletable(t) == t \notin configs

DeleteTenant(p) ==
  /\ At(p, "delete")
  /\ IF Deletable(req[p].tid)
     THEN /\ slugOf' = [slugOf EXCEPT ![req[p].tid] = None]
          /\ members' = [members EXCEPT ![req[p].tid] = [u \in Users |-> "none"]]
     ELSE UNCHANGED <<slugOf, members>>
  /\ Finish(p)
  /\ UNCHANGED <<users, configs, granted, titles>>

AddMemberGetUser(p) ==
  /\ At(p, "getUser")
  /\ IF users[req[p].target] = "live" THEN Goto(p, "storeMember") ELSE Finish(p)
  /\ UNCHANGED <<db, granted, titles>>

StoreMember(p) ==
  /\ At(p, "storeMember")
  /\ Upsert(req[p].tid, req[p].target, req[p].kind)
  /\ Finish(p)
  /\ UNCHANGED <<users, slugOf, configs, granted>>

-----------------------------------------------------------------------------
(* dbRepo.LoadByTenantSlug and SaveByTenantSlug, as far as they touch      *)
(* these tables: both end in an upsert of the tenant's configuration row.  *)

LoadByTenantSlug(p, s) ==
  /\ "load" \in Requests
  /\ Begin(p, [Idle EXCEPT !.op = "load", !.slug = s,
                           !.pc = IF s = DefaultSlug THEN "ensureDefault" ELSE "resolve"])
  /\ UNCHANGED <<db, granted, titles>>

\* An upsert on the id; its error (the slug held by another tenant) is ignored.
EnsureDefaultTenant(p) ==
  /\ At(p, "ensureDefault")
  /\ IF HeldByAnother(Default, DefaultSlug)
     THEN UNCHANGED <<slugOf, granted>>
     ELSE /\ slugOf' = [slugOf EXCEPT ![Default] = DefaultSlug]
          /\ granted' = granted \cup {<<Default, DefaultSlug>>}
  /\ Goto(p, "resolve")
  /\ UNCHANGED <<users, members, configs, titles>>

ResolveTenantIDBySlug(p) ==
  /\ At(p, "resolve")
  /\ \/ /\ ~Taken(req[p].slug)
        /\ Finish(p)
     \/ \E t \in Tenants :
          /\ slugOf[t] = req[p].slug
          /\ req' = [req EXCEPT ![p].tid = t, ![p].pc = "saveConfig"]
  /\ UNCHANGED <<db, granted, titles>>

SaveByTenantID(p) ==
  /\ At(p, "saveConfig")
  /\ configs' = IF Exists(req[p].tid) THEN configs \cup {req[p].tid} ELSE configs
  /\ Finish(p)
  /\ UNCHANGED <<users, slugOf, members, granted, titles>>

-----------------------------------------------------------------------------
\* UserRepo.Delete sets deleted_at: no row goes, and no cascade fires.
DeleteUser(u) ==
  /\ "deleteUser" \in Requests
  /\ users[u] = "live"
  /\ users' = [users EXCEPT ![u] = "deleted"]
  /\ UNCHANGED <<slugOf, members, configs, req, granted, titles>>

\* A database call fails, or the server dies: nothing undoes the calls made.
Fail(p) ==
  /\ Faults
  /\ ~At(p, "idle")
  /\ Finish(p)
  /\ UNCHANGED <<db, granted, titles>>

Arrive(p) ==
  \/ \E u \in Users, s \in Slugs, t \in Tenants : Create(p, u, s, t)
  \/ \E u \in Users, s \in Slugs \cup {None}, t \in Tenants : RegisterUser(p, u, s, t)
  \/ \E u \in Users, s \in Slugs \cup {None}, t \in Tenants : LoginWithGoogle(p, u, s, t)
  \/ \E u \in Users, t \in Tenants, s \in Slugs \cup {None} : Update(p, u, t, s)
  \/ \E u \in Users, t \in Tenants : Delete(p, u, t)
  \/ \E u, v \in Users, t \in Tenants, k \in MemberTypes : AddMember(p, u, t, v, k)
  \/ \E s \in Slugs : LoadByTenantSlug(p, s)

Proceed(p) ==
  \/ CreateQuota(p)
  \/ StoreUser(p)
  \/ GetBySlug(p)
  \/ StoreTenant(p)
  \/ StoreOwner(p)
  \/ EnsureTenantManageable(p)
  \/ UpdateCheckSlug(p)
  \/ UpdateSave(p)
  \/ DeleteTenant(p)
  \/ AddMemberGetUser(p)
  \/ StoreMember(p)
  \/ EnsureDefaultTenant(p)
  \/ ResolveTenantIDBySlug(p)
  \/ SaveByTenantID(p)

Next ==
  \/ \E p \in Procs : Arrive(p) \/ Proceed(p) \/ Fail(p)
  \/ \E u \in Users : DeleteUser(u)

Spec == Init /\ [][Next]_vars

-----------------------------------------------------------------------------
Request ==
  [pc : PCs, op : Ops \cup {"none"}, user : Users \cup {None},
   tid : Tenants \cup {None}, slug : Slugs \cup {None}, row : Slugs \cup {None},
   target : Users \cup {None}, kind : MemberTypes \cup {"none"}]

\* Each table and each request holds values of its columns' types.
TypeOK ==
  /\ users \in [Users -> {"absent", "live", "deleted"}]
  /\ slugOf \in [Tenants -> Slugs \cup {None}]
  /\ members \in [Tenants -> [Users -> MemberTypes \cup {"none"}]]
  /\ configs \subseteq Tenants
  /\ req \in [Procs -> Request]
  /\ granted \subseteq Tenants \X Slugs
  /\ titles \subseteq Tenants \X Users

-----------------------------------------------------------------------------
(* Safety *)

\* A tenant's slug is always one it was created with, one a global user gave
\* it, or (the default tenant) the slug of the upsert: whatever rows
\* concurrent Updates of regular users write back, none invents a slug.
SlugsAreGranted ==
  \A t \in Tenants : Exists(t) => <<t, slugOf[t]>> \in granted

\* The tenant of migration 7 is never deleted, though an administrator can
\* rename it and so get around the check of the slug "default": the
\* configuration row of migration 6 holds it by its foreign key.
DefaultTenantKept == Exists(Default)

\* p acts for someone who was entitled to manage t: a global user, or one who
\* owned t at some time (perhaps no longer: the check may be stale).
ActsForManager(p, t) ==
  /\ req[p].tid = t
  /\ req[p].user \in Admins \/ <<t, req[p].user>> \in titles

\* A member row changes, or a tenant goes, only by the creator's owner row or
\* by a request of a manager past or present; a tenant with a configuration
\* never goes.
ChangesAreAuthorised ==
  [][\A t \in Tenants :
       /\ members'[t] # members[t] =>
            \E p \in Procs :
               \/ ActsForManager(p, t)
               \/ /\ At(p, "storeOwner") /\ req[p].tid = t
                  /\ members'[t] = [members[t] EXCEPT ![req[p].user] = "owner"]
       /\ slugOf'[t] = None /\ Exists(t) =>
            t \notin configs /\ \E p \in Procs : ActsForManager(p, t)]_vars

\* A request past its last look at the quota, or that never looks at it, and
\* that may still end with its user owning one more tenant.
PastQuota(r) ==
  \/ r.pc \in {"storeTenant", "storeOwner"}
  \/ r.pc = "getBySlug" /\ r.op = "register"

Creating(u) == {p \in Procs : req[p].user = u /\ PastQuota(req[p])}

QuotaBound(u) == IF Limit[u] = 0 THEN 1 ELSE Limit[u] - 1 + Cardinality(Procs)

\* How far the quota can be overshot when nobody else appoints owners: every
\* request counts before any of them stores, so a user of plan limit L ends
\* with at most L - 1 + |Procs| tenants, those under way included.  With a
\* limit of 0 the registration's own tenant is the only one.
QuotaOvershootBounded ==
  \A u \in Users \ Admins :
    Limit[u] >= 0 =>
      Cardinality(OwnedBy(u)) + Cardinality(Creating(u)) <= QuotaBound(u)

\* Only accounts that are stored create or own tenants.
AccountsComeFirst ==
  /\ \A p \in Procs :
       PastQuota(req[p]) \/ At(p, "quota") => users[req[p].user] # "absent"
  /\ \A t \in Tenants, u \in Users : members[t][u] = "owner" => users[u] # "absent"

\* The inductive invariant of the quota's bound, beside Inv.
QuotaInv ==
  /\ \A p \in Procs : req[p].op # "addMember"
  /\ AccountsComeFirst
  /\ QuotaOvershootBounded

\* A tenant has an owner, or its creation is about to store one.
Settled(t) ==
  Exists(t) => \/ \E u \in Users : members[t][u] = "owner"
               \/ \E p \in Procs : At(p, "storeOwner") /\ req[p].tid = t

\* The three ways in which nobody owns a tenant any more: its creation is cut off
\* between the tenant's row and the owner's, an owner is made a member, and the row of
\* a tenant deleted meanwhile is put back by the Save of an Update.
LeavesOwnerless(p, t) ==
  /\ req[p].tid = t
  /\ \/ At(p, "storeOwner") /\ members' = members
     \/ At(p, "storeMember") /\ req[p].kind = "member" /\ members[t][req[p].target] = "owner"
     \/ At(p, "save") /\ ~Exists(t)

\* There is no fourth, whatever calls fail and whoever appoints, demotes, renames and
\* deletes while a tenant is created: only that very step of a request for the tenant
\* leaves it without an owner (Create, AddMember and Update of the tenants' service,
\* RegisterUser and LoginWithGoogle of the users').
OwnersLostOnlyThen ==
  [][\A t \in Tenants \ {Default} :
       Settled(t) /\ ~Settled(t)' => \E p \in Procs : LeavesOwnerless(p, t)]_vars

-----------------------------------------------------------------------------
(* What a request r in flight may rely on, however stale its reads are: g  *)
(* and o are the granted slugs and the owners on record.                   *)

\* Each call belongs to its operation and has the arguments it writes.
CallFits(r) ==
  /\ r.pc \in {"checkSlug", "save"} => r.op = "update"
  /\ r.pc = "checkSlug" => r.slug # None
  /\ r.pc = "isOwner" => r.op \in {"update", "delete", "addMember"}
  /\ r.pc = "getBySlug" => r.op \in {"register", "google"}
  /\ r.pc = "storeUser" =>
       r.op = "register" \/ (r.op = "google" /\ r.slug # None)
  /\ r.pc \in {"quota", "storeTenant", "storeOwner"} => r.slug # None
  /\ r.pc # "idle" /\ r.op # "load" => r.tid # None /\ r.user # None
  /\ r.op = "addMember" => r.target # None /\ r.kind # "none"
  /\ r.pc \in {"getUser", "storeMember"} => r.op = "addMember"
  /\ r.op = "load" => r.pc \in {"ensureDefault", "resolve", "saveConfig"}
  /\ r.pc = "resolve" => r.op = "load" /\ r.slug # None
  /\ r.pc = "ensureDefault" => r.op = "load" /\ r.slug # None
  /\ r.pc = "saveConfig" => r.op = "load" /\ r.tid # None

\* The row an Update carries is one its tenant had by right, or holds the slug
\* a global user asks for.
RowGranted(r, g) ==
  r.op = "update" =>
    \/ <<r.tid, r.row>> \in g
    \/ /\ r.pc = "save" /\ r.user \in Admins
       /\ r.slug # None /\ r.row = r.slug

\* Past the check, the request is that of a manager past or present.
Entitled(r, o) ==
  r.pc \in {"checkSlug", "save", "delete", "getUser", "storeMember"} =>
    r.user \in Admins \/ <<r.tid, r.user>> \in o

RequestOK(r, g, o) == CallFits(r) /\ RowGranted(r, g) /\ Entitled(r, o)

RequestsOK == \A p \in Procs : RequestOK(req[p], granted, titles)

OwnersOnRecord ==
  \A t \in Tenants, u \in Users : members[t][u] = "owner" => <<t, u>> \in titles

\* The inductive invariant of TenancyProofs: a stale request still writes only
\* what its tenant was granted, and only for a manager past or present.
Inv ==
  /\ TypeOK
  /\ RequestsOK
  /\ SlugsAreGranted
  /\ OwnersOnRecord
  /\ DefaultTenantKept /\ Default \in configs
=============================================================================
