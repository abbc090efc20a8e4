--------------------------- MODULE TenancyProofs ---------------------------
(***************************************************************************)
(* Proofs about Tenancy, for any number of requests, users, tenants and    *)
(* slugs: first the invariant Inv, which is inductive; then how far        *)
(* concurrent creations can overshoot the plan quota, for finite numbers   *)
(* of requests and tenants, when nobody appoints owners by                 *)
(* POST /api/tenants/:id/members (QuotaInv is inductive relative to Inv);  *)
(* and last which steps leave a tenant without an owner.                   *)
(***************************************************************************)
EXTENDS Tenancy, FiniteSetTheorems, TLAPS

(* A step replaces the request of one process and only adds to the         *)
(* histories: every other request stays in order.                          *)
LEMMA RequestsKept ==
  ASSUME Inv, NEW p \in Procs, NEW r \in Request,
         req' = [req EXCEPT ![p] = r],
         granted \subseteq granted', titles \subseteq titles',
         RequestOK(r, granted', titles')
  PROVE  req' \in [Procs -> Request] /\ RequestsOK'
<1>1. req \in [Procs -> Request]
  BY DEF Inv, TypeOK
<1>2. req' \in [Procs -> Request]
  BY <1>1
<1>3. ASSUME NEW q \in Procs
      PROVE  RequestOK(req'[q], granted', titles')
  <2>1. CASE q = p
    BY <1>1, <2>1
  <2>2. CASE q # p
    <3>1. req'[q] = req[q]
      BY <1>1, <2>2
    <3>2. RequestOK(req[q], granted, titles)
      BY DEF Inv, RequestsOK
    <3>3. RequestOK(req[q], granted', titles')
      BY <3>2 DEF RequestOK, RowGranted, Entitled
    <3>4. QED
      BY <3>1, <3>3
  <2>3. QED
    BY <2>1, <2>2
<1>4. QED
  BY <1>2, <1>3 DEF RequestsOK

(* A request that ends leaves an idle process. *)
LEMMA FinishKeeps ==
  ASSUME Inv, NEW p \in Procs, Finish(p),
         granted \subseteq granted', titles \subseteq titles'
  PROVE  req' \in [Procs -> Request] /\ RequestsOK'
<1>1. Idle \in Request /\ RequestOK(Idle, granted', titles')
  BY DEF Idle, Request, PCs, Ops, MemberTypes, RequestOK, CallFits, RowGranted, Entitled
<1>2. QED
  BY <1>1, RequestsKept DEF Finish

(* A request that goes on to its next call carries the same arguments. *)
LEMMA GotoKeeps ==
  ASSUME Inv, NEW p \in Procs, NEW pc \in PCs, Goto(p, pc),
         granted \subseteq granted', titles \subseteq titles',
         CallFits([req[p] EXCEPT !.pc = pc]),
         RowGranted([req[p] EXCEPT !.pc = pc], granted),
         Entitled([req[p] EXCEPT !.pc = pc], titles)
  PROVE  req' \in [Procs -> Request] /\ RequestsOK'
<1> DEFINE r == [req[p] EXCEPT !.pc = pc]
<1>1. req \in [Procs -> Request]
  BY DEF Inv, TypeOK
<1>2. r \in Request
  BY <1>1 DEF Request
<1>3. req' = [req EXCEPT ![p] = r]
  BY <1>1 DEF Goto
<1>4. RequestOK(r, granted', titles')
  BY DEF RequestOK, RowGranted, Entitled
<1>5. QED
  BY <1>2, <1>3, <1>4, RequestsKept

(* The steps that leave the tables alone only have to keep the requests. *)
LEMMA TablesUntouched ==
  ASSUME Inv, UNCHANGED <<db, granted, titles>>,
         req' \in [Procs -> Request], RequestsOK'
  PROVE  Inv'
BY DEF Inv, db, TypeOK, SlugsAreGranted, OwnersOnRecord, DefaultTenantKept, Exists

LEMMA CreateStep ==
  ASSUME Inv, NEW p \in Procs, NEW u \in Users, NEW s \in Slugs, NEW t \in Tenants,
         Create(p, u, s, t)
  PROVE  Inv'
<1> DEFINE r == [Idle EXCEPT !.op = "create", !.user = u, !.slug = s, !.tid = t,
                           !.pc = IF u \in Admins THEN "storeTenant" ELSE "quota"]
<1>1. r \in Request
  BY TenancyAssumption DEF Inv, TypeOK, Idle, Request, PCs, Ops, MemberTypes
<1>2. RequestOK(r, granted, titles)
  BY <1>1, TenancyAssumption
  DEF Create, Inv, TypeOK, SlugsAreGranted, Exists, Idle, MemberTypes, Ops,
      RequestOK, CallFits, RowGranted, Entitled
<1>3. req' = [req EXCEPT ![p] = r] /\ UNCHANGED <<db, granted, titles>>
  BY DEF Create, Begin
<1>4. req' \in [Procs -> Request] /\ RequestsOK'
  BY <1>1, <1>2, <1>3, RequestsKept
<1>5. QED
  BY <1>3, <1>4, TablesUntouched

LEMMA RegisterUserStep ==
  ASSUME Inv, NEW p \in Procs, NEW u \in Users, NEW s \in Slugs \cup {None}, NEW t \in Tenants,
         RegisterUser(p, u, s, t)
  PROVE  Inv'
<1> DEFINE r == [Idle EXCEPT !.op = "register", !.user = u, !.slug = s, !.tid = t,
                           !.pc = "storeUser"]
<1>1. r \in Request
  BY TenancyAssumption DEF Inv, TypeOK, Idle, Request, PCs, Ops, MemberTypes
<1>2. RequestOK(r, granted, titles)
  BY <1>1, TenancyAssumption
  DEF RegisterUser, Inv, TypeOK, SlugsAreGranted, Exists, Idle, MemberTypes, Ops,
      RequestOK, CallFits, RowGranted, Entitled
<1>3. req' = [req EXCEPT ![p] = r] /\ UNCHANGED <<db, granted, titles>>
  BY DEF RegisterUser, Begin
<1>4. req' \in [Procs -> Request] /\ RequestsOK'
  BY <1>1, <1>2, <1>3, RequestsKept
<1>5. QED
  BY <1>3, <1>4, TablesUntouched

LEMMA LoginWithGoogleStep ==
  ASSUME Inv, NEW p \in Procs, NEW u \in Users, NEW s \in Slugs \cup {None}, NEW t \in Tenants,
         LoginWithGoogle(p, u, s, t)
  PROVE  Inv'
<1> DEFINE r == [Idle EXCEPT !.op = "google", !.user = u, !.slug = s, !.tid = t,
                           !.pc = "getBySlug"]
<1>1. r \in Request
  BY TenancyAssumption DEF Inv, TypeOK, Idle, Request, PCs, Ops, MemberTypes
<1>2. RequestOK(r, granted, titles)
  BY <1>1, TenancyAssumption
  DEF LoginWithGoogle, Inv, TypeOK, SlugsAreGranted, Exists, Idle, MemberTypes, Ops,
      RequestOK, CallFits, RowGranted, Entitled
<1>3. req' = [req EXCEPT ![p] = r] /\ UNCHANGED <<db, granted, titles>>
  BY DEF LoginWithGoogle, Begin
<1>4. req' \in [Procs -> Request] /\ RequestsOK'
  BY <1>1, <1>2, <1>3, RequestsKept
<1>5. QED
  BY <1>3, <1>4, TablesUntouched

LEMMA UpdateStep ==
  ASSUME Inv, NEW p \in Procs, NEW u \in Users, NEW t \in Tenants, NEW s \in Slugs \cup {None},
         Update(p, u, t, s)
  PROVE  Inv'
<1> DEFINE r == [Idle EXCEPT !.op = "update", !.user = u, !.tid = t, !.slug = s,
                           !.row = slugOf[t], !.pc = "isOwner"]
<1>1. r \in Request
  BY TenancyAssumption DEF Inv, TypeOK, Idle, Request, PCs, Ops, MemberTypes
<1>2. RequestOK(r, granted, titles)
  BY <1>1, TenancyAssumption
  DEF Update, Inv, TypeOK, SlugsAreGranted, Exists, Idle, MemberTypes, Ops,
      RequestOK, CallFits, RowGranted, Entitled
<1>3. req' = [req EXCEPT ![p] = r] /\ UNCHANGED <<db, granted, titles>>
  BY DEF Update, Begin
<1>4. req' \in [Procs -> Request] /\ RequestsOK'
  BY <1>1, <1>2, <1>3, RequestsKept
<1>5. QED
  BY <1>3, <1>4, TablesUntouched

LEMMA DeleteStep ==
  ASSUME Inv, NEW p \in Procs, NEW u \in Users, NEW t \in Tenants,
         Delete(p, u, t)
  PROVE  Inv'
<1> DEFINE r == [Idle EXCEPT !.op = "delete", !.user = u, !.tid = t,
                           !.row = slugOf[t], !.pc = "isOwner"]
<1>1. r \in Request
  BY TenancyAssumption DEF Inv, TypeOK, Idle, Request, PCs, Ops, MemberTypes
<1>2. RequestOK(r, granted, titles)
  BY <1>1, TenancyAssumption
  DEF Delete, Inv, TypeOK, SlugsAreGranted, Exists, Idle, MemberTypes, Ops,
      RequestOK, CallFits, RowGranted, Entitled
<1>3. req' = [req EXCEPT ![p] = r] /\ UNCHANGED <<db, granted, titles>>
  BY DEF Delete, Begin
<1>4. req' \in [Procs -> Request] /\ RequestsOK'
  BY <1>1, <1>2, <1>3, RequestsKept
<1>5. QED
  BY <1>3, <1>4, TablesUntouched

LEMMA AddMemberStep ==
  ASSUME Inv, NEW p \in Procs, NEW u \in Users, NEW t \in Tenants, NEW v \in Users, NEW k \in MemberTypes,
         AddMember(p, u, t, v, k)
  PROVE  Inv'
<1> DEFINE r == [Idle EXCEPT !.op = "addMember", !.user = u, !.tid = t,
                           !.target = v, !.kind = k, !.pc = "isOwner"]
<1>1. r \in Request
  BY TenancyAssumption DEF Inv, TypeOK, Idle, Request, PCs, Ops, MemberTypes
<1>2. RequestOK(r, granted, titles)
  BY <1>1, TenancyAssumption
  DEF AddMember, Inv, TypeOK, SlugsAreGranted, Exists, Idle, MemberTypes, Ops,
      RequestOK, CallFits, RowGranted, Entitled
<1>3. req' = [req EXCEPT ![p] = r] /\ UNCHANGED <<db, granted, titles>>
  BY DEF AddMember, Begin
<1>4. req' \in [Procs -> Request] /\ RequestsOK'
  BY <1>1, <1>2, <1>3, RequestsKept
<1>5. QED
  BY <1>3, <1>4, TablesUntouched

LEMMA LoadByTenantSlugStep ==
  ASSUME Inv, NEW p \in Procs, NEW s \in Slugs,
         LoadByTenantSlug(p, s)
  PROVE  Inv'
<1> DEFINE r == [Idle EXCEPT !.op = "load", !.slug = s,
                           !.pc = IF s = DefaultSlug THEN "ensureDefault" ELSE "resolve"]
<1>1. r \in Request
  BY TenancyAssumption DEF Inv, TypeOK, Idle, Request, PCs, Ops, MemberTypes
<1>2. RequestOK(r, granted, titles)
  BY <1>1, TenancyAssumption
  DEF LoadByTenantSlug, Inv, TypeOK, SlugsAreGranted, Exists, Idle, MemberTypes, Ops,
      RequestOK, CallFits, RowGranted, Entitled
<1>3. req' = [req EXCEPT ![p] = r] /\ UNCHANGED <<db, granted, titles>>
  BY DEF LoadByTenantSlug, Begin
<1>4. req' \in [Procs -> Request] /\ RequestsOK'
  BY <1>1, <1>2, <1>3, RequestsKept
<1>5. QED
  BY <1>3, <1>4, TablesUntouched

LEMMA CreateQuotaStep ==
  ASSUME Inv, NEW p \in Procs, CreateQuota(p)
  PROVE  Inv'
<1>1. req \in [Procs -> Request] /\ RequestOK(req[p], granted, titles)
  BY DEF Inv, TypeOK, RequestsOK
<1>2. UNCHANGED <<db, granted, titles>>
  BY DEF CreateQuota
<1>3. CASE users[req[p].user] = "live" /\ WithinQuota(req[p].user)
  <2> DEFINE pc == "storeTenant"
  <2>1. pc \in PCs /\ Goto(p, pc)
    BY <1>1, <1>3 DEF CreateQuota, At, PCs, RequestOK, CallFits
  <2>2. RequestOK([req[p] EXCEPT !.pc = pc], granted, titles)
    BY <1>1, <1>3, TenancyAssumption
    DEF CreateQuota, At, Request, RequestOK, CallFits, RowGranted, Entitled
  <2>3. req' \in [Procs -> Request] /\ RequestsOK'
    BY <1>2, <2>1, <2>2, GotoKeeps DEF RequestOK
  <2>4. QED
    BY <1>2, <2>3, TablesUntouched
<1>4. CASE ~(users[req[p].user] = "live" /\ WithinQuota(req[p].user))
  <2>1. Finish(p)
    BY <1>1, <1>4 DEF CreateQuota, At, RequestOK, CallFits
  <2>2. req' \in [Procs -> Request] /\ RequestsOK'
    BY <1>2, <2>1, FinishKeeps
  <2>3. QED
    BY <1>2, <2>2, TablesUntouched
<1>5. QED
  BY <1>3, <1>4

LEMMA GetBySlugStep ==
  ASSUME Inv, NEW p \in Procs, GetBySlug(p)
  PROVE  Inv'
<1>1. req \in [Procs -> Request] /\ RequestOK(req[p], granted, titles)
  BY DEF Inv, TypeOK, RequestsOK
<1>2. UNCHANGED <<db, granted, titles>>
  BY DEF GetBySlug
<1>3. CASE ~(req[p].slug = None \/ Taken(req[p].slug))
  <2> DEFINE pc == IF req[p].op = "register" THEN "storeTenant" ELSE "storeUser"
  <2>1. pc \in PCs /\ Goto(p, pc)
    BY <1>1, <1>3 DEF GetBySlug, At, PCs, RequestOK, CallFits
  <2>2. RequestOK([req[p] EXCEPT !.pc = pc], granted, titles)
    BY <1>1, <1>3, TenancyAssumption
    DEF GetBySlug, At, Request, RequestOK, CallFits, RowGranted, Entitled
  <2>3. req' \in [Procs -> Request] /\ RequestsOK'
    BY <1>2, <2>1, <2>2, GotoKeeps DEF RequestOK
  <2>4. QED
    BY <1>2, <2>3, TablesUntouched
<1>4. CASE ~(~(req[p].slug = None \/ Taken(req[p].slug)))
  <2>1. Finish(p)
    BY <1>1, <1>4 DEF GetBySlug, At, RequestOK, CallFits
  <2>2. req' \in [Procs -> Request] /\ RequestsOK'
    BY <1>2, <2>1, FinishKeeps
  <2>3. QED
    BY <1>2, <2>2, TablesUntouched
<1>5. QED
  BY <1>3, <1>4

LEMMA AddMemberGetUserStep ==
  ASSUME Inv, NEW p \in Procs, AddMemberGetUser(p)
  PROVE  Inv'
<1>1. req \in [Procs -> Request] /\ RequestOK(req[p], granted, titles)
  BY DEF Inv, TypeOK, RequestsOK
<1>2. UNCHANGED <<db, granted, titles>>
  BY DEF AddMemberGetUser
<1>3. CASE users[req[p].target] = "live"
  <2> DEFINE pc == "storeMember"
  <2>1. pc \in PCs /\ Goto(p, pc)
    BY <1>1, <1>3 DEF AddMemberGetUser, At, PCs, RequestOK, CallFits
  <2>2. RequestOK([req[p] EXCEPT !.pc = pc], granted, titles)
    BY <1>1, <1>3, TenancyAssumption
    DEF AddMemberGetUser, At, Request, RequestOK, CallFits, RowGranted, Entitled
  <2>3. req' \in [Procs -> Request] /\ RequestsOK'
    BY <1>2, <2>1, <2>2, GotoKeeps DEF RequestOK
  <2>4. QED
    BY <1>2, <2>3, TablesUntouched
<1>4. CASE ~(users[req[p].target] = "live")
  <2>1. Finish(p)
    BY <1>1, <1>4 DEF AddMemberGetUser, At, RequestOK, CallFits
  <2>2. req' \in [Procs -> Request] /\ RequestsOK'
    BY <1>2, <2>1, FinishKeeps
  <2>3. QED
    BY <1>2, <2>2, TablesUntouched
<1>5. QED
  BY <1>3, <1>4

LEMMA EnsureTenantManageableStep ==
  ASSUME Inv, NEW p \in Procs, EnsureTenantManageable(p)
  PROVE  Inv'
<1>1. req \in [Procs -> Request] /\ RequestOK(req[p], granted, titles)
  BY DEF Inv, TypeOK, RequestsOK
<1>2. UNCHANGED <<db, granted, titles>>
  BY DEF EnsureTenantManageable
<1>3. CASE Manageable(req[p].user, req[p].tid) /\ AfterAuthorisation(req[p]) # "idle"
  <2> DEFINE pc == AfterAuthorisation(req[p])
  <2>1. pc \in PCs /\ Goto(p, pc)
    BY <1>1, <1>3 DEF EnsureTenantManageable, At, PCs, RequestOK, CallFits, AfterAuthorisation, Manageable, Inv, TypeOK, OwnersOnRecord, Request
  <2>2. RequestOK([req[p] EXCEPT !.pc = pc], granted, titles)
    BY <1>1, <1>3, TenancyAssumption
    DEF EnsureTenantManageable, At, Request, RequestOK, CallFits, RowGranted, Entitled, AfterAuthorisation, Manageable, Inv, TypeOK, OwnersOnRecord, Request
  <2>3. req' \in [Procs -> Request] /\ RequestsOK'
    BY <1>2, <2>1, <2>2, GotoKeeps DEF RequestOK
  <2>4. QED
    BY <1>2, <2>3, TablesUntouched
<1>4. CASE ~(Manageable(req[p].user, req[p].tid) /\ AfterAuthorisation(req[p]) # "idle")
  <2>1. Finish(p)
    BY <1>1, <1>4 DEF EnsureTenantManageable, At, RequestOK, CallFits, AfterAuthorisation, Manageable, Inv, TypeOK, OwnersOnRecord, Request
  <2>2. req' \in [Procs -> Request] /\ RequestsOK'
    BY <1>2, <2>1, FinishKeeps
  <2>3. QED
    BY <1>2, <2>2, TablesUntouched
<1>5. QED
  BY <1>3, <1>4

-----------------------------------------------------------------------------
(* The steps that write a table: what they do to the requests first, then    *)
(* to the tables.                                                          *)

LEMMA StoreUserStep ==
  ASSUME Inv, NEW p \in Procs, StoreUser(p)
  PROVE  Inv'
<1>1. req \in [Procs -> Request] /\ RequestOK(req[p], granted, titles)
  BY DEF Inv, TypeOK, RequestsOK
<1>2. UNCHANGED <<slugOf, members, configs, granted, titles>>
  BY DEF StoreUser
<1>3. req' \in [Procs -> Request] /\ RequestsOK'
  <2>1. CASE users[req[p].user] = "absent"
    <3> DEFINE pc == IF req[p].op = "register" THEN "getBySlug" ELSE "storeTenant"
    <3>1. pc \in PCs /\ Goto(p, pc)
      BY <2>1 DEF StoreUser, PCs
    <3>2. RequestOK([req[p] EXCEPT !.pc = pc], granted, titles)
      BY <1>1 DEF StoreUser, At, Request, RequestOK, CallFits, RowGranted, Entitled
    <3>3. QED
      BY <1>2, <3>1, <3>2, GotoKeeps DEF RequestOK
  <2>2. CASE users[req[p].user] # "absent"
    BY <1>2, <2>2, FinishKeeps DEF StoreUser
  <2>3. QED
    BY <2>1, <2>2
<1>4. users' \in [Users -> {"absent", "live", "deleted"}]
  BY DEF StoreUser, Inv, TypeOK
<1>5. QED
  BY <1>2, <1>3, <1>4
  DEF Inv, TypeOK, SlugsAreGranted, OwnersOnRecord, DefaultTenantKept, Exists

LEMMA StoreTenantStep ==
  ASSUME Inv, NEW p \in Procs, StoreTenant(p)
  PROVE  Inv'
<1>1. /\ req \in [Procs -> Request] /\ RequestOK(req[p], granted, titles)
      /\ req[p].tid \in Tenants /\ req[p].slug \in Slugs
  BY DEF StoreTenant, At, Inv, TypeOK, RequestsOK, RequestOK, CallFits, Request
<1>2. UNCHANGED <<users, members, configs, titles>>
  BY DEF StoreTenant
<1>3. CASE Taken(req[p].slug)
  <2>1. Finish(p) /\ UNCHANGED <<db, granted, titles>>
    BY <1>3 DEF StoreTenant, db
  <2>2. req' \in [Procs -> Request] /\ RequestsOK'
    BY <2>1, FinishKeeps
  <2>3. QED
    BY <2>1, <2>2, TablesUntouched
<1>4. CASE ~Taken(req[p].slug)
  <2>1. /\ slugOf' = [slugOf EXCEPT ![req[p].tid] = req[p].slug]
        /\ granted' = granted \cup {<<req[p].tid, req[p].slug>>}
        /\ Goto(p, "storeOwner")
    BY <1>4 DEF StoreTenant
  <2>2. RequestOK([req[p] EXCEPT !.pc = "storeOwner"], granted, titles)
    BY <1>1 DEF StoreTenant, At, Request, RequestOK, CallFits, RowGranted, Entitled
  <2>3. req' \in [Procs -> Request] /\ RequestsOK'
    BY <1>2, <2>1, <2>2, GotoKeeps DEF RequestOK, PCs
  <2>4. slugOf' \in [Tenants -> Slugs \cup {None}] /\ granted' \subseteq Tenants \X Slugs
    BY <1>1, <2>1 DEF Inv, TypeOK
  <2>5. SlugsAreGranted' /\ DefaultTenantKept'
    BY <1>1, <2>1, TenancyAssumption
    DEF Inv, TypeOK, SlugsAreGranted, DefaultTenantKept, Exists
  <2>6. QED
    BY <1>2, <2>3, <2>4, <2>5 DEF Inv, TypeOK, OwnersOnRecord
<1>5. QED
  BY <1>3, <1>4

(* The upsert of a member row keeps the tables' part of the invariant. *)
LEMMA UpsertKeeps ==
  ASSUME Inv, NEW t \in Tenants, NEW u \in Users, NEW kind \in MemberTypes,
         Upsert(t, u, kind), UNCHANGED <<users, slugOf, configs, granted>>,
         req' \in [Procs -> Request], RequestsOK'
  PROVE  Inv'
<1>1. members' \in [Tenants -> [Users -> MemberTypes \cup {"none"}]]
  BY DEF Upsert, Inv, TypeOK
<1>2. titles' \subseteq Tenants \X Users
  BY DEF Upsert, Inv, TypeOK
<1>3. OwnersOnRecord'
  BY DEF Upsert, Inv, TypeOK, OwnersOnRecord
<1>4. QED
  BY <1>1, <1>2, <1>3 DEF Inv, TypeOK, SlugsAreGranted, DefaultTenantKept, Exists

LEMMA StoreOwnerStep ==
  ASSUME Inv, NEW p \in Procs, StoreOwner(p)
  PROVE  Inv'
<1>1. req[p].tid \in Tenants /\ req[p].user \in Users
  BY DEF StoreOwner, At, Inv, TypeOK, RequestsOK, RequestOK, CallFits, Request
<1>2. titles \subseteq titles'
  BY DEF StoreOwner, Upsert
<1>3. req' \in [Procs -> Request] /\ RequestsOK'
  BY <1>2, FinishKeeps DEF StoreOwner
<1>4. QED
  BY <1>1, <1>3, UpsertKeeps DEF StoreOwner, MemberTypes

LEMMA StoreMemberStep ==
  ASSUME Inv, NEW p \in Procs, StoreMember(p)
  PROVE  Inv'
<1>1. req[p].tid \in Tenants /\ req[p].target \in Users /\ req[p].kind \in MemberTypes
  BY DEF StoreMember, At, Inv, TypeOK, RequestsOK, RequestOK, CallFits, Request
<1>2. titles \subseteq titles'
  BY DEF StoreMember, Upsert
<1>3. req' \in [Procs -> Request] /\ RequestsOK'
  BY <1>2, FinishKeeps DEF StoreMember
<1>4. QED
  BY <1>1, <1>3, UpsertKeeps DEF StoreMember

LEMMA UpdateCheckSlugStep ==
  ASSUME Inv, NEW p \in Procs, UpdateCheckSlug(p)
  PROVE  Inv'
<1>1. req \in [Procs -> Request] /\ RequestOK(req[p], granted, titles)
  BY DEF Inv, TypeOK, RequestsOK
<1>2. UNCHANGED <<db, granted, titles>>
  BY DEF UpdateCheckSlug
<1>3. req' \in [Procs -> Request] /\ RequestsOK'
  <2>1. CASE SlugAcceptable(req[p])
    <3> DEFINE r == [req[p] EXCEPT !.row = req[p].slug, !.pc = "save"]
    <3>1. req' = [req EXCEPT ![p] = r]
      BY <1>1, <2>1 DEF UpdateCheckSlug
    <3>2. r \in Request
      <4>1. req[p] \in Request /\ r.pc \in PCs
        BY <1>1 DEF PCs, Request
      <4>2. QED
        BY <4>1 DEF Request
    <3>3. RequestOK(r, granted, titles)
      BY <1>1, <2>1
      DEF UpdateCheckSlug, SlugAcceptable, At, Request, RequestOK, CallFits, RowGranted, Entitled
    <3>4. QED
      BY <1>2, <3>1, <3>2, <3>3, RequestsKept
  <2>2. CASE ~SlugAcceptable(req[p])
    BY <1>2, <2>2, FinishKeeps DEF UpdateCheckSlug
  <2>3. QED
    BY <2>1, <2>2
<1>4. QED
  BY <1>2, <1>3, TablesUntouched

LEMMA UpdateSaveStep ==
  ASSUME Inv, NEW p \in Procs, UpdateSave(p)
  PROVE  Inv'
<1>1. /\ req[p].tid \in Tenants
      /\ granted \subseteq Tenants \X Slugs
      /\ RowGranted(req[p], granted) /\ req[p].op = "update" /\ req[p].pc = "save"
      /\ req[p].row \in Slugs
  BY DEF UpdateSave, At, Inv, TypeOK, RequestsOK, RequestOK, CallFits, RowGranted, Request
<1>2. UNCHANGED <<users, members, configs, titles>> /\ granted \subseteq granted'
  BY DEF UpdateSave
<1>3. req' \in [Procs -> Request] /\ RequestsOK'
  BY <1>2, FinishKeeps DEF UpdateSave
<1>4. /\ slugOf' \in [Tenants -> Slugs \cup {None}] /\ granted' \subseteq Tenants \X Slugs
      /\ DefaultTenantKept'
  BY <1>1, TenancyAssumption DEF UpdateSave, Inv, TypeOK, DefaultTenantKept, Exists
<1>5. SlugsAreGranted'
  BY <1>1, <1>2 DEF UpdateSave, RowGranted, Inv, TypeOK, SlugsAreGranted, Exists
<1>6. QED
  BY <1>2, <1>3, <1>4, <1>5 DEF Inv, TypeOK, OwnersOnRecord

LEMMA DeleteTenantStep ==
  ASSUME Inv, NEW p \in Procs, DeleteTenant(p)
  PROVE  Inv'
<1>1. UNCHANGED <<users, configs, granted, titles>>
  BY DEF DeleteTenant
<1>2. req' \in [Procs -> Request] /\ RequestsOK'
  BY <1>1, FinishKeeps DEF DeleteTenant
<1>3. /\ slugOf' \in [Tenants -> Slugs \cup {None}]
      /\ members' \in [Tenants -> [Users -> MemberTypes \cup {"none"}]]
  <2>1. [u \in Users |-> "none"] \in [Users -> MemberTypes \cup {"none"}]
    OBVIOUS
  <2>2. /\ slugOf \in [Tenants -> Slugs \cup {None}]
        /\ members \in [Tenants -> [Users -> MemberTypes \cup {"none"}]]
    BY DEF Inv, TypeOK
  <2>3. slugOf' \in [Tenants -> Slugs \cup {None}]
    BY <2>2 DEF DeleteTenant
  <2>4. members' \in [Tenants -> [Users -> MemberTypes \cup {"none"}]]
    <3> DEFINE none == [u \in Users |-> "none"]
    <3>1. members' = [members EXCEPT ![req[p].tid] = none] \/ members' = members
      BY DEF DeleteTenant
    <3>2. none \in [Users -> MemberTypes \cup {"none"}]
      BY <2>1
    <3> HIDE DEF none
    <3>3. QED
      BY <2>2, <3>1, <3>2
  <2>5. QED
    BY <2>3, <2>4
<1>4. SlugsAreGranted'
  BY <1>1 DEF DeleteTenant, Inv, TypeOK, SlugsAreGranted, Exists
<1>5. OwnersOnRecord'
  BY <1>1 DEF DeleteTenant, Inv, TypeOK, OwnersOnRecord
<1>6. DefaultTenantKept'
  BY DEF DeleteTenant, Deletable, Inv, TypeOK, DefaultTenantKept, Exists
<1>7. QED
  BY <1>1, <1>2, <1>3, <1>4, <1>5, <1>6 DEF Inv, TypeOK

LEMMA EnsureDefaultTenantStep ==
  ASSUME Inv, NEW p \in Procs, EnsureDefaultTenant(p)
  PROVE  Inv'
<1>1. req \in [Procs -> Request] /\ RequestOK(req[p], granted, titles)
  BY DEF Inv, TypeOK, RequestsOK
<1>2. UNCHANGED <<users, members, configs, titles>> /\ granted \subseteq granted'
  BY DEF EnsureDefaultTenant
<1>3. RequestOK([req[p] EXCEPT !.pc = "resolve"], granted, titles)
  BY <1>1 DEF EnsureDefaultTenant, At, Request, RequestOK, CallFits, RowGranted, Entitled
<1>4. req' \in [Procs -> Request] /\ RequestsOK'
  BY <1>2, <1>3, GotoKeeps DEF EnsureDefaultTenant, RequestOK, PCs
<1>5. /\ slugOf' \in [Tenants -> Slugs \cup {None}] /\ granted' \subseteq Tenants \X Slugs
      /\ SlugsAreGranted' /\ DefaultTenantKept'
  BY TenancyAssumption
  DEF EnsureDefaultTenant, Inv, TypeOK, SlugsAreGranted, DefaultTenantKept, Exists
<1>6. QED
  BY <1>2, <1>4, <1>5 DEF Inv, TypeOK, OwnersOnRecord

LEMMA ResolveTenantIDBySlugStep ==
  ASSUME Inv, NEW p \in Procs, ResolveTenantIDBySlug(p)
  PROVE  Inv'
<1>1. req \in [Procs -> Request] /\ RequestOK(req[p], granted, titles)
  BY DEF Inv, TypeOK, RequestsOK
<1>2. UNCHANGED <<db, granted, titles>>
  BY DEF ResolveTenantIDBySlug
<1>3. req' \in [Procs -> Request] /\ RequestsOK'
  <2>1. CASE Finish(p)
    BY <1>2, <2>1, FinishKeeps
  <2>2. ASSUME NEW t \in Tenants,
               req' = [req EXCEPT ![p].tid = t, ![p].pc = "saveConfig"]
        PROVE  req' \in [Procs -> Request] /\ RequestsOK'
    <3> DEFINE r == [req[p] EXCEPT !.tid = t, !.pc = "saveConfig"]
    <3>1. req' = [req EXCEPT ![p] = r]
      BY <1>1, <2>2
    <3>2. r \in Request
      <4>1. req[p] \in Request /\ r.pc \in PCs
        BY <1>1 DEF PCs, Request
      <4>2. QED
        BY <4>1 DEF Request
    <3>3. RequestOK(r, granted, titles)
      BY <1>1, TenancyAssumption
      DEF ResolveTenantIDBySlug, At, Request, RequestOK, CallFits, RowGranted, Entitled
    <3>4. QED
      BY <1>2, <3>1, <3>2, <3>3, RequestsKept
  <2>3. QED
    BY <2>1, <2>2 DEF ResolveTenantIDBySlug
<1>4. QED
  BY <1>2, <1>3, TablesUntouched

LEMMA SaveByTenantIDStep ==
  ASSUME Inv, NEW p \in Procs, SaveByTenantID(p)
  PROVE  Inv'
<1>1. req[p].tid \in Tenants
  BY DEF SaveByTenantID, At, Inv, TypeOK, RequestsOK, RequestOK, CallFits, Request
<1>2. UNCHANGED <<users, slugOf, members, granted, titles>>
  BY DEF SaveByTenantID
<1>3. req' \in [Procs -> Request] /\ RequestsOK'
  BY <1>2, FinishKeeps DEF SaveByTenantID
<1>4. configs' \subseteq Tenants /\ Default \in configs'
  BY <1>1 DEF SaveByTenantID, Inv, TypeOK
<1>5. QED
  BY <1>2, <1>3, <1>4
  DEF Inv, TypeOK, SlugsAreGranted, OwnersOnRecord, DefaultTenantKept, Exists

LEMMA FailStep ==
  ASSUME Inv, NEW p \in Procs, Fail(p)
  PROVE  Inv'
BY FinishKeeps, TablesUntouched DEF Fail

LEMMA DeleteUserStep ==
  ASSUME Inv, NEW u \in Users, DeleteUser(u)
  PROVE  Inv'
BY DEF DeleteUser, Inv, TypeOK, RequestsOK, SlugsAreGranted, OwnersOnRecord,
       DefaultTenantKept, Exists

-----------------------------------------------------------------------------
LEMMA InvInit == Init => Inv
<1> SUFFICES ASSUME Init PROVE Inv
  OBVIOUS
<1>1. Idle \in Request /\ RequestOK(Idle, granted, titles)
  BY DEF Idle, Request, PCs, Ops, MemberTypes, RequestOK, CallFits, RowGranted, Entitled
<1>2. TypeOK
  BY <1>1, TenancyAssumption DEF Init, TypeOK, MemberTypes
<1>3. RequestsOK
  BY <1>1 DEF Init, RequestsOK
<1>4. SlugsAreGranted /\ OwnersOnRecord /\ DefaultTenantKept /\ Default \in configs
  BY TenancyAssumption DEF Init, SlugsAreGranted, OwnersOnRecord, DefaultTenantKept, Exists
<1>5. QED
  BY <1>2, <1>3, <1>4 DEF Inv

LEMMA InvStep == Inv /\ [Next]_vars => Inv'
<1> SUFFICES ASSUME Inv, [Next]_vars PROVE Inv'
  OBVIOUS
<1>1. CASE UNCHANGED vars
  BY <1>1, TablesUntouched DEF vars, db, Inv, TypeOK, RequestsOK
<1>2. ASSUME NEW p \in Procs, Arrive(p)
      PROVE  Inv'
  BY <1>2, CreateStep, RegisterUserStep, LoginWithGoogleStep, UpdateStep,
     DeleteStep, AddMemberStep, LoadByTenantSlugStep DEF Arrive
<1>3. ASSUME NEW p \in Procs, Proceed(p)
      PROVE  Inv'
  BY <1>3, CreateQuotaStep, StoreUserStep, GetBySlugStep, StoreTenantStep,
     StoreOwnerStep, EnsureTenantManageableStep, UpdateCheckSlugStep,
     UpdateSaveStep, DeleteTenantStep, AddMemberGetUserStep, StoreMemberStep,
     EnsureDefaultTenantStep, ResolveTenantIDBySlugStep, SaveByTenantIDStep
  DEF Proceed
<1>4. QED
  BY <1>1, <1>2, <1>3, FailStep, DeleteUserStep DEF Next

(* Type correctness, and that requests, however stale, stay in order: the  *)
(* tables and every request in flight satisfy Inv in every state.          *)
THEOREM InvHolds == Spec => []Inv
BY InvInit, InvStep, PTL DEF Spec

(* Every table and request is well typed in every reachable state. *)
THEOREM TypeCorrect == Spec => []TypeOK
<1>1. Inv => TypeOK
  BY DEF Inv
<1>2. QED
  BY <1>1, InvHolds, PTL

(* No interleaving of regular users' Updates, Saves of stale rows included, *)
(* gives a tenant a slug it was not granted.                                *)
THEOREM SlugsGranted == Spec => []SlugsAreGranted
<1>1. Inv => SlugsAreGranted
  BY DEF Inv
<1>2. QED
  BY <1>1, InvHolds, PTL

(* The default tenant is never deleted, whatever it is renamed to. *)
THEOREM DefaultKept == Spec => []DefaultTenantKept
<1>1. Inv => DefaultTenantKept
  BY DEF Inv
<1>2. QED
  BY <1>1, InvHolds, PTL

(* The members of a tenant and its existence change only for its creator or *)
(* a manager past or present, and a tenant with a configuration never goes. *)
THEOREM ChangesAuthorised == Spec => ChangesAreAuthorised
<1> DEFINE Authorised ==
      \A t \in Tenants :
        /\ members'[t] # members[t] =>
             \E p \in Procs :
                \/ ActsForManager(p, t)
                \/ /\ At(p, "storeOwner") /\ req[p].tid = t
                   /\ members'[t] = [members[t] EXCEPT ![req[p].user] = "owner"]
        /\ slugOf'[t] = None /\ Exists(t) =>
             t \notin configs /\ \E p \in Procs : ActsForManager(p, t)
<1>1. ASSUME Inv, NEW p \in Procs, Proceed(p)
      PROVE  Authorised
  <2>1. /\ req[p] \in Request /\ RequestOK(req[p], granted, titles)
        /\ slugOf \in [Tenants -> Slugs \cup {None}]
        /\ members \in [Tenants -> [Users -> MemberTypes \cup {"none"}]]
        /\ granted \subseteq Tenants \X Slugs
    BY <1>1 DEF Inv, TypeOK, RequestsOK
  <2>2. CASE UNCHANGED <<slugOf, members>>
    BY <2>2 DEF Exists
  <2>3. CASE StoreTenant(p)
    BY <2>1, <2>3, TenancyAssumption
    DEF StoreTenant, At, Exists, RequestOK, CallFits
  <2>4. CASE StoreOwner(p)
    BY <2>1, <2>4 DEF StoreOwner, Upsert, At, Exists
  <2>5. CASE UpdateSave(p)
    BY <2>1, <2>5, TenancyAssumption
    DEF UpdateSave, At, Exists, RequestOK, CallFits, RowGranted
  <2>6. CASE DeleteTenant(p)
    BY <2>1, <2>6
    DEF DeleteTenant, Deletable, At, Exists, ActsForManager, RequestOK, Entitled
  <2>7. CASE StoreMember(p)
    BY <2>1, <2>7
    DEF StoreMember, Upsert, At, Exists, ActsForManager, RequestOK, Entitled
  <2>8. CASE EnsureDefaultTenant(p)
    BY <2>1, <2>8, TenancyAssumption DEF EnsureDefaultTenant, Exists
  <2>9. QED
    BY <1>1, <2>2, <2>3, <2>4, <2>5, <2>6, <2>7, <2>8
    DEF Proceed, CreateQuota, StoreUser, GetBySlug, EnsureTenantManageable,
        UpdateCheckSlug, AddMemberGetUser, ResolveTenantIDBySlug, SaveByTenantID, db
<1>2. ASSUME Inv, Next
      PROVE  Authorised
  <2>1. CASE UNCHANGED <<slugOf, members>>
    BY <2>1 DEF Exists
  <2>2. CASE \E p \in Procs : Proceed(p)
    BY <1>1, <1>2, <2>2
  <2>3. QED
    BY <1>2, <2>1, <2>2
    DEF Next, Arrive, Create, RegisterUser, LoginWithGoogle, Update, Delete,
        AddMember, LoadByTenantSlug, Fail, DeleteUser, db
<1>3. Inv /\ [Next]_vars => [Authorised]_vars
  BY <1>2
<1>4. QED
  BY <1>3, InvHolds, PTL DEF Spec, ChangesAreAuthorised

-----------------------------------------------------------------------------
(* The quota *)

(* A step that moves nobody past the quota and appoints no owner. *)
LEMMA BoundKept ==
  ASSUME IsFiniteSet(Procs), IsFiniteSet(Tenants), TypeOK, QuotaOvershootBounded,
         NEW u \in Users \ Admins, Limit[u] >= 0,
         OwnedBy(u)' \subseteq OwnedBy(u), Creating(u)' \subseteq Creating(u)
  PROVE  Cardinality(OwnedBy(u)') + Cardinality(Creating(u)') <= QuotaBound(u)
<1>1. IsFiniteSet(OwnedBy(u)) /\ IsFiniteSet(Creating(u))
  BY FS_Subset DEF OwnedBy, Creating
<1>2. /\ Cardinality(OwnedBy(u)') <= Cardinality(OwnedBy(u))
      /\ Cardinality(Creating(u)') <= Cardinality(Creating(u))
  BY <1>1, FS_Subset
<1>3. /\ Cardinality(OwnedBy(u)) \in Nat /\ Cardinality(OwnedBy(u)') \in Nat
      /\ Cardinality(Creating(u)) \in Nat /\ Cardinality(Creating(u)') \in Nat
      /\ Cardinality(Procs) \in Nat
  BY <1>1, FS_CardinalityType, FS_Subset
<1>4. QuotaBound(u) \in Int
  BY <1>3, TenancyAssumption DEF QuotaBound
<1>5. Cardinality(OwnedBy(u)) + Cardinality(Creating(u)) <= QuotaBound(u)
  BY DEF QuotaOvershootBounded
<1>6. QED
  BY <1>2, <1>3, <1>4, <1>5

(* The owner row of p's creation: p leaves Creating as the tenant joins. *)
LEMMA BoundTraded ==
  ASSUME IsFiniteSet(Procs), IsFiniteSet(Tenants), TypeOK, QuotaOvershootBounded,
         NEW u \in Users \ Admins, Limit[u] >= 0,
         NEW p \in Creating(u), NEW t \in Tenants,
         OwnedBy(u)' \subseteq OwnedBy(u) \cup {t},
         Creating(u)' \subseteq Creating(u) \ {p}
  PROVE  Cardinality(OwnedBy(u)') + Cardinality(Creating(u)') <= QuotaBound(u)
<1>1. IsFiniteSet(OwnedBy(u)) /\ IsFiniteSet(Creating(u))
  BY FS_Subset DEF OwnedBy, Creating
<1>2. /\ IsFiniteSet(OwnedBy(u) \cup {t})
      /\ \/ Cardinality(OwnedBy(u) \cup {t}) = Cardinality(OwnedBy(u))
         \/ Cardinality(OwnedBy(u) \cup {t}) = Cardinality(OwnedBy(u)) + 1
  BY <1>1, FS_AddElement
<1>3. /\ IsFiniteSet(Creating(u) \ {p})
      /\ Cardinality(Creating(u) \ {p}) = Cardinality(Creating(u)) - 1
  BY <1>1, FS_RemoveElement
<1>4. /\ Cardinality(OwnedBy(u)') <= Cardinality(OwnedBy(u) \cup {t})
      /\ IsFiniteSet(OwnedBy(u)')
  BY <1>2, FS_Subset
<1>5. /\ Cardinality(Creating(u)') <= Cardinality(Creating(u) \ {p})
      /\ IsFiniteSet(Creating(u)')
  BY <1>3, FS_Subset
<1>6. /\ Cardinality(OwnedBy(u)) \in Nat /\ Cardinality(OwnedBy(u)') \in Nat
      /\ Cardinality(Creating(u)) \in Nat /\ Cardinality(Creating(u)') \in Nat
      /\ Cardinality(Procs) \in Nat
  BY <1>1, <1>4, <1>5, FS_CardinalityType
<1>7. QuotaBound(u) \in Int
  BY <1>6, TenancyAssumption DEF QuotaBound
<1>8. Cardinality(OwnedBy(u)) + Cardinality(Creating(u)) <= QuotaBound(u)
  BY DEF QuotaOvershootBounded
<1>9. QED
  BY <1>2, <1>3, <1>4, <1>5, <1>6, <1>7, <1>8

(* The account a registration stores owned nothing and created nothing. *)
LEMMA BoundOfNewAccount ==
  ASSUME IsFiniteSet(Procs), NEW u \in Users \ Admins, Limit[u] >= 0,
         NEW p \in Procs, OwnedBy(u)' = {}, Creating(u)' \subseteq {p}
  PROVE  Cardinality(OwnedBy(u)') + Cardinality(Creating(u)') <= QuotaBound(u)
<1>1. Cardinality(OwnedBy(u)') = 0
  BY FS_EmptySet
<1>2. /\ Cardinality({p}) = 1 /\ IsFiniteSet({p})
      /\ Cardinality(Creating(u)') <= Cardinality({p})
      /\ IsFiniteSet(Creating(u)')
  BY FS_Singleton, FS_Subset
<1>3. Cardinality({p}) <= Cardinality(Procs)
  BY FS_Subset
<1>4. Cardinality(Procs) \in Nat /\ Cardinality(Creating(u)') \in Nat
  BY <1>2, FS_CardinalityType
<1>5. Limit[u] \in Int
  BY TenancyAssumption
<1>6. 1 <= QuotaBound(u) /\ QuotaBound(u) \in Int
  BY <1>2, <1>3, <1>4, <1>5 DEF QuotaBound
<1>7. QED
  BY <1>1, <1>2, <1>4, <1>6

(* A creation the quota lets through: the user owned less than the limit. *)
LEMMA BoundOfCreation ==
  ASSUME IsFiniteSet(Procs), IsFiniteSet(Tenants),
         NEW u \in Users \ Admins, Limit[u] >= 0, WithinQuota(u),
         OwnedBy(u)' = OwnedBy(u)
  PROVE  Cardinality(OwnedBy(u)') + Cardinality(Creating(u)') <= QuotaBound(u)
<1>1. IsFiniteSet(OwnedBy(u)) /\ IsFiniteSet(Creating(u)')
  BY FS_Subset DEF OwnedBy, Creating
<1>2. Cardinality(Creating(u)') <= Cardinality(Procs)
  BY FS_Subset DEF Creating
<1>3. /\ Cardinality(OwnedBy(u)) \in Nat
      /\ Cardinality(Creating(u)') \in Nat /\ Cardinality(Procs) \in Nat
  BY <1>1, FS_CardinalityType
<1>4. Limit[u] \in Int
  BY TenancyAssumption
<1>5. Cardinality(OwnedBy(u)) < Limit[u]
  BY <1>4 DEF WithinQuota
<1>6. QED
  BY <1>2, <1>3, <1>4, <1>5 DEF QuotaBound

-----------------------------------------------------------------------------
(* A call leaves the other requests alone, and its own keeps its operation *)
(* and its user until it ends.                                             *)
LEMMA CallsKeepTheirUser ==
  ASSUME Inv, NEW p \in Procs, Proceed(p)
  PROVE  /\ req' \in [Procs -> Request]
         /\ \A q \in Procs \ {p} : req'[q] = req[q]
         /\ \/ req'[p] = Idle
            \/ req'[p].op = req[p].op /\ req'[p].user = req[p].user
<1>1. req \in [Procs -> Request]
  BY DEF Inv, TypeOK
<1>2. Inv'
  BY InvStep DEF Next
<1>3. req' \in [Procs -> Request]
  BY <1>2 DEF Inv, TypeOK
<1>4. CASE Finish(p)
  BY <1>1, <1>3, <1>4 DEF Finish
<1>5. CASE \E pc : Goto(p, pc)
  BY <1>1, <1>3, <1>5 DEF Goto, Request
<1>6. CASE UpdateCheckSlug(p)
  BY <1>1, <1>3, <1>6 DEF UpdateCheckSlug, Finish, Request
<1>7. CASE ResolveTenantIDBySlug(p)
  <2>1. ASSUME NEW t \in Tenants, req' = [req EXCEPT ![p].tid = t, ![p].pc = "saveConfig"]
        PROVE  /\ \A q \in Procs \ {p} : req'[q] = req[q]
               /\ req'[p].op = req[p].op /\ req'[p].user = req[p].user
    BY <1>1, <2>1 DEF Request
  <2>2. QED
    BY <1>3, <1>4, <1>7, <2>1 DEF ResolveTenantIDBySlug
<1>8. QED
  BY <1>4, <1>5, <1>6, <1>7
  DEF Proceed, CreateQuota, StoreUser, GetBySlug, StoreTenant, StoreOwner,
      EnsureTenantManageable, UpdateSave, DeleteTenant, AddMemberGetUser,
      StoreMember, EnsureDefaultTenant, SaveByTenantID

(* The only ways past the quota: the quota itself, or a new account. *)
LEMMA WaysPastTheQuota ==
  ASSUME Inv, NEW p \in Procs, Proceed(p), PastQuota(req'[p])
  PROVE  /\ req'[p].user = req[p].user
         /\ \/ PastQuota(req[p]) /\ ~StoreOwner(p)
            \/ At(p, "quota") /\ WithinQuota(req[p].user) /\ UNCHANGED members
            \/ /\ At(p, "storeUser") /\ UNCHANGED members
               /\ users[req[p].user] = "absent" /\ users'[req[p].user] = "live"
<1>1. req \in [Procs -> Request] /\ users \in [Users -> {"absent", "live", "deleted"}]
  BY DEF Inv, TypeOK
<1>2. RequestOK(req[p], granted, titles)
  BY DEF Inv, RequestsOK
<1>3. req'[p] # Idle
  BY DEF PastQuota, Idle
<1>4. req'[p].op = req[p].op /\ req'[p].user = req[p].user
  BY <1>3, CallsKeepTheirUser
<1>5. ~Finish(p)
  BY <1>1, <1>3 DEF Finish
<1>6. CASE CreateQuota(p)
  BY <1>4, <1>5, <1>6 DEF CreateQuota, db
<1>7. CASE StoreUser(p)
  <2>1. req[p].user \in Users
    BY <1>1, <1>2, <1>7, TenancyAssumption DEF StoreUser, At, Request, RequestOK, CallFits
  <2>2. QED
    BY <1>1, <1>4, <1>5, <1>7, <2>1 DEF StoreUser
<1>8. CASE GetBySlug(p)
  <2>1. CASE req[p].op = "register"
    BY <1>4, <1>5, <1>8, <2>1 DEF GetBySlug, At, PastQuota, StoreOwner
  <2>2. CASE req[p].op # "register"
    BY <1>1, <1>4, <1>5, <1>8, <2>2 DEF GetBySlug, Goto, PastQuota, Request
  <2>3. QED
    BY <2>1, <2>2
<1>9. CASE StoreTenant(p)
  BY <1>4, <1>9 DEF StoreTenant, At, PastQuota, StoreOwner
<1>10. CASE EnsureTenantManageable(p)
  <2>1. AfterAuthorisation(req[p]) \in {"save", "checkSlug", "idle", "delete", "getUser"}
    BY <1>2, <1>10 DEF EnsureTenantManageable, At, AfterAuthorisation, RequestOK, CallFits
  <2>2. QED
    BY <1>1, <1>5, <1>10, <2>1 DEF EnsureTenantManageable, Goto, PastQuota, Request
<1>11. CASE UpdateCheckSlug(p)
  BY <1>1, <1>5, <1>11 DEF UpdateCheckSlug, PastQuota, Request
<1>12. CASE AddMemberGetUser(p)
  BY <1>1, <1>5, <1>12 DEF AddMemberGetUser, Goto, PastQuota, Request
<1>13. CASE EnsureDefaultTenant(p)
  BY <1>1, <1>13 DEF EnsureDefaultTenant, Goto, PastQuota, Request
<1>14. CASE ResolveTenantIDBySlug(p)
  <2>1. PICK t \in Tenants : req' = [req EXCEPT ![p].tid = t, ![p].pc = "saveConfig"]
    BY <1>5, <1>14 DEF ResolveTenantIDBySlug
  <2>2. req'[p].pc = "saveConfig"
    BY <1>1, <2>1 DEF Request
  <2>3. QED
    BY <2>2 DEF PastQuota
<1>15. QED
  BY <1>5, <1>6, <1>7, <1>8, <1>9, <1>10, <1>11, <1>12, <1>13, <1>14
  DEF Proceed, StoreOwner, UpdateSave, DeleteTenant, StoreMember, SaveByTenantID

(* Without addMember, a call appoints an owner only for its own creation. *)
LEMMA OwnersAreCreators ==
  ASSUME Inv, QuotaInv, NEW p \in Procs, Proceed(p),
         NEW t \in Tenants, NEW u \in Users,
         members'[t][u] = "owner", members[t][u] # "owner"
  PROVE  At(p, "storeOwner") /\ StoreOwner(p) /\ req[p].user = u /\ req[p].tid = t
<1>1. /\ members \in [Tenants -> [Users -> MemberTypes \cup {"none"}]]
      /\ RequestOK(req[p], granted, titles)
      /\ req[p].op # "addMember"
  BY DEF Inv, TypeOK, RequestsOK, QuotaInv
<1>2. CASE DeleteTenant(p)
  BY <1>1, <1>2 DEF DeleteTenant
<1>3. CASE StoreMember(p)
  BY <1>1, <1>3 DEF StoreMember, At, RequestOK, CallFits
<1>4. CASE StoreOwner(p)
  BY <1>1, <1>4 DEF StoreOwner, Upsert
<1>5. QED
  BY <1>2, <1>3, <1>4
  DEF Proceed, CreateQuota, StoreUser, GetBySlug, StoreTenant, EnsureTenantManageable,
      UpdateCheckSlug, UpdateSave, AddMemberGetUser, EnsureDefaultTenant,
      ResolveTenantIDBySlug, SaveByTenantID, db, StoreOwner, At

(* A stored account stays stored. *)
LEMMA AccountsStay ==
  ASSUME Inv, Next, NEW u \in Users, users[u] # "absent"
  PROVE  users'[u] # "absent"
<1>1. users \in [Users -> {"absent", "live", "deleted"}]
  BY DEF Inv, TypeOK
<1>2. ASSUME NEW p \in Procs, Proceed(p)
      PROVE  users'[u] # "absent"
  BY <1>1, <1>2
  DEF Proceed, CreateQuota, StoreUser, GetBySlug, StoreTenant, StoreOwner,
      EnsureTenantManageable, UpdateCheckSlug, UpdateSave, DeleteTenant,
      AddMemberGetUser, StoreMember, EnsureDefaultTenant, ResolveTenantIDBySlug,
      SaveByTenantID, db
<1>3. QED
  BY <1>1, <1>2
  DEF Next, Arrive, Create, RegisterUser, LoginWithGoogle, Update, Delete,
      AddMember, LoadByTenantSlug, Fail, DeleteUser, db

-----------------------------------------------------------------------------
LEMMA QuotaInvInit ==
  ASSUME IsFiniteSet(Procs)
  PROVE  Init => QuotaInv
<1> SUFFICES ASSUME Init PROVE QuotaInv
  OBVIOUS
<1>1. \A p \in Procs : req[p].op # "addMember" /\ ~PastQuota(req[p]) /\ ~At(p, "quota")
  BY DEF Init, Idle, PastQuota, At
<1>2. \A u \in Users : OwnedBy(u) = {} /\ Creating(u) = {}
  BY <1>1 DEF Init, OwnedBy, Creating
<1>3. ASSUME NEW u \in Users \ Admins, Limit[u] >= 0
      PROVE  Cardinality(OwnedBy(u)) + Cardinality(Creating(u)) <= QuotaBound(u)
  <2>1. Cardinality(OwnedBy(u)) + Cardinality(Creating(u)) = 0
    BY <1>2, FS_EmptySet
  <2>2. Cardinality(Procs) \in Nat /\ Limit[u] \in Int
    BY FS_CardinalityType, TenancyAssumption
  <2>3. QED
    BY <1>3, <2>1, <2>2 DEF QuotaBound
<1>4. AccountsComeFirst
  BY <1>1 DEF Init, AccountsComeFirst
<1>5. QED
  BY <1>1, <1>3, <1>4 DEF QuotaInv, QuotaOvershootBounded

(* A request that arrives or fails leaves the tables alone; only one of a  *)
(* global user is past the quota at once.                                  *)
LEMMA ArrivalsAreCounted ==
  ASSUME Inv, "addMember" \notin Requests, NEW p \in Procs, Arrive(p) \/ Fail(p)
  PROVE  /\ UNCHANGED <<users, members>>
         /\ \A q \in Procs \ {p} : req'[q] = req[q]
         /\ req'[p].op # "addMember"
         /\ PastQuota(req'[p]) => req'[p].user \in Admins
         /\ PastQuota(req'[p]) \/ req'[p].pc = "quota" => users[req'[p].user] # "absent"
<1>1. req \in [Procs -> Request]
  BY DEF Inv, TypeOK
<1>2. CASE \E u \in Users, s \in Slugs, t \in Tenants : Create(p, u, s, t)
  BY <1>1, <1>2 DEF Create, Begin, Idle, PastQuota, db
<1>3. CASE \E u \in Users, s \in Slugs \cup {None}, t \in Tenants : RegisterUser(p, u, s, t)
  BY <1>1, <1>3 DEF RegisterUser, Begin, Idle, PastQuota, db
<1>4. CASE \E u \in Users, s \in Slugs \cup {None}, t \in Tenants : LoginWithGoogle(p, u, s, t)
  BY <1>1, <1>4 DEF LoginWithGoogle, Begin, Idle, PastQuota, db
<1>5. CASE \E u \in Users, t \in Tenants, s \in Slugs \cup {None} : Update(p, u, t, s)
  BY <1>1, <1>5 DEF Update, Begin, Idle, PastQuota, db
<1>6. CASE \E u \in Users, t \in Tenants : Delete(p, u, t)
  BY <1>1, <1>6 DEF Delete, Begin, Idle, PastQuota, db
<1>7. CASE \E s \in Slugs : LoadByTenantSlug(p, s)
  BY <1>1, <1>7 DEF LoadByTenantSlug, Begin, Idle, PastQuota, db
<1>8. CASE Fail(p)
  BY <1>1, <1>8 DEF Fail, Finish, Idle, PastQuota, db
<1>9. QED
  BY <1>2, <1>3, <1>4, <1>5, <1>6, <1>7, <1>8 DEF Arrive, AddMember

LEMMA QuotaArrivalStep ==
  ASSUME IsFiniteSet(Procs), IsFiniteSet(Tenants), "addMember" \notin Requests,
         Inv, QuotaInv, NEW p \in Procs, Arrive(p) \/ Fail(p)
  PROVE  QuotaInv'
<1>1. \A q \in Procs : req'[q].op # "addMember"
  BY ArrivalsAreCounted DEF QuotaInv
<1>2. AccountsComeFirst'
  BY ArrivalsAreCounted DEF QuotaInv, AccountsComeFirst, At
<1>3. ASSUME NEW u \in Users \ Admins, Limit[u] >= 0
      PROVE  Cardinality(OwnedBy(u)') + Cardinality(Creating(u)') <= QuotaBound(u)
  <2>1. OwnedBy(u)' \subseteq OwnedBy(u) /\ Creating(u)' \subseteq Creating(u)
    BY ArrivalsAreCounted DEF OwnedBy, Creating
  <2>2. QED
    BY <1>3, <2>1, BoundKept DEF Inv, QuotaInv
<1>4. QED
  BY <1>1, <1>2, <1>3 DEF QuotaInv, QuotaOvershootBounded

LEMMA QuotaCallStep ==
  ASSUME IsFiniteSet(Procs), IsFiniteSet(Tenants),
         Inv, QuotaInv, NEW p \in Procs, Proceed(p)
  PROVE  QuotaInv'
<1>1. \A q \in Procs : req'[q].op # "addMember"
  BY CallsKeepTheirUser DEF QuotaInv, Idle
<1>2. Inv' /\ Next
  BY InvStep DEF Next
<1>3. /\ req \in [Procs -> Request]
      /\ RequestOK(req[p], granted, titles)
  BY DEF Inv, TypeOK, RequestsOK
<1>4. ASSUME NEW q \in Procs, PastQuota(req'[q]) \/ req'[q].pc = "quota"
      PROVE  users'[req'[q].user] # "absent"
  <2>1. RequestOK(req'[q], granted', titles') /\ req'[q] \in Request
    BY <1>2 DEF Inv, TypeOK, RequestsOK
  <2>2. req'[q].user \in Users
    BY <1>4, <2>1 DEF RequestOK, CallFits, PastQuota, Request
  <2>3. CASE q # p
    BY <1>2, <1>4, <2>2, <2>3, CallsKeepTheirUser, AccountsStay
    DEF QuotaInv, AccountsComeFirst, At
  <2>4. CASE q = p /\ PastQuota(req'[p])
    BY <1>2, <2>2, <2>4, WaysPastTheQuota, AccountsStay
    DEF QuotaInv, AccountsComeFirst, At
  <2>5. CASE q = p /\ req'[p].pc = "quota"
    <3>1. CASE EnsureTenantManageable(p)
      <4>1. AfterAuthorisation(req[p]) # "quota"
        BY <1>3, <3>1
        DEF EnsureTenantManageable, At, AfterAuthorisation, RequestOK, CallFits
      <4>2. QED
        BY <1>3, <2>5, <3>1, <4>1 DEF EnsureTenantManageable, Goto, Finish, Idle, Request
    <3>2. CASE ResolveTenantIDBySlug(p)
      <4>1. CASE Finish(p)
        BY <1>3, <2>5, <4>1 DEF Finish, Idle
      <4>2. CASE ~Finish(p)
        <5>1. PICK t \in Tenants : req' = [req EXCEPT ![p].tid = t, ![p].pc = "saveConfig"]
          BY <3>2, <4>2 DEF ResolveTenantIDBySlug
        <5>2. QED
          BY <1>3, <2>5, <5>1 DEF Request
      <4>3. QED
        BY <4>1, <4>2
    <3>3. CASE UpdateCheckSlug(p)
      BY <1>3, <2>5, <3>3 DEF UpdateCheckSlug, Finish, Idle, Request
    <3>4. QED
      BY <1>3, <2>5, <3>1, <3>2, <3>3
      DEF Proceed, CreateQuota, StoreUser, GetBySlug, StoreTenant, StoreOwner,
          UpdateSave, DeleteTenant, Goto, Finish, Idle, Request, AddMemberGetUser,
          StoreMember, EnsureDefaultTenant, SaveByTenantID
  <2>6. QED
    BY <1>4, <2>3, <2>4, <2>5
<1>5. ASSUME NEW t \in Tenants, NEW u \in Users, members'[t][u] = "owner"
      PROVE  users'[u] # "absent"
  <2>1. users[u] # "absent"
    BY <1>5, OwnersAreCreators DEF QuotaInv, AccountsComeFirst, PastQuota, At
  <2>2. QED
    BY <1>2, <2>1, AccountsStay
<1>6. AccountsComeFirst'
  BY <1>4, <1>5 DEF AccountsComeFirst, At
<1>7. ASSUME NEW u \in Users \ Admins, Limit[u] >= 0
      PROVE  Cardinality(OwnedBy(u)') + Cardinality(Creating(u)') <= QuotaBound(u)
  <2>1. Creating(u)' \ {p} \subseteq Creating(u)
    BY CallsKeepTheirUser DEF Creating
  <2>2. CASE At(p, "storeOwner") /\ StoreOwner(p) /\ req[p].user = u
    <3>1. req[p].tid \in Tenants /\ p \in Creating(u)
      BY <1>3, <2>2 DEF RequestOK, CallFits, At, Creating, PastQuota, Request
    <3>2. OwnedBy(u)' \subseteq OwnedBy(u) \cup {req[p].tid}
      BY OwnersAreCreators DEF OwnedBy
    <3>3. ~PastQuota(req'[p])
      BY <1>3, <2>2 DEF StoreOwner, Finish, Idle, PastQuota
    <3>4. Creating(u)' \subseteq Creating(u) \ {p}
      BY <2>1, <3>3 DEF Creating
    <3>5. QED
      BY <1>7, <3>1, <3>2, <3>4, BoundTraded DEF Inv, QuotaInv
  <2>3. CASE ~(At(p, "storeOwner") /\ StoreOwner(p) /\ req[p].user = u)
    <3>1. OwnedBy(u)' \subseteq OwnedBy(u)
      BY <2>3, OwnersAreCreators DEF OwnedBy
    <3>2. CASE p \notin Creating(u)' \/ p \in Creating(u)
      BY <1>7, <2>1, <3>1, <3>2, BoundKept DEF Inv, QuotaInv
    <3>3. CASE p \in Creating(u)' /\ p \notin Creating(u)
      <4>1. PastQuota(req'[p]) /\ req'[p].user = u
        BY <3>3 DEF Creating
      <4>2. req[p].user = u /\ ~PastQuota(req[p])
        BY <3>3, <4>1, WaysPastTheQuota DEF Creating
      <4>3. CASE At(p, "quota") /\ WithinQuota(u) /\ UNCHANGED members
        <5>1. OwnedBy(u)' = OwnedBy(u)
          BY <4>3 DEF OwnedBy
        <5>2. QED
          BY <1>7, <4>3, <5>1, BoundOfCreation
      <4>4. CASE users[u] = "absent" /\ UNCHANGED members
        <5>1. OwnedBy(u) = {} /\ Creating(u) = {}
          BY <4>4 DEF QuotaInv, AccountsComeFirst, OwnedBy, Creating
        <5>2. OwnedBy(u)' = {} /\ Creating(u)' \subseteq {p}
          BY <2>1, <3>1, <5>1
        <5>3. QED
          BY <1>7, <5>2, BoundOfNewAccount
      <4>5. QED
        BY <4>1, <4>2, <4>3, <4>4, WaysPastTheQuota
    <3>4. QED
      BY <3>2, <3>3
  <2>4. QED
    BY <2>2, <2>3
<1>8. QED
  BY <1>1, <1>6, <1>7 DEF QuotaInv, QuotaOvershootBounded

LEMMA QuotaInvStep ==
  ASSUME IsFiniteSet(Procs), IsFiniteSet(Tenants), "addMember" \notin Requests
  PROVE  Inv /\ QuotaInv /\ [Next]_vars => QuotaInv'
<1> SUFFICES ASSUME Inv, QuotaInv, [Next]_vars PROVE QuotaInv'
  OBVIOUS
<1>1. CASE UNCHANGED <<req, members>> /\ \A u \in Users : users[u] # "absent" => users'[u] # "absent"
  <2>1. \A p \in Procs : PastQuota(req[p]) \/ At(p, "quota") => req[p].user \in Users
    BY DEF Inv, TypeOK, RequestsOK, RequestOK, CallFits, PastQuota, At, Request
  <2>2. QED
    BY <1>1, <2>1
    DEF QuotaInv, AccountsComeFirst, QuotaOvershootBounded, OwnedBy, Creating, At
<1>2. CASE UNCHANGED vars
  BY <1>1, <1>2 DEF vars
<1>3. ASSUME NEW u \in Users, DeleteUser(u)
      PROVE  QuotaInv'
  BY <1>1, <1>3, AccountsStay DEF DeleteUser, Next
<1>4. QED
  BY <1>2, <1>3, QuotaArrivalStep, QuotaCallStep DEF Next

(* Only accounts that are stored create or own tenants, and creations that *)
(* race are counted before they store (StoreUser and CreateQuota).         *)
THEOREM QuotaInvHolds ==
  ASSUME IsFiniteSet(Procs), IsFiniteSet(Tenants), "addMember" \notin Requests
  PROVE  Spec => []QuotaInv
<1>1. Init => QuotaInv
  BY QuotaInvInit
<1>2. Inv /\ QuotaInv /\ [Next]_vars => QuotaInv'
  BY QuotaInvStep
<1>3. QED
  BY <1>1, <1>2, InvHolds, PTL DEF Spec

(* However many creations of one user race, none of the clients appointing *)
(* owners: the user ends with at most Limit - 1 + |Procs| tenants.         *)
THEOREM QuotaOvershoot ==
  ASSUME IsFiniteSet(Procs), IsFiniteSet(Tenants), "addMember" \notin Requests
  PROVE  Spec => []QuotaOvershootBounded
<1>1. QuotaInv => QuotaOvershootBounded
  BY DEF QuotaInv
<1>2. QED
  BY <1>1, QuotaInvHolds, PTL

-----------------------------------------------------------------------------
(* The owners of tenants                                                   *)

\* A step of p that takes no owner from a tenant that stays, and stores it only if
\* p stores its owner next.
LEMMA SettledKept ==
  ASSUME NEW p \in Procs, NEW t \in Tenants, Settled(t),
         ~(At(p, "storeOwner") /\ req[p].tid = t),
         \A q \in Procs \ {p} : req'[q] = req[q],
         slugOf'[t] # None =>
            \/ /\ slugOf[t] # None
               /\ \A u \in Users : members[t][u] = "owner" => members'[t][u] = "owner"
            \/ req'[p].pc = "storeOwner" /\ req'[p].tid = t
  PROVE  Settled(t)'
<1> SUFFICES ASSUME slugOf'[t] # None
             PROVE  \/ \E u \in Users : members'[t][u] = "owner"
                    \/ \E q \in Procs : req'[q].pc = "storeOwner" /\ req'[q].tid = t
  BY DEF Settled, Exists, At
<1>1. CASE req'[p].pc = "storeOwner" /\ req'[p].tid = t
  BY <1>1
<1>2. CASE /\ slugOf[t] # None
           /\ \A u \in Users : members[t][u] = "owner" => members'[t][u] = "owner"
  <2>1. CASE \E u \in Users : members[t][u] = "owner" BY <1>2, <2>1
  <2>2. CASE \E q \in Procs : At(q, "storeOwner") /\ req[q].tid = t
    <3>1. PICK q \in Procs : At(q, "storeOwner") /\ req[q].tid = t BY <2>2
    <3>2. req'[q] = req[q] BY <3>1
    <3> QED BY <3>1, <3>2 DEF At
  <2> QED BY <1>2, <2>1, <2>2 DEF Settled, Exists
<1> QED BY <1>1, <1>2

\* A request that arrives touches no table, and one that is cut off leaves a tenant
\* without an owner only where it was to store it.
LEMMA ArrivalKeepsOwners ==
  ASSUME Inv, NEW p \in Procs, Arrive(p) \/ Fail(p),
         NEW t \in Tenants, Settled(t), ~LeavesOwnerless(p, t)
  PROVE  Settled(t)'
<1>1. req \in [Procs -> Request] BY DEF Inv, TypeOK
<1>2. /\ UNCHANGED <<slugOf, members>>
      /\ \A q \in Procs \ {p} : req'[q] = req[q]
  BY <1>1
  DEF Arrive, Create, RegisterUser, LoginWithGoogle, Update, Delete, AddMember,
      LoadByTenantSlug, Begin, Fail, Finish, db
<1>3. ~(At(p, "storeOwner") /\ req[p].tid = t) BY <1>2 DEF LeavesOwnerless
<1> QED BY <1>2, <1>3, SettledKept

\* Of the calls only those that write tenants and members matter.
LEMMA CallKeepsOwners ==
  ASSUME Inv, NEW p \in Procs, Proceed(p),
         NEW t \in Tenants \ {Default}, Settled(t), ~LeavesOwnerless(p, t)
  PROVE  Settled(t)'
<1>1. /\ req \in [Procs -> Request] /\ slugOf \in [Tenants -> Slugs \cup {None}]
      /\ members \in [Tenants -> [Users -> MemberTypes \cup {"none"}]]
      /\ RequestOK(req[p], granted, titles)
  BY DEF Inv, TypeOK, RequestsOK
<1>2. \A q \in Procs \ {p} : req'[q] = req[q]
  BY CallsKeepTheirUser
<1>3. CASE ~At(p, "storeOwner") /\ UNCHANGED <<slugOf, members>>
  BY <1>2, <1>3, SettledKept
<1>4. CASE StoreTenant(p)
  <2>1. ~At(p, "storeOwner") /\ UNCHANGED members BY <1>4 DEF StoreTenant, At
  <2>2. CASE UNCHANGED slugOf BY <1>3, <2>1, <2>2
  <2>3. CASE /\ slugOf' = [slugOf EXCEPT ![req[p].tid] = req[p].slug]
             /\ Goto(p, "storeOwner")
    <3>1. req'[p].pc = "storeOwner" /\ req'[p].tid = req[p].tid
      BY <1>1, <2>3 DEF Goto, Request
    <3>2. slugOf'[t] # None => slugOf[t] # None \/ req'[p].tid = t
      BY <1>1, <2>3, <3>1
    <3> QED BY <1>2, <2>1, <3>1, <3>2, SettledKept
  <2> QED BY <1>4, <2>2, <2>3 DEF StoreTenant
<1>5. CASE StoreOwner(p)
  <2>1. UNCHANGED slugOf BY <1>5 DEF StoreOwner
  <2>2. CASE req[p].tid = t /\ slugOf[t] # None
    <3>1. req[p].user \in Users
      BY <1>1, <1>5 DEF StoreOwner, At, RequestOK, CallFits, Request
    <3>2. members'[t][req[p].user] = "owner"
      BY <1>1, <1>5, <2>2, <3>1 DEF StoreOwner, Upsert, Exists
    <3> QED BY <3>1, <3>2 DEF Settled
  <2>3. CASE slugOf[t] = None BY <2>1, <2>3 DEF Settled, Exists
  <2>4. CASE req[p].tid # t
    <3>1. members'[t] = members[t] BY <1>1, <1>5, <2>4 DEF StoreOwner, Upsert
    <3> QED BY <1>2, <2>1, <2>4, <3>1, SettledKept
  <2> QED BY <2>2, <2>3, <2>4
<1>6. CASE UpdateSave(p)
  <2>1. UNCHANGED members /\ ~At(p, "storeOwner") BY <1>6 DEF UpdateSave, At
  <2>2. slugOf'[t] # None => slugOf[t] # None
    BY <1>1, <1>6 DEF UpdateSave, LeavesOwnerless, Exists
  <2> QED BY <1>2, <2>1, <2>2, SettledKept
<1>7. CASE DeleteTenant(p)
  <2>1. ~At(p, "storeOwner") BY <1>7 DEF DeleteTenant, At
  <2>2. slugOf'[t] # None => slugOf[t] # None /\ members'[t] = members[t]
    BY <1>1, <1>7 DEF DeleteTenant
  <2> QED BY <1>2, <2>1, <2>2, SettledKept
<1>8. CASE StoreMember(p)
  <2>1. UNCHANGED slugOf /\ ~At(p, "storeOwner") /\ At(p, "storeMember") BY <1>8 DEF StoreMember, At
  <2>2. ASSUME NEW u \in Users, members[t][u] = "owner" PROVE members'[t][u] = "owner"
    <3>1. req[p].kind \in MemberTypes
      BY <1>1, <2>1 DEF At, RequestOK, CallFits, Request
    <3>2. req[p].tid = t /\ req[p].target = u => req[p].kind = "owner"
      BY <2>1, <2>2, <3>1 DEF LeavesOwnerless, MemberTypes
    <3> QED BY <1>1, <1>8, <2>2, <3>2 DEF StoreMember, Upsert
  <2> QED BY <1>2, <2>1, <2>2, SettledKept
<1>9. CASE EnsureDefaultTenant(p)
  <2>1. UNCHANGED members /\ ~At(p, "storeOwner") BY <1>9 DEF EnsureDefaultTenant, At
  <2>2. slugOf'[t] # None => slugOf[t] # None BY <1>1, <1>9 DEF EnsureDefaultTenant
  <2> QED BY <1>2, <2>1, <2>2, SettledKept
<1> QED
  BY <1>3, <1>4, <1>5, <1>6, <1>7, <1>8, <1>9
  DEF Proceed, CreateQuota, StoreUser, GetBySlug, EnsureTenantManageable, UpdateCheckSlug,
      AddMemberGetUser, ResolveTenantIDBySlug, SaveByTenantID, db, At

(* Whatever runs at the same time and whatever fails, only a creation cut  *)
(* off between its last two calls, an owner made a member, or the Save of  *)
(* an Update whose tenant was deleted leaves a tenant without an owner.    *)
THEOREM OwnersOnlyLostThen == Spec => OwnersLostOnlyThen
<1> DEFINE Accounted ==
      \A t \in Tenants \ {Default} :
        Settled(t) /\ ~Settled(t)' => \E p \in Procs : LeavesOwnerless(p, t)
<1>1. ASSUME Inv, Next PROVE Accounted
  <2>1. CASE UNCHANGED <<slugOf, members, req>> BY <2>1 DEF Settled, Exists, At
  <2>2. ASSUME NEW p \in Procs, Arrive(p) \/ Fail(p) PROVE Accounted
    BY <1>1, <2>2, ArrivalKeepsOwners
  <2>3. ASSUME NEW p \in Procs, Proceed(p) PROVE Accounted
    BY <1>1, <2>3, CallKeepsOwners
  <2> QED BY <1>1, <2>1, <2>2, <2>3 DEF Next, DeleteUser
<1>2. Inv /\ [Next]_vars => [Accounted]_vars BY <1>1
<1>3. QED BY <1>2, InvHolds, PTL DEF Spec, OwnersLostOnlyThen
=============================================================================
