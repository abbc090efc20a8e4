-------------------------- MODULE AnniversaryStore --------------------------
(***************************************************************************)
(* The configurations of the tenants' sites in database mode: the handlers *)
(* of internal/handlers/http/anniversary, services/anniversary and         *)
(* repositories/anniversary/store_db.go.                                   *)
(*                                                                         *)
(* A request names its tenant by a slug, which the handler resolves to     *)
(* check the owner and which Load and Save resolve again; a global user    *)
(* may move slugs between tenants at any time (Tenancy's UpdateSave).      *)
(* Load writes what it read back, and an edit of the moments is a Load     *)
(* followed by a Save of the whole document, without a transaction.        *)
(*                                                                         *)
(* payload is the table anniversary_site_configs.  versions and submitted  *)
(* are history variables: every document a tenant stored, and the edits    *)
(* the handlers accepted for it, each with its user.  Tenants keep their   *)
(* owners here and are not deleted: Tenancy shows that a configuration     *)
(* keeps its tenant.                                                       *)
(***************************************************************************)
EXTENDS ConfigDocs, Integers

CONSTANTS
  Procs,        \* requests that can be in flight at once
  Users, Admins,
  Tenants, Slugs, Default, DefaultSlug,
  Owners,       \* Owners[t]: the users with an owner row of t
  SlugAtStart,  \* SlugAtStart[t]: the slug of t's row
  NoRow,        \* no configuration row
  None,         \* no tenant, no edit
  MaxRequests,  \* bound: requests that arrive, moves of slugs among them
  MidRequest    \* may a slug move that a request in flight names?

ASSUME StoreAssumption ==
  /\ Default \in Tenants /\ DefaultSlug \in Slugs
  /\ Owners \in [Tenants -> SUBSET Users]
  /\ SlugAtStart \in [Tenants -> Slugs]
  /\ SlugAtStart[Default] = DefaultSlug
  /\ \A t, o \in Tenants : SlugAtStart[t] = SlugAtStart[o] => t = o
  /\ None \notin Tenants \cup Edits /\ NoRow \notin Doc
  /\ MaxRequests \in Nat /\ MidRequest \in BOOLEAN

VARIABLES slugOf, payload, req, arrived, versions, submitted

vars == <<slugOf, payload, req, arrived, versions, submitted>>

Idle == [pc |-> "idle", slug |-> DefaultSlug, edit |-> None, user |-> None,
         tid |-> None, cfg |-> BuiltIn, loaded |-> FALSE]

Init ==
  /\ slugOf = SlugAtStart
  /\ payload = [t \in Tenants |-> IF t = Default THEN BuiltIn ELSE NoRow]
  /\ req = [p \in Procs |-> Idle]
  /\ arrived = 0
  /\ versions = [t \in Tenants |-> IF t = Default THEN {BuiltIn} ELSE {}]
  /\ submitted = [t \in Tenants |-> {}]

HeldByAnother(t, s) == \E o \in Tenants \ {t} : slugOf[o] = s

At(p, pc)  == req[p].pc = pc
Finish(p)  == req' = [req EXCEPT ![p] = Idle]
Resolution(s) == IF s = DefaultSlug THEN "ensureDefault" ELSE "resolve"

Arrive(p, r) ==
  /\ At(p, "idle")
  /\ arrived < MaxRequests
  /\ arrived' = arrived + 1
  /\ req' = [req EXCEPT ![p] = r]

-----------------------------------------------------------------------------
(* The handlers.  GetPublic and GetMoments are open to anybody; GetSetup,  *)
(* refused or not, changes no more than they do.                           *)

GetPublicPayload(p, s) ==
  /\ Arrive(p, [Idle EXCEPT !.pc = Resolution(s), !.slug = s])
  /\ UNCHANGED <<slugOf, payload, versions, submitted>>

\* mutant: any user may edit
MayEditAnyone(u, t) == TRUE

MayEdit(u, t) == u \in Admins \cup Owners[t]

\* authorizeSetupAccess with requireOwner, before each of the four edits.
AuthorizeSetupAccess(p, u, s, e) ==
  \E t \in Tenants :
    /\ slugOf[t] = s
    /\ MayEdit(u, t)
    /\ Arrive(p, [Idle EXCEPT !.pc = Resolution(s), !.slug = s, !.edit = e, !.user = u,
                              !.cfg = IF e.op = "update" THEN e.doc ELSE BuiltIn,
                              !.loaded = (e.op = "update")])
    /\ submitted' = [submitted EXCEPT ![t] = @ \cup {<<u, e>>}]
    /\ UNCHANGED <<slugOf, payload, versions>>

-----------------------------------------------------------------------------
(* resolveTenantIDBySlug, at the start of Load and of Save *)

EnsureDefaultTenant(p) ==
  /\ At(p, "ensureDefault")
  /\ slugOf' = IF HeldByAnother(Default, DefaultSlug) THEN slugOf
               ELSE [slugOf EXCEPT ![Default] = DefaultSlug]
  /\ req' = [req EXCEPT ![p].pc = "resolve"]
  /\ UNCHANGED <<payload, arrived, versions, submitted>>

\* mutant: an unknown slug means the default tenant
ResolveOrDefault(p) ==
  /\ At(p, "resolve")
  /\ \E t \in Tenants :
       /\ \/ slugOf[t] = req[p].slug
          \/ t = Default /\ \A o \in Tenants : slugOf[o] # req[p].slug
       /\ req' = [req EXCEPT ![p].tid = t,
                             ![p].pc = IF req[p].loaded THEN "save" ELSE "first"]
  /\ UNCHANGED <<slugOf, payload, arrived, versions, submitted>>

ResolveTenantIDBySlug(p) ==
  /\ At(p, "resolve")
  /\ \/ /\ \A t \in Tenants : slugOf[t] # req[p].slug
        /\ Finish(p)
     \/ \E t \in Tenants :
          /\ slugOf[t] = req[p].slug
          /\ req' = [req EXCEPT ![p].tid = t,
                                ![p].pc = IF req[p].loaded THEN "save" ELSE "first"]
  /\ UNCHANGED <<slugOf, payload, arrived, versions, submitted>>

-----------------------------------------------------------------------------
(* LoadByTenantSlug, once the tenant is known *)

LoadRow(p) ==
  /\ At(p, "first")
  /\ req' = IF payload[req[p].tid] = NoRow
            THEN [req EXCEPT ![p].pc = "template"]
            ELSE [req EXCEPT ![p].cfg = Sanitize(payload[req[p].tid]), ![p].pc = "writeBack"]
  /\ UNCHANGED <<slugOf, payload, arrived, versions, submitted>>

LoadDefaultTemplateConfig(p) ==
  /\ At(p, "template")
  /\ req' = [req EXCEPT ![p].cfg = IF payload[Default] = NoRow THEN BuiltIn
                                   ELSE Sanitize(payload[Default]),
                        ![p].pc = "writeBack"]
  /\ UNCHANGED <<slugOf, payload, arrived, versions, submitted>>

\* mutant: the write goes to the tenant the template came from
SaveToDefault(t, d) ==
  /\ payload' = [payload EXCEPT ![Default] = d]
  /\ versions' = [versions EXCEPT ![Default] = @ \cup {d}]

SaveByTenantID(t, d) ==
  /\ payload' = [payload EXCEPT ![t] = d]
  /\ versions' = [versions EXCEPT ![t] = @ \cup {d}]

\* The end of a Load.  A read is over; an edit works on the loaded document
\* and goes on to its Save.
WriteBack(p) ==
  /\ At(p, "writeBack")
  /\ SaveByTenantID(req[p].tid, req[p].cfg)
  /\ IF req[p].edit # None /\ Applies(req[p].edit, req[p].cfg)
     THEN req' = [req EXCEPT ![p].cfg = Applied(req[p].edit, @), ![p].loaded = TRUE,
                             ![p].pc = Resolution(req[p].slug)]
     ELSE Finish(p)
  /\ UNCHANGED <<slugOf, arrived, submitted>>

SaveByTenantSlug(p) ==
  /\ At(p, "save")
  /\ SaveByTenantID(req[p].tid, Sanitize(req[p].cfg))
  /\ Finish(p)
  /\ UNCHANGED <<slugOf, arrived, submitted>>

-----------------------------------------------------------------------------
\* No request in flight names a slug that t loses or gets; and t is not the
\* default tenant, whose slug every load of its page puts back.
Undisturbed(t, s) ==
  /\ t # Default
  /\ \A p \in Procs : At(p, "idle") \/ req[p].slug \notin {slugOf[t], s}

\* TenantService.Update by a global user.
MoveSlug(t, s) ==
  /\ MidRequest \/ Undisturbed(t, s)
  /\ arrived < MaxRequests
  /\ slugOf[t] # s
  /\ ~HeldByAnother(t, s)
  /\ slugOf' = [slugOf EXCEPT ![t] = s]
  /\ arrived' = arrived + 1
  /\ UNCHANGED <<payload, req, versions, submitted>>

\* A database call fails, the document has a malformed date, or the server
\* dies: what was written stays.
Fail(p) ==
  /\ ~At(p, "idle")
  /\ Finish(p)
  /\ UNCHANGED <<slugOf, payload, arrived, versions, submitted>>

Proceed(p) ==
  \/ EnsureDefaultTenant(p)
  \/ ResolveTenantIDBySlug(p)
  \/ LoadRow(p)
  \/ LoadDefaultTemplateConfig(p)
  \/ WriteBack(p)
  \/ SaveByTenantSlug(p)

Next ==
  \/ \E p \in Procs :
       \/ \E s \in Slugs : GetPublicPayload(p, s)
       \/ \E u \in Users, s \in Slugs, e \in Edits : AuthorizeSetupAccess(p, u, s, e)
       \/ Proceed(p)
       \/ Fail(p)
  \/ \E t \in Tenants, s \in Slugs : MoveSlug(t, s)

Spec == Init /\ [][Next]_vars

-----------------------------------------------------------------------------
Request ==
  [pc : {"idle", "ensureDefault", "resolve", "first", "template", "writeBack", "save"},
   slug : Slugs, edit : Edits \cup {None}, user : Users \cup {None},
   tid : Tenants \cup {None}, cfg : Doc, loaded : BOOLEAN]

TypeOK ==
  /\ slugOf \in [Tenants -> Slugs]
  /\ payload \in [Tenants -> Doc \cup {NoRow}]
  /\ req \in [Procs -> Request]
  /\ arrived \in 0 .. MaxRequests
  /\ versions \in [Tenants -> SUBSET Doc]
  /\ submitted \in [Tenants -> SUBSET (Users \X Edits)]

\* Every stored document has moments, so that a Load never replaces the moments
\* of a row it finds: nobody stores a document that was not sanitized, wherever
\* the slug has gone meanwhile.
StoredNormalized == \A t \in Tenants : \A d \in versions[t] : Normal(d)

\* The history of a tenant holds what it stores now.
Recorded ==
  /\ BuiltIn \in versions[Default]
  /\ \A t \in Tenants : payload[t] # NoRow => payload[t] \in versions[t]

\* What a request carries when it writes: only a document that is about to be
\* sanitized may lack moments.
Carries(r) ==
  /\ r.pc \in {"first", "template", "writeBack", "save"} => r.tid \in Tenants
  /\ r.pc = "writeBack" => Normal(r.cfg)
  /\ r.pc = "save" => r.loaded
  /\ r.loaded => r.edit # None /\ r.pc \in {"ensureDefault", "resolve", "save"}

StoreInv == TypeOK /\ StoredNormalized /\ Recorded /\ \A p \in Procs : Carries(req[p])

\* The request r is still with the tenant it was authorized for, and its
\* document is a version of that tenant or of the template, with the request's
\* own edit applied once it is loaded.  h and s are the histories.
Stays(r, h, s) ==
  /\ r.pc \in {"first", "template", "writeBack", "save"} => slugOf[r.tid] = r.slug
  /\ r.pc # "idle" /\ r.edit # None => \A t \in Tenants :
       slugOf[t] = r.slug =>
         /\ <<r.user, r.edit>> \in s[t]
         /\ r.loaded => \E base \in h[t] \cup h[Default] :
              /\ Applies(r.edit, base)
              /\ r.cfg = Applied(r.edit, base)
  /\ r.pc = "writeBack" => r.cfg \in h[r.tid] \cup h[Default]

\* When slugs move only between the requests that name them, no request strays
\* from its tenant.
RequestsStay == \A p \in Procs : Stays(req[p], versions, submitted)

\* The racing clients' promise: ConfigHistory, with the same histories.
History == INSTANCE ConfigHistory WITH current <- payload
HistorySpec == History!Spec

\* The lone client's promise: ConfigRegister.  The edit at work is the one of
\* the request in flight.
Pending ==
  {x \in Tenants \X Edits :
     \E p \in Procs : slugOf[x[1]] = req[p].slug /\ req[p].edit = x[2]}

Register == INSTANCE ConfigRegister WITH current <- payload, pending <- Pending
RegisterSpec == Register!Spec

-----------------------------------------------------------------------------
(* What a comment and a test of the code say, and the code does not hold to *)

\* store_db.go:87: Load's write only keeps the payload normalized.  Said of a
\* row that was there when Load looked.
LoadsOnlyNormalize ==
  [][\A p \in Procs :
       At(p, "writeBack") /\ versions[req[p].tid] # {} /\ req'[p] # req[p] =>
         payload'[req[p].tid] \in {payload[req[p].tid], Sanitize(payload[req[p].tid])}]_vars

\* TestSetupAnniversary_OnlyOwnerCanUpdateTenantConfig: what a Save changes is
\* the document of a tenant its user owns.
OnlyOwnersUpdate ==
  [][\A p \in Procs :
       SaveByTenantSlug(p) => MayEdit(req[p].user, req[p].tid)]_vars
=============================================================================
