----------------------- MODULE AnniversaryStoreProofs -----------------------
(***************************************************************************)
(* Proofs about AnniversaryStore, for any number of requests, users,       *)
(* tenants, slugs and documents.  StoreInv is inductive whatever happens   *)
(* to the slugs.  When no slug moves under a request, RequestsStay is      *)
(* inductive next to it, and every step is a step of ConfigHistory; with   *)
(* one request at a time, every step is a step of ConfigRegister.          *)
(*                                                                         *)
(* And about SanitizeMoments, for any list of moments: what is stored can  *)
(* be shown, and loading it again changes nothing of it.                   *)
(***************************************************************************)
EXTENDS AnniversaryStore, SanitizeMoments, FiniteSetTheorems, SequenceTheorems, TLAPS

LEMMA SanitizeNormalizes ==
  ASSUME NEW d \in Doc
  PROVE  Sanitize(d) \in Doc /\ Normal(Sanitize(d)) /\ (Normal(d) => Sanitize(d) = d)
BY ConfigAssumption DEF Sanitize, Normal, Doc

LEMMA AppliedIsDoc ==
  ASSUME NEW e \in Edits, NEW d \in Doc
  PROVE  Applied(e, d) \in Doc
<1>1. e \in Edit
  BY ConfigAssumption
<1>2. CASE e \in [op : {"update"}, doc : Doc]
  BY <1>2 DEF Applied
<1>3. CASE e \in [op : {"replace"}, moments : SUBSET Moment]
  BY <1>3 DEF Applied, Doc
<1>4. CASE e \in [op : {"add"}, moment : Moment]
  BY <1>4 DEF Applied, Doc
<1>5. CASE e \in [op : {"delete"}, year : Years]
  BY <1>5 DEF Applied, Doc
<1>6. QED
  BY <1>1, <1>2, <1>3, <1>4, <1>5 DEF Edit

LEMMA UpdateHasDoc ==
  ASSUME NEW e \in Edits, e.op = "update"
  PROVE  e.doc \in Doc
BY ConfigAssumption DEF Edit

-----------------------------------------------------------------------------
(* StoreInv is inductive.                                                  *)

LEMMA IdleIsRequest == Idle \in Request /\ Carries(Idle)
BY StoreAssumption, ConfigAssumption DEF Idle, Request, Carries

LEMMA InitStoreInv == Init => StoreInv
<1> SUFFICES ASSUME Init PROVE StoreInv
  OBVIOUS
<1>1. TypeOK
  BY StoreAssumption, ConfigAssumption, IdleIsRequest DEF Init, TypeOK
<1>2. StoredNormalized /\ Recorded
  BY StoreAssumption, ConfigAssumption DEF Init, StoredNormalized, Recorded, Normal
<1>3. \A p \in Procs : Carries(req[p])
  BY IdleIsRequest DEF Init
<1>4. QED
  BY <1>1, <1>2, <1>3 DEF StoreInv

(* A step that replaces one request by one in order, and stores nothing. *)
LEMMA OnlyRequestChanges ==
  ASSUME StoreInv, NEW p \in Procs, NEW r \in Request, Carries(r),
         req' = [req EXCEPT ![p] = r],
         UNCHANGED <<payload, versions>>,
         slugOf' \in [Tenants -> Slugs],
         arrived' \in 0 .. MaxRequests,
         submitted' \in [Tenants -> SUBSET (Users \X Edits)]
  PROVE  StoreInv'
<1>1. TypeOK'
  BY DEF StoreInv, TypeOK
<1>2. StoredNormalized' /\ Recorded'
  BY DEF StoreInv, StoredNormalized, Recorded
<1>3. \A q \in Procs : Carries(req'[q])
  BY DEF StoreInv, TypeOK
<1>4. QED
  BY <1>1, <1>2, <1>3 DEF StoreInv

(* A step that stores a document with moments for one tenant. *)
LEMMA Stores ==
  ASSUME StoreInv, NEW p \in Procs, NEW r \in Request, Carries(r),
         req' = [req EXCEPT ![p] = r],
         NEW t \in Tenants, NEW d \in Doc, Normal(d), SaveByTenantID(t, d),
         UNCHANGED <<slugOf, arrived, submitted>>
  PROVE  StoreInv'
<1>1. TypeOK'
  BY DEF StoreInv, TypeOK, SaveByTenantID
<1>2. versions \in [Tenants -> SUBSET Doc] /\ payload \in [Tenants -> Doc \cup {NoRow}]
  BY DEF StoreInv, TypeOK
<1>3. \A o \in Tenants : versions'[o] = IF o = t THEN versions[o] \cup {d} ELSE versions[o]
  BY <1>2 DEF SaveByTenantID
<1>4. StoredNormalized'
  BY <1>3 DEF StoreInv, StoredNormalized
<1>5. Recorded'
  BY <1>2, <1>3, StoreAssumption DEF StoreInv, Recorded, SaveByTenantID
<1>6. \A q \in Procs : Carries(req'[q])
  BY DEF StoreInv, TypeOK
<1>7. QED
  BY <1>1, <1>4, <1>5, <1>6 DEF StoreInv

LEMMA StoreInvStep == StoreInv /\ [Next]_vars => StoreInv'
<1> SUFFICES ASSUME StoreInv, [Next]_vars PROVE StoreInv'
  OBVIOUS
<1>0. /\ slugOf \in [Tenants -> Slugs] /\ arrived \in 0 .. MaxRequests
      /\ payload \in [Tenants -> Doc \cup {NoRow}]
      /\ submitted \in [Tenants -> SUBSET (Users \X Edits)]
      /\ \A p \in Procs : req[p] \in Request /\ Carries(req[p])
  BY DEF StoreInv, TypeOK
<1>1. ASSUME NEW p \in Procs, NEW s \in Slugs, GetPublicPayload(p, s)
      PROVE  StoreInv'
  <2> DEFINE r == [Idle EXCEPT !.pc = Resolution(s), !.slug = s]
  <2>1. r \in Request /\ Carries(r)
    BY StoreAssumption, ConfigAssumption DEF Idle, Request, Carries, Resolution
  <2>2. req' = [req EXCEPT ![p] = r] /\ arrived' \in 0 .. MaxRequests
    BY <1>0, <1>1, StoreAssumption DEF GetPublicPayload, Arrive
  <2>3. QED
    BY <1>0, <1>1, <2>1, <2>2, OnlyRequestChanges DEF GetPublicPayload
<1>2. ASSUME NEW p \in Procs, NEW u \in Users, NEW s \in Slugs, NEW e \in Edits,
             AuthorizeSetupAccess(p, u, s, e)
      PROVE  StoreInv'
  <2> DEFINE r == [Idle EXCEPT !.pc = Resolution(s), !.slug = s, !.edit = e, !.user = u,
                               !.cfg = IF e.op = "update" THEN e.doc ELSE BuiltIn,
                               !.loaded = (e.op = "update")]
  <2>1. (IF e.op = "update" THEN e.doc ELSE BuiltIn) \in Doc
    BY UpdateHasDoc, ConfigAssumption
  <2>2. r \in Request /\ Carries(r)
    BY <2>1, StoreAssumption DEF Idle, Request, Carries, Resolution
  <2>3. req' = [req EXCEPT ![p] = r] /\ arrived' \in 0 .. MaxRequests
    BY <1>0, <1>2, StoreAssumption DEF AuthorizeSetupAccess, Arrive
  <2>4. submitted' \in [Tenants -> SUBSET (Users \X Edits)]
    BY <1>0, <1>2 DEF AuthorizeSetupAccess
  <2>5. UNCHANGED <<slugOf, payload, versions>>
    BY <1>2 DEF AuthorizeSetupAccess
  <2>6. QED
    BY <1>0, <2>2, <2>3, <2>4, <2>5, OnlyRequestChanges
<1>3. ASSUME NEW p \in Procs, EnsureDefaultTenant(p)
      PROVE  StoreInv'
  <2> DEFINE r == [req[p] EXCEPT !.pc = "resolve"]
  <2>1. r \in Request /\ Carries(r)
    BY <1>0, <1>3 DEF Request, Carries, EnsureDefaultTenant, At
  <2>2. req' = [req EXCEPT ![p] = r]
    BY <1>0, <1>3 DEF EnsureDefaultTenant, Request
  <2>3. slugOf' \in [Tenants -> Slugs]
    BY <1>0, <1>3, StoreAssumption DEF EnsureDefaultTenant
  <2>4. UNCHANGED <<payload, arrived, versions, submitted>>
    BY <1>3 DEF EnsureDefaultTenant
  <2>5. QED
    BY <1>0, <2>1, <2>2, <2>3, <2>4, OnlyRequestChanges
<1>4. ASSUME NEW p \in Procs, ResolveTenantIDBySlug(p)
      PROVE  StoreInv'
  <2>1. UNCHANGED <<slugOf, payload, arrived, versions, submitted>>
    BY <1>4 DEF ResolveTenantIDBySlug
  <2>2. CASE Finish(p)
    BY <1>0, <2>1, <2>2, IdleIsRequest, OnlyRequestChanges DEF Finish
  <2>3. ASSUME NEW t \in Tenants,
               req' = [req EXCEPT ![p].tid = t,
                                  ![p].pc = IF req[p].loaded THEN "save" ELSE "first"]
        PROVE  StoreInv'
    <3> DEFINE r == [req[p] EXCEPT !.tid = t, !.pc = IF req[p].loaded THEN "save" ELSE "first"]
    <3>1. r \in Request /\ Carries(r)
      BY <1>0 DEF Request, Carries
    <3>2. req' = [req EXCEPT ![p] = r]
      BY <1>0, <2>3 DEF Request
    <3>3. QED
      BY <1>0, <2>1, <3>1, <3>2, OnlyRequestChanges
  <2>4. QED
    BY <1>4, <2>2, <2>3 DEF ResolveTenantIDBySlug
<1>5. ASSUME NEW p \in Procs, LoadRow(p)
      PROVE  StoreInv'
  <2> DEFINE r == IF payload[req[p].tid] = NoRow
                  THEN [req[p] EXCEPT !.pc = "template"]
                  ELSE [req[p] EXCEPT !.cfg = Sanitize(payload[req[p].tid]), !.pc = "writeBack"]
  <2>1. req[p].tid \in Tenants
    BY <1>0, <1>5 DEF LoadRow, At, Carries
  <2>2. payload[req[p].tid] # NoRow =>
          Sanitize(payload[req[p].tid]) \in Doc /\ Normal(Sanitize(payload[req[p].tid]))
    BY <1>0, <2>1, SanitizeNormalizes
  <2>3. r \in Request /\ Carries(r)
    <3>1. At(p, "first") /\ req[p] \in Request /\ Carries(req[p])
      BY <1>0, <1>5 DEF LoadRow
    <3>2. QED
      BY <2>1, <2>2, <3>1 DEF Request, Carries, At
  <2>4. req' = [req EXCEPT ![p] = r]
    BY <1>0, <1>5 DEF LoadRow, Request
  <2>5. UNCHANGED <<slugOf, payload, arrived, versions, submitted>>
    BY <1>5 DEF LoadRow
  <2>6. QED
    BY <1>0, <2>3, <2>4, <2>5, OnlyRequestChanges
<1>6. ASSUME NEW p \in Procs, LoadDefaultTemplateConfig(p)
      PROVE  StoreInv'
  <2> DEFINE c == IF payload[Default] = NoRow THEN BuiltIn ELSE Sanitize(payload[Default])
             r == [req[p] EXCEPT !.cfg = c, !.pc = "writeBack"]
  <2>1. c \in Doc /\ Normal(c)
    BY <1>0, SanitizeNormalizes, StoreAssumption, ConfigAssumption DEF Normal
  <2>2. r \in Request /\ Carries(r)
    BY <1>0, <1>6, <2>1 DEF Request, Carries, LoadDefaultTemplateConfig, At
  <2>3. req' = [req EXCEPT ![p] = r]
    BY <1>0, <1>6 DEF LoadDefaultTemplateConfig, Request
  <2>4. UNCHANGED <<slugOf, payload, arrived, versions, submitted>>
    BY <1>6 DEF LoadDefaultTemplateConfig
  <2>5. QED
    BY <1>0, <2>2, <2>3, <2>4, OnlyRequestChanges
<1>7. ASSUME NEW p \in Procs, WriteBack(p)
      PROVE  StoreInv'
  <2> DEFINE e == req[p].edit
             c == req[p].cfg
             r == [req[p] EXCEPT !.cfg = Applied(e, c), !.loaded = TRUE,
                                 !.pc = Resolution(req[p].slug)]
  <2>1. req[p].tid \in Tenants /\ c \in Doc /\ Normal(c)
    BY <1>0, <1>7 DEF WriteBack, At, Carries, Request
  <2>2. SaveByTenantID(req[p].tid, c) /\ UNCHANGED <<slugOf, arrived, submitted>>
    BY <1>7 DEF WriteBack
  <2>3. CASE e # None /\ Applies(e, c)
    <3>1. e \in Edits
      BY <1>0, <2>3 DEF Request
    <3>2. Applied(e, c) \in Doc
      BY <2>1, <3>1, AppliedIsDoc
    <3>3. r \in Request /\ Carries(r)
      BY <1>0, <2>3, <3>2 DEF Request, Carries, Resolution
    <3>4. req' = [req EXCEPT ![p] = r]
      BY <1>0, <1>7, <2>3 DEF WriteBack, Request
    <3>5. QED
      BY <2>1, <2>2, <3>3, <3>4, Stores
  <2>4. CASE ~(e # None /\ Applies(e, c))
    <3>1. req' = [req EXCEPT ![p] = Idle]
      BY <1>7, <2>4 DEF WriteBack, Finish
    <3>2. QED
      BY <2>1, <2>2, <3>1, IdleIsRequest, Stores
  <2>5. QED
    BY <2>3, <2>4
<1>8. ASSUME NEW p \in Procs, SaveByTenantSlug(p)
      PROVE  StoreInv'
  <2>1. req[p].tid \in Tenants /\ req[p].cfg \in Doc
    BY <1>0, <1>8 DEF SaveByTenantSlug, At, Carries, Request
  <2>2. Sanitize(req[p].cfg) \in Doc /\ Normal(Sanitize(req[p].cfg))
    BY <2>1, SanitizeNormalizes
  <2>3. QED
    BY <1>8, <2>1, <2>2, IdleIsRequest, Stores DEF SaveByTenantSlug, Finish
<1>9. ASSUME NEW p \in Procs, Fail(p)
      PROVE  StoreInv'
  BY <1>0, <1>9, IdleIsRequest, OnlyRequestChanges DEF Fail, Finish
<1>10. ASSUME NEW t \in Tenants, NEW s \in Slugs, MoveSlug(t, s)
       PROVE  StoreInv'
  <2>1. /\ UNCHANGED <<payload, req, versions, submitted>>
        /\ arrived < MaxRequests /\ arrived' = arrived + 1
        /\ slugOf' = [slugOf EXCEPT ![t] = s]
    BY <1>10 DEF MoveSlug
  <2>2. slugOf' \in [Tenants -> Slugs] /\ arrived' \in 0 .. MaxRequests
    BY <2>1, StoreAssumption DEF StoreInv, TypeOK
  <2>3. QED
    BY <2>1, <2>2 DEF StoreInv, TypeOK, StoredNormalized, Recorded
<1>11. CASE UNCHANGED vars
  BY <1>11 DEF vars, StoreInv, TypeOK, StoredNormalized, Recorded
<1>12. QED
  BY <1>1, <1>2, <1>3, <1>4, <1>5, <1>6, <1>7, <1>8, <1>9, <1>10, <1>11 DEF Next, Proceed

THEOREM StoreInvHolds == Spec => []StoreInv
BY InitStoreInv, StoreInvStep, PTL DEF Spec

(* No document is ever stored without moments, wherever slugs move and      *)
(* whichever of the calls of a request fail.                                *)
THEOREM NormalizedStored == Spec => []StoredNormalized
BY StoreInvHolds, PTL DEF StoreInv

-----------------------------------------------------------------------------
(* Slugs move only between the requests that name them: requests stay with *)
(* their tenants.                                                          *)

OneSlugEach ==
  slugOf[Default] = DefaultSlug /\ \A t, o \in Tenants : slugOf[t] = slugOf[o] => t = o

RaceInv == StoreInv /\ OneSlugEach /\ RequestsStay

LEMMA InitRaceInv == Init => RaceInv
<1> SUFFICES ASSUME Init PROVE OneSlugEach /\ RequestsStay
  BY InitStoreInv DEF RaceInv
<1>1. \A p \in Procs : req[p].pc = "idle"
  BY DEF Init, Idle
<1>2. QED
  BY <1>1, StoreAssumption DEF Init, RequestsStay, Stays, OneSlugEach

LEMMA SlugsStill ==
  ASSUME RaceInv, [Next]_vars, ~(\E t \in Tenants, s \in Slugs : MoveSlug(t, s))
  PROVE  slugOf' = slugOf
<1>1. ASSUME NEW p \in Procs, EnsureDefaultTenant(p)
      PROVE  slugOf' = slugOf
  BY <1>1, StoreAssumption DEF EnsureDefaultTenant, RaceInv, StoreInv, TypeOK, OneSlugEach
<1>2. ASSUME NEW p \in Procs, Proceed(p)
      PROVE  slugOf' = slugOf
  BY <1>1, <1>2 DEF Proceed, ResolveTenantIDBySlug, LoadRow, LoadDefaultTemplateConfig,
                    WriteBack, SaveByTenantSlug
<1>3. QED
  BY <1>2 DEF Next, GetPublicPayload, AuthorizeSetupAccess, Fail, vars

(* A slug moves that no request in flight names. *)
LEMMA MovesDisturbNobody ==
  ASSUME ~MidRequest, RaceInv, NEW t \in Tenants, NEW s \in Slugs, MoveSlug(t, s)
  PROVE  OneSlugEach' /\ RequestsStay'
<1>0. /\ slugOf \in [Tenants -> Slugs]
      /\ \A p \in Procs : Stays(req[p], versions, submitted) /\ Carries(req[p])
  BY DEF RaceInv, StoreInv, TypeOK, RequestsStay
<1>1. /\ UNCHANGED <<payload, req, versions, submitted>>
      /\ slugOf' = [slugOf EXCEPT ![t] = s]
      /\ t # Default /\ ~HeldByAnother(t, s)
      /\ \A p \in Procs : req[p].pc = "idle" \/ req[p].slug \notin {slugOf[t], s}
  BY DEF MoveSlug, Undisturbed, At
<1>2. OneSlugEach'
  BY <1>0, <1>1, StoreAssumption DEF RaceInv, OneSlugEach, HeldByAnother
<1>3. ASSUME NEW p \in Procs
      PROVE  Stays(req[p], versions, submitted)'
  <2>1. CASE req[p].pc = "idle"
    BY <1>1, <2>1 DEF Stays
  <2>2. CASE req[p].slug \notin {slugOf[t], s}
    <3>1. \A o \in Tenants : slugOf'[o] = req[p].slug <=> slugOf[o] = req[p].slug
      BY <1>0, <1>1, <2>2
    <3>2. QED
      BY <1>0, <1>1, <3>1 DEF Stays, Carries
  <2>3. QED
    BY <1>1, <2>1, <2>2
<1>4. QED
  BY <1>2, <1>3 DEF RequestsStay

(* Histories only grow. *)
LEMMA HistoriesGrow ==
  ASSUME StoreInv, [Next]_vars, NEW t \in Tenants
  PROVE  versions[t] \subseteq versions'[t] /\ submitted[t] \subseteq submitted'[t]
<1>0. /\ versions \in [Tenants -> SUBSET Doc]
      /\ submitted \in [Tenants -> SUBSET (Users \X Edits)]
  BY DEF StoreInv, TypeOK
<1>1. CASE UNCHANGED <<versions, submitted>>
  BY <1>1
<1>2. ASSUME NEW o, NEW d, SaveByTenantID(o, d), UNCHANGED submitted
      PROVE  versions[t] \subseteq versions'[t] /\ submitted[t] \subseteq submitted'[t]
  BY <1>0, <1>2 DEF SaveByTenantID
<1>3. ASSUME NEW p, NEW u, NEW s, NEW e, AuthorizeSetupAccess(p, u, s, e)
      PROVE  versions[t] \subseteq versions'[t] /\ submitted[t] \subseteq submitted'[t]
  BY <1>0, <1>3 DEF AuthorizeSetupAccess
<1>4. ASSUME NEW p \in Procs, Proceed(p)
      PROVE  versions[t] \subseteq versions'[t] /\ submitted[t] \subseteq submitted'[t]
  BY <1>1, <1>2, <1>4 DEF Proceed, EnsureDefaultTenant, ResolveTenantIDBySlug, LoadRow,
                          LoadDefaultTemplateConfig, WriteBack, SaveByTenantSlug
<1>5. QED
  BY <1>1, <1>3, <1>4 DEF Next, GetPublicPayload, Fail, MoveSlug, vars

LEMMA StaysAsHistoriesGrow ==
  ASSUME StoreInv, [Next]_vars, slugOf' = slugOf,
         NEW r \in Request, Carries(r), Stays(r, versions, submitted)
  PROVE  Stays(r, versions', submitted')
<1>1. \A t \in Tenants : versions[t] \subseteq versions'[t] /\ submitted[t] \subseteq submitted'[t]
  BY HistoriesGrow
<1>2. QED
  BY <1>1, StoreAssumption DEF Stays, Carries

(* The one request a step touches: it stays, too. *)
LEMMA RequestsStayIf ==
  ASSUME StoreInv, RequestsStay, [Next]_vars, slugOf' = slugOf,
         NEW p \in Procs, NEW r, req' = [req EXCEPT ![p] = r],
         Stays(r, versions', submitted')
  PROVE  RequestsStay'
<1>0. req \in [Procs -> Request] /\ \A q \in Procs : Carries(req[q])
  BY DEF StoreInv, TypeOK
<1>1. ASSUME NEW q \in Procs
      PROVE  Stays(req'[q], versions', submitted')
  <2>1. CASE q = p
    BY <1>0, <2>1
  <2>2. CASE q # p
    <3>1. req'[q] = req[q]
      BY <1>0, <2>2
    <3>2. Stays(req[q], versions, submitted)
      BY DEF RequestsStay
    <3>3. Stays(req[q], versions', submitted')
      BY <1>0, <3>2, StaysAsHistoriesGrow
    <3>4. QED
      BY <3>1, <3>3
  <2>3. QED
    BY <2>1, <2>2
<1>2. QED
  BY <1>1 DEF RequestsStay, Stays

LEMMA RequestsStayStep ==
  ASSUME ~MidRequest, RaceInv, [Next]_vars
  PROVE  RequestsStay'
<1> SUFFICES ASSUME ~(\E t \in Tenants, s \in Slugs : MoveSlug(t, s))
             PROVE  RequestsStay'
  BY MovesDisturbNobody
<1>0. StoreInv /\ RequestsStay /\ OneSlugEach
  BY DEF RaceInv
<1>a. /\ req \in [Procs -> Request]
      /\ \A p \in Procs : /\ req[p] \in Request
                          /\ Carries(req[p])
                          /\ Stays(req[p], versions, submitted)
      /\ versions \in [Tenants -> SUBSET Doc]
      /\ submitted \in [Tenants -> SUBSET (Users \X Edits)]
      /\ payload \in [Tenants -> Doc \cup {NoRow}]
  BY <1>0 DEF StoreInv, TypeOK, RequestsStay
<1>b. slugOf' = slugOf
  BY SlugsStill
<1>c. \A t, o \in Tenants : slugOf[t] = slugOf[o] => t = o
  BY <1>0 DEF OneSlugEach
<1>d. Stays(Idle, versions', submitted')
  BY DEF Stays, Idle
<1>1. ASSUME NEW p \in Procs, NEW s \in Slugs, GetPublicPayload(p, s)
      PROVE  RequestsStay'
  <2> DEFINE r == [Idle EXCEPT !.pc = Resolution(s), !.slug = s]
  <2>1. Stays(r, versions', submitted')
    BY DEF Stays, Idle, Resolution
  <2>2. req' = [req EXCEPT ![p] = r]
    BY <1>1 DEF GetPublicPayload, Arrive
  <2>3. QED
    BY <1>0, <1>b, <2>1, <2>2, RequestsStayIf
<1>2. ASSUME NEW p \in Procs, NEW u \in Users, NEW s \in Slugs, NEW e \in Edits,
             AuthorizeSetupAccess(p, u, s, e)
      PROVE  RequestsStay'
  <2> DEFINE r == [Idle EXCEPT !.pc = Resolution(s), !.slug = s, !.edit = e, !.user = u,
                               !.cfg = IF e.op = "update" THEN e.doc ELSE BuiltIn,
                               !.loaded = (e.op = "update")]
  <2>1. PICK t \in Tenants : /\ slugOf[t] = s
                            /\ submitted' = [submitted EXCEPT ![t] = @ \cup {<<u, e>>}]
                            /\ req' = [req EXCEPT ![p] = r]
                            /\ versions' = versions
    BY <1>2 DEF AuthorizeSetupAccess, Arrive
  <2>2. \A o \in Tenants : slugOf[o] = s => <<u, e>> \in submitted'[o]
    BY <1>a, <1>c, <2>1
  <2>3. e.op = "update" => Applies(e, BuiltIn) /\ e.doc = Applied(e, BuiltIn)
    BY DEF Applies, Applied
  <2>4. BuiltIn \in versions'[Default]
    BY <1>0, <2>1 DEF StoreInv, Recorded
  <2>5. /\ r.slug = s /\ r.edit = e /\ r.user = u /\ r.pc = Resolution(s)
        /\ r.loaded = (e.op = "update")
        /\ r.cfg = IF e.op = "update" THEN e.doc ELSE BuiltIn
    BY DEF Idle
  <2> HIDE DEF r
  <2>6. Stays(r, versions', submitted')
    BY <2>2, <2>3, <2>4, <2>5 DEF Stays, Resolution
  <2>7. QED
    BY <1>0, <1>b, <2>1, <2>6, RequestsStayIf
<1>3. ASSUME NEW p \in Procs, EnsureDefaultTenant(p)
      PROVE  RequestsStay'
  <2> DEFINE r == [req[p] EXCEPT !.pc = "resolve"]
  <2>1. Stays(r, versions, submitted) /\ UNCHANGED <<versions, submitted>>
    BY <1>a, <1>3 DEF Stays, Request, EnsureDefaultTenant, At
  <2>2. req' = [req EXCEPT ![p] = r]
    BY <1>a, <1>3 DEF EnsureDefaultTenant
  <2>3. QED
    BY <1>0, <1>b, <2>1, <2>2, RequestsStayIf
<1>4. ASSUME NEW p \in Procs, ResolveTenantIDBySlug(p)
      PROVE  RequestsStay'
  <2>1. UNCHANGED <<versions, submitted>>
    BY <1>4 DEF ResolveTenantIDBySlug
  <2>2. CASE Finish(p)
    BY <1>0, <1>b, <1>d, <2>2, RequestsStayIf DEF Finish
  <2>3. ASSUME NEW t \in Tenants, slugOf[t] = req[p].slug,
               req' = [req EXCEPT ![p].tid = t,
                                  ![p].pc = IF req[p].loaded THEN "save" ELSE "first"]
        PROVE  RequestsStay'
    <3> DEFINE r == [req[p] EXCEPT !.tid = t, !.pc = IF req[p].loaded THEN "save" ELSE "first"]
    <3>1. req' = [req EXCEPT ![p] = r]
      BY <1>a, <2>3
    <3>2. /\ r.slug = req[p].slug /\ r.edit = req[p].edit /\ r.user = req[p].user
          /\ r.loaded = req[p].loaded /\ r.cfg = req[p].cfg /\ r.tid = t
          /\ r.pc \in {"first", "save"}
      BY <1>a DEF Request
    <3> HIDE DEF r
    <3>3. req[p].pc = "resolve"
      BY <1>4 DEF ResolveTenantIDBySlug, At
    <3>4. Stays(r, versions, submitted)
      BY <1>a, <2>3, <3>2, <3>3 DEF Stays
    <3>5. QED
      BY <1>0, <1>b, <2>1, <3>1, <3>4, RequestsStayIf
  <2>4. QED
    BY <1>4, <2>2, <2>3 DEF ResolveTenantIDBySlug
<1>5. ASSUME NEW p \in Procs, LoadRow(p)
      PROVE  RequestsStay'
  <2> DEFINE r == IF payload[req[p].tid] = NoRow
                  THEN [req[p] EXCEPT !.pc = "template"]
                  ELSE [req[p] EXCEPT !.cfg = Sanitize(payload[req[p].tid]), !.pc = "writeBack"]
  <2>1. req[p].tid \in Tenants /\ req[p].pc = "first" /\ ~req[p].loaded
    BY <1>a, <1>5 DEF LoadRow, At, Carries, Request
  <2>2. ASSUME payload[req[p].tid] # NoRow
        PROVE  Sanitize(payload[req[p].tid]) \in versions[req[p].tid]
    <3>1. payload[req[p].tid] \in versions[req[p].tid] /\ payload[req[p].tid] \in Doc
      BY <1>0, <1>a, <2>1, <2>2 DEF StoreInv, Recorded
    <3>2. Normal(payload[req[p].tid])
      BY <1>0, <2>1, <3>1 DEF StoreInv, StoredNormalized
    <3>3. QED
      BY <3>1, <3>2, SanitizeNormalizes
  <2>3. /\ r.slug = req[p].slug /\ r.edit = req[p].edit /\ r.user = req[p].user
        /\ r.tid = req[p].tid /\ ~r.loaded /\ r.pc \in {"template", "writeBack"}
        /\ r.pc = "writeBack" => r.cfg \in versions[r.tid]
    BY <1>a, <2>1, <2>2 DEF Request
  <2>4. req' = [req EXCEPT ![p] = r] /\ UNCHANGED <<versions, submitted>>
    BY <1>a, <1>5 DEF LoadRow
  <2> HIDE DEF r
  <2>5. Stays(r, versions, submitted)
    BY <1>a, <2>1, <2>3 DEF Stays
  <2>6. QED
    BY <1>0, <1>b, <2>4, <2>5, RequestsStayIf
<1>6. ASSUME NEW p \in Procs, LoadDefaultTemplateConfig(p)
      PROVE  RequestsStay'
  <2> DEFINE c == IF payload[Default] = NoRow THEN BuiltIn ELSE Sanitize(payload[Default])
             r == [req[p] EXCEPT !.cfg = c, !.pc = "writeBack"]
  <2>1. req[p].tid \in Tenants /\ req[p].pc = "template" /\ ~req[p].loaded
    BY <1>a, <1>6 DEF LoadDefaultTemplateConfig, At, Carries, Request
  <2>2. c \in versions[Default]
    <3>1. CASE payload[Default] = NoRow
      BY <1>0, <3>1 DEF StoreInv, Recorded
    <3>2. CASE payload[Default] # NoRow
      <4>1. payload[Default] \in versions[Default] /\ payload[Default] \in Doc
        BY <1>0, <1>a, <3>2, StoreAssumption DEF StoreInv, Recorded
      <4>2. Normal(payload[Default])
        BY <1>0, <4>1, StoreAssumption DEF StoreInv, StoredNormalized
      <4>3. QED
        BY <3>2, <4>1, <4>2, SanitizeNormalizes
    <3>3. QED
      BY <3>1, <3>2
  <2> HIDE DEF c
  <2>3. /\ r.slug = req[p].slug /\ r.edit = req[p].edit /\ r.user = req[p].user
        /\ r.tid = req[p].tid /\ ~r.loaded /\ r.pc = "writeBack" /\ r.cfg = c
    BY <1>a, <2>1 DEF Request
  <2>4. req' = [req EXCEPT ![p] = r] /\ UNCHANGED <<versions, submitted>>
    BY <1>a, <1>6 DEF LoadDefaultTemplateConfig, c
  <2> HIDE DEF r
  <2>5. Stays(r, versions, submitted)
    BY <1>a, <2>1, <2>2, <2>3 DEF Stays
  <2>6. QED
    BY <1>0, <1>b, <2>4, <2>5, RequestsStayIf
<1>7. ASSUME NEW p \in Procs, WriteBack(p)
      PROVE  RequestsStay'
  <2> DEFINE e == req[p].edit
             c == req[p].cfg
             r == [req[p] EXCEPT !.cfg = Applied(e, c), !.loaded = TRUE,
                                 !.pc = Resolution(req[p].slug)]
  <2>1. CASE e # None /\ Applies(e, c)
    <3>1. req' = [req EXCEPT ![p] = r]
      BY <1>a, <1>7, <2>1 DEF WriteBack
    <3>2. /\ r.slug = req[p].slug /\ r.edit = e /\ r.user = req[p].user
          /\ r.pc \in {"ensureDefault", "resolve"} /\ r.cfg = Applied(e, c)
      BY <1>a DEF Request, Resolution
    <3> HIDE DEF r
    <3>3. /\ req[p].pc = "writeBack" /\ req[p].tid \in Tenants
          /\ slugOf[req[p].tid] = req[p].slug
          /\ c \in versions[req[p].tid] \cup versions[Default]
          /\ \A t \in Tenants : slugOf[t] = req[p].slug => <<req[p].user, e>> \in submitted[t]
      BY <1>a, <1>7, <2>1 DEF WriteBack, At, Carries, Stays
    <3>4. UNCHANGED submitted /\ \A t \in Tenants : versions[t] \subseteq versions'[t]
      BY <1>0, <1>7, HistoriesGrow DEF WriteBack
    <3>5. \A t \in Tenants : slugOf[t] = req[p].slug => t = req[p].tid
      BY <1>c, <3>3
    <3>6. Stays(r, versions', submitted')
      BY <2>1, <3>2, <3>3, <3>4, <3>5, StoreAssumption DEF Stays
    <3>7. QED
      BY <1>0, <1>b, <3>1, <3>6, RequestsStayIf
  <2>2. CASE ~(e # None /\ Applies(e, c))
    BY <1>0, <1>b, <1>d, <1>7, <2>2, RequestsStayIf DEF WriteBack, Finish
  <2>3. QED
    BY <2>1, <2>2
<1>8. ASSUME NEW p \in Procs, SaveByTenantSlug(p) \/ Fail(p)
      PROVE  RequestsStay'
  BY <1>0, <1>b, <1>d, <1>8, RequestsStayIf DEF SaveByTenantSlug, Fail, Finish
<1>9. CASE UNCHANGED vars
  BY <1>0, <1>9 DEF vars, RequestsStay, Stays
<1>10. QED
  BY <1>1, <1>2, <1>3, <1>4, <1>5, <1>6, <1>7, <1>8, <1>9 DEF Next, Proceed

LEMMA RaceInvStep == ~MidRequest /\ RaceInv /\ [Next]_vars => RaceInv'
<1> SUFFICES ASSUME ~MidRequest, RaceInv, [Next]_vars PROVE OneSlugEach'
  BY StoreInvStep, RequestsStayStep DEF RaceInv
<1>1. CASE \E t \in Tenants, s \in Slugs : MoveSlug(t, s)
  BY <1>1, MovesDisturbNobody
<1>2. CASE ~(\E t \in Tenants, s \in Slugs : MoveSlug(t, s))
  BY <1>2, SlugsStill DEF RaceInv, OneSlugEach
<1>3. QED
  BY <1>1, <1>2

(* As long as no slug moves that a request in flight names, no request      *)
(* strays from the tenant its user was authorized for.                      *)
THEOREM RequestsStayPut == ~MidRequest => (Spec => []RequestsStay)
<1>1. SUFFICES ASSUME ~MidRequest PROVE Spec => []RequestsStay
  OBVIOUS
<1>2. RaceInv /\ [Next]_vars => RaceInv'
  BY <1>1, RaceInvStep
<1>3. QED
  BY <1>2, InitRaceInv, PTL DEF Spec, RaceInv

-----------------------------------------------------------------------------
(* Under the same condition the store implements ConfigHistory.            *)

LEMMA HistoryInit == Init => History!Init
BY DEF Init, History!Init

LEMMA SaveIsStore ==
  ASSUME NEW t \in Tenants, NEW d, SaveByTenantID(t, d), UNCHANGED submitted
  PROVE  History!Store(t, d)
BY DEF SaveByTenantID, History!Store

LEMMA HistoryStep ==
  ASSUME ~MidRequest, RaceInv, [Next]_vars
  PROVE  [History!Next]_(History!vars)
<1>0. /\ \A p \in Procs : /\ req[p] \in Request
                          /\ Carries(req[p])
                          /\ Stays(req[p], versions, submitted)
      /\ BuiltIn \in versions[Default]
      /\ submitted \in [Tenants -> SUBSET (Users \X Edits)]
  BY DEF RaceInv, StoreInv, TypeOK, Recorded, RequestsStay
<1>1. CASE UNCHANGED <<payload, versions, submitted>>
  BY <1>1 DEF History!vars
<1>2. ASSUME NEW p \in Procs, NEW u \in Users, NEW s \in Slugs, NEW e \in Edits,
             AuthorizeSetupAccess(p, u, s, e)
      PROVE  History!Next
  <2>1. PICK t \in Tenants : MayEdit(u, t) /\ submitted' = [submitted EXCEPT ![t] = @ \cup {<<u, e>>}]
    BY <1>2 DEF AuthorizeSetupAccess
  <2>2. History!Submit(t, u, e)
    BY <1>2, <2>1 DEF AuthorizeSetupAccess, MayEdit, History!Submit
  <2>3. QED
    BY <2>2 DEF History!Next
<1>3. ASSUME NEW p \in Procs, WriteBack(p)
      PROVE  History!Next
  <2> DEFINE t == req[p].tid
  <2>1. t \in Tenants /\ req[p].cfg \in versions[t] \cup versions[Default]
    BY <1>0, <1>3 DEF WriteBack, At, Carries, Stays
  <2>2. History!Store(t, req[p].cfg)
    BY <1>3, <2>1, SaveIsStore DEF WriteBack
  <2>3. History!Write(t)
    BY <2>1, <2>2 DEF History!Write
  <2>4. QED
    BY <2>1, <2>3 DEF History!Next
<1>4. ASSUME NEW p \in Procs, SaveByTenantSlug(p)
      PROVE  History!Next
  <2> DEFINE t == req[p].tid
             e == req[p].edit
  <2>1. /\ t \in Tenants /\ slugOf[t] = req[p].slug
        /\ req[p].pc # "idle" /\ e # None /\ req[p].loaded
    BY <1>0, <1>4 DEF SaveByTenantSlug, At, Carries, Stays
  <2>2. <<req[p].user, e>> \in submitted[t]
    BY <1>0, <2>1 DEF Stays
  <2>3. PICK base \in versions[t] \cup versions[Default] :
          Applies(e, base) /\ req[p].cfg = Applied(e, base)
    BY <1>0, <2>1 DEF Stays
  <2>4. History!Store(t, Sanitize(Applied(e, base)))
    BY <1>4, <2>1, <2>3, SaveIsStore DEF SaveByTenantSlug
  <2>5. \E x \in submitted[t] : x[2] = e
    BY <2>2
  <2>6. History!Applies(e, base) /\ History!Store(t, History!Sanitize(History!Applied(e, base)))
    BY <2>3, <2>4 DEF Applies, Applied, Sanitize, History!Applies, History!Applied, History!Sanitize
  <2>7. History!Write(t)
    BY <2>3, <2>5, <2>6 DEF History!Write
  <2>8. QED
    BY <2>1, <2>7 DEF History!Next
<1>5. QED
  BY <1>1, <1>2, <1>3, <1>4
  DEF Next, Proceed, GetPublicPayload, EnsureDefaultTenant, ResolveTenantIDBySlug, LoadRow,
      LoadDefaultTemplateConfig, MoveSlug, Fail, vars

(* Under that condition the handlers keep the promise for racing clients:   *)
(* a tenant stores only versions it stored before, the template's, or one   *)
(* of its own editors' accepted edits of these.                             *)
THEOREM ImplementsHistory == ~MidRequest => (Spec => HistorySpec)
<1>1. SUFFICES ASSUME ~MidRequest PROVE Spec => HistorySpec
  OBVIOUS
<1>2. RaceInv /\ [Next]_vars => RaceInv' /\ [History!Next]_(History!vars)
  BY <1>1, RaceInvStep, HistoryStep
<1>3. QED
  BY <1>2, InitRaceInv, HistoryInit, PTL DEF Spec, HistorySpec, History!Spec

-----------------------------------------------------------------------------
(* With one request at a time, under the same condition, it implements     *)
(* ConfigRegister too: what the request found in the table is still there  *)
(* when it writes.                                                         *)

Alone == \A p, q \in Procs : p = q

\* What an edit made of the loaded document of t, or brought with it.
Made(r, c, t) ==
  /\ r.edit.op = "update" => r.cfg = r.edit.doc
  /\ r.edit.op # "update" => c[t] # NoRow /\ Applies(r.edit, c[t]) /\ r.cfg = Applied(r.edit, c[t])

\* The table is as the request r has read it.
Fresh(r, c) ==
  /\ r.pc = "idle" => r = Idle
  /\ r.pc = "template" => c[r.tid] = NoRow
  /\ r.pc = "writeBack" => r.cfg = IF c[r.tid] = NoRow THEN c[Default] ELSE c[r.tid]
  /\ r.loaded => \A t \in Tenants : slugOf[t] = r.slug => Made(r, c, t)

AloneInv ==
  /\ RaceInv
  /\ payload[Default] # NoRow
  /\ \A p \in Procs : Fresh(req[p], payload)

\* The edit at work of a request, as Pending has it.
AtWork(s, r) == {x \in Tenants \X Edits : s[x[1]] = r.slug /\ r.edit = x[2]}

LEMMA InitAloneInv == Init => AloneInv
<1> SUFFICES ASSUME Init PROVE AloneInv
  OBVIOUS
<1>1. payload[Default] = BuiltIn /\ BuiltIn \in Doc /\ NoRow \notin Doc
  BY StoreAssumption, ConfigAssumption DEF Init
<1>2. \A p \in Procs : Fresh(req[p], payload)
  BY DEF Init, Fresh, Idle
<1>3. QED
  BY <1>1, <1>2, InitRaceInv DEF AloneInv

LEMMA PendingAlone ==
  ASSUME Alone, NEW p \in Procs
  PROVE  Pending = AtWork(slugOf, req[p]) /\ Pending' = AtWork(slugOf', req'[p])
BY DEF Alone, Pending, AtWork

LEMMA NothingAtWork == ASSUME NEW s, NEW r, r.edit = None PROVE AtWork(s, r) = {}
BY StoreAssumption DEF AtWork

(* What a step of the only request leaves for the invariant and the        *)
(* register: its next state r, the documents, the slugs as they are.       *)
LEMMA AloneProceeds ==
  ASSUME Alone, ~MidRequest, AloneInv, [Next]_vars, NEW p \in Procs, NEW r \in Request,
         req' = [req EXCEPT ![p] = r], slugOf' = slugOf,
         payload' \in [Tenants -> Doc \cup {NoRow}], payload'[Default] # NoRow,
         Fresh(r, payload')
  PROVE  AloneInv'
<1>1. RaceInv'
  BY RaceInvStep DEF AloneInv
<1>2. \A q \in Procs : req'[q] = r
  BY DEF Alone, AloneInv, RaceInv, StoreInv, TypeOK
<1>3. \A q \in Procs : Fresh(req[q], payload)'
  BY <1>2 DEF Fresh, Made
<1>4. QED
  BY <1>1, <1>3 DEF AloneInv

LEMMA AloneStep ==
  ASSUME Alone, ~MidRequest, AloneInv, [Next]_vars
  PROVE  AloneInv' /\ [Register!Next]_(Register!vars)
<1>0. /\ slugOf \in [Tenants -> Slugs] /\ payload \in [Tenants -> Doc \cup {NoRow}]
      /\ payload[Default] # NoRow /\ Default \in Tenants /\ None \notin Edits /\ NoRow \notin Doc
      /\ \A t, o \in Tenants : slugOf[t] = slugOf[o] => t = o
      /\ req \in [Procs -> Request]
      /\ StoreInv /\ RaceInv
  BY StoreAssumption DEF AloneInv, RaceInv, StoreInv, TypeOK, OneSlugEach
<1>a. \A p \in Procs : /\ req[p] \in Request
                       /\ Carries(req[p])
                       /\ Stays(req[p], versions, submitted)
                       /\ Fresh(req[p], payload)
  BY <1>0 DEF AloneInv, RaceInv, StoreInv, RequestsStay
<1>b. \A t \in Tenants : payload[t] # NoRow => payload[t] \in Doc /\ Sanitize(payload[t]) = payload[t]
  BY <1>0, SanitizeNormalizes DEF StoreInv, StoredNormalized, Recorded
<1>c. Idle \in Request /\ \A c : Fresh(Idle, c)
  BY IdleIsRequest DEF Fresh, Idle
<1>d. ASSUME NEW p \in Procs, req' = [req EXCEPT ![p] = Idle], UNCHANGED <<slugOf, payload>>
      PROVE  AloneInv' /\ [Register!Next]_(Register!vars)
  <2>1. AloneInv'
    BY <1>0, <1>c, <1>d, AloneProceeds
  <2>2. Pending' = {}
    <3>1. req'[p] = Idle /\ Idle.edit = None
      BY <1>0, <1>d DEF Idle
    <3>2. QED
      BY <3>1, PendingAlone, NothingAtWork
  <2>3. Register!Cancel
    BY <1>d, <2>2 DEF Register!Cancel
  <2>4. QED
    BY <2>1, <2>3 DEF Register!Next
<1>e. ASSUME NEW p \in Procs, NEW r \in Request, Fresh(r, payload),
             req' = [req EXCEPT ![p] = r], UNCHANGED <<slugOf, payload>>,
             AtWork(slugOf, r) = AtWork(slugOf, req[p])
      PROVE  AloneInv' /\ [Register!Next]_(Register!vars)
  <2>1. AloneInv'
    BY <1>0, <1>e, AloneProceeds
  <2>2. req'[p] = r
    BY <1>0, <1>e
  <2>3. Pending' = Pending
    BY <1>e, <2>2, PendingAlone
  <2>4. QED
    BY <1>e, <2>1, <2>3 DEF Register!vars
<1>1. ASSUME NEW p \in Procs, NEW s \in Slugs, GetPublicPayload(p, s)
      PROVE  AloneInv' /\ [Register!Next]_(Register!vars)
  <2> DEFINE r == [Idle EXCEPT !.pc = Resolution(s), !.slug = s]
  <2>1. /\ req' = [req EXCEPT ![p] = r] /\ UNCHANGED <<slugOf, payload>>
        /\ req[p] = Idle
    BY <1>a, <1>1 DEF GetPublicPayload, Arrive, At, Fresh
  <2>2. r \in Request /\ r.edit = None /\ Idle.edit = None /\ ~r.loaded /\ r.pc \in {"ensureDefault", "resolve"}
    BY <1>c DEF Idle, Request, Resolution
  <2> HIDE DEF r
  <2>3. Fresh(r, payload)
    BY <2>2 DEF Fresh
  <2>4. AtWork(slugOf, r) = AtWork(slugOf, req[p])
    BY <2>1, <2>2, NothingAtWork
  <2>5. QED
    BY <1>e, <2>1, <2>2, <2>3, <2>4
<1>2. ASSUME NEW p \in Procs, NEW u \in Users, NEW s \in Slugs, NEW e \in Edits,
             AuthorizeSetupAccess(p, u, s, e)
      PROVE  AloneInv' /\ [Register!Next]_(Register!vars)
  <2> DEFINE d == IF e.op = "update" THEN e.doc ELSE BuiltIn
             r == [Idle EXCEPT !.pc = Resolution(s), !.slug = s, !.edit = e, !.user = u,
                               !.cfg = IF e.op = "update" THEN e.doc ELSE BuiltIn,
                               !.loaded = (e.op = "update")]
  <2>1. PICK t \in Tenants : slugOf[t] = s /\ Arrive(p, r)
    BY <1>2 DEF AuthorizeSetupAccess
  <2>2. /\ req' = [req EXCEPT ![p] = r] /\ UNCHANGED <<slugOf, payload>>
        /\ req[p] = Idle
    BY <1>2, <1>a, <2>1 DEF AuthorizeSetupAccess, Arrive, At, Fresh
  <2>3. d \in Doc
    BY UpdateHasDoc, ConfigAssumption
  <2>4. /\ r \in Request /\ r.edit = e /\ r.slug = s /\ r.pc \in {"ensureDefault", "resolve"}
        /\ r.loaded = (e.op = "update") /\ r.cfg = d
    BY <1>c, <2>3 DEF Idle, Request, Resolution
  <2> HIDE DEF r
  <2>5. Fresh(r, payload)
    BY <2>4 DEF Fresh, Made
  <2>6. AloneInv'
    BY <1>0, <2>2, <2>4, <2>5, AloneProceeds
  <2>7. req'[p] = r
    BY <1>0, <2>2
  <2>8. Pending = {}
    <3>1. req[p].edit = None
      BY <2>2 DEF Idle
    <3>2. QED
      BY <3>1, PendingAlone, NothingAtWork
  <2>9. Pending' = {<<t, e>>}
    <3>1. AtWork(slugOf, r) = {<<t, e>>}
      BY <1>0, <2>1, <2>4 DEF AtWork
    <3>2. QED
      BY <2>2, <2>7, <3>1, PendingAlone
  <2>10. Register!Accept(t, e)
    BY <2>2, <2>8, <2>9 DEF Register!Accept
  <2>11. QED
    BY <2>6, <2>10 DEF Register!Next
<1>3. ASSUME NEW p \in Procs, EnsureDefaultTenant(p)
      PROVE  AloneInv' /\ [Register!Next]_(Register!vars)
  <2> DEFINE r == [req[p] EXCEPT !.pc = "resolve"]
  <2>1. req' = [req EXCEPT ![p] = r] /\ payload' = payload
    BY <1>0, <1>3 DEF EnsureDefaultTenant, Request
  <2>2. slugOf' = slugOf
    BY <1>0, <1>3 DEF EnsureDefaultTenant, RaceInv, OneSlugEach
  <2>3. r \in Request /\ r.pc = "resolve" /\ r.slug = req[p].slug /\ r.edit = req[p].edit
        /\ r.loaded = req[p].loaded /\ r.cfg = req[p].cfg
    BY <1>a DEF Request
  <2> HIDE DEF r
  <2>4. Fresh(r, payload) /\ AtWork(slugOf, r) = AtWork(slugOf, req[p])
    BY <1>a, <2>3 DEF Fresh, Made, AtWork
  <2>5. QED
    BY <1>e, <2>1, <2>2, <2>3, <2>4
<1>4. ASSUME NEW p \in Procs, ResolveTenantIDBySlug(p)
      PROVE  AloneInv' /\ [Register!Next]_(Register!vars)
  <2>1. UNCHANGED <<slugOf, payload>>
    BY <1>4 DEF ResolveTenantIDBySlug
  <2>2. CASE Finish(p)
    BY <1>d, <2>1, <2>2 DEF Finish
  <2>3. ASSUME NEW t \in Tenants,
               req' = [req EXCEPT ![p].tid = t,
                                  ![p].pc = IF req[p].loaded THEN "save" ELSE "first"]
        PROVE  AloneInv' /\ [Register!Next]_(Register!vars)
    <3> DEFINE r == [req[p] EXCEPT !.tid = t, !.pc = IF req[p].loaded THEN "save" ELSE "first"]
    <3>1. req' = [req EXCEPT ![p] = r]
      BY <1>0, <2>3 DEF Request
    <3>2. r \in Request /\ r.pc \in {"first", "save"} /\ r.slug = req[p].slug /\ r.edit = req[p].edit
          /\ r.loaded = req[p].loaded /\ r.cfg = req[p].cfg
      BY <1>a DEF Request
    <3> HIDE DEF r
    <3>3. Fresh(r, payload) /\ AtWork(slugOf, r) = AtWork(slugOf, req[p])
      BY <1>a, <3>2 DEF Fresh, Made, AtWork
    <3>4. QED
      BY <1>e, <2>1, <3>1, <3>2, <3>3
  <2>4. QED
    BY <1>4, <2>2, <2>3 DEF ResolveTenantIDBySlug
<1>5. ASSUME NEW p \in Procs, LoadRow(p)
      PROVE  AloneInv' /\ [Register!Next]_(Register!vars)
  <2> DEFINE r == IF payload[req[p].tid] = NoRow
                  THEN [req[p] EXCEPT !.pc = "template"]
                  ELSE [req[p] EXCEPT !.cfg = Sanitize(payload[req[p].tid]), !.pc = "writeBack"]
  <2>1. req[p].tid \in Tenants /\ ~req[p].loaded
    BY <1>a, <1>5 DEF LoadRow, At, Carries, Request
  <2>2. req' = [req EXCEPT ![p] = r] /\ UNCHANGED <<slugOf, payload>>
    BY <1>0, <1>5 DEF LoadRow, Request
  <2>3. /\ r \in Request /\ r.slug = req[p].slug /\ r.edit = req[p].edit /\ ~r.loaded
        /\ r.tid = req[p].tid
        /\ \/ r.pc = "template" /\ payload[r.tid] = NoRow
           \/ r.pc = "writeBack" /\ payload[r.tid] # NoRow /\ r.cfg = payload[r.tid]
    BY <1>a, <1>b, <2>1 DEF Request
  <2> HIDE DEF r
  <2>4. Fresh(r, payload) /\ AtWork(slugOf, r) = AtWork(slugOf, req[p])
    BY <2>3 DEF Fresh, AtWork
  <2>5. QED
    BY <1>e, <2>2, <2>3, <2>4
<1>6. ASSUME NEW p \in Procs, LoadDefaultTemplateConfig(p)
      PROVE  AloneInv' /\ [Register!Next]_(Register!vars)
  <2> DEFINE c == IF payload[Default] = NoRow THEN BuiltIn ELSE Sanitize(payload[Default])
             r == [req[p] EXCEPT !.cfg = c, !.pc = "writeBack"]
  <2>1. req[p].tid \in Tenants /\ ~req[p].loaded /\ payload[req[p].tid] = NoRow
    BY <1>a, <1>6 DEF LoadDefaultTemplateConfig, At, Carries, Request, Fresh
  <2>2. req' = [req EXCEPT ![p] = r] /\ UNCHANGED <<slugOf, payload>>
    BY <1>0, <1>6 DEF LoadDefaultTemplateConfig, Request
  <2>3. c = payload[Default] /\ c \in Doc
    BY <1>0, <1>b
  <2> HIDE DEF c
  <2>4. /\ r \in Request /\ r.slug = req[p].slug /\ r.edit = req[p].edit /\ ~r.loaded
        /\ r.tid = req[p].tid /\ r.pc = "writeBack" /\ r.cfg = c
    BY <1>a, <2>1, <2>3 DEF Request
  <2> HIDE DEF r
  <2>5. Fresh(r, payload) /\ AtWork(slugOf, r) = AtWork(slugOf, req[p])
    BY <2>1, <2>3, <2>4 DEF Fresh, AtWork
  <2>6. QED
    BY <1>e, <2>2, <2>4, <2>5 DEF c
<1>7. ASSUME NEW p \in Procs, WriteBack(p)
      PROVE  AloneInv' /\ [Register!Next]_(Register!vars)
  <2> DEFINE t == req[p].tid
             e == req[p].edit
             c == req[p].cfg
             more == [req[p] EXCEPT !.cfg = Applied(e, c), !.loaded = TRUE,
                                    !.pc = Resolution(req[p].slug)]
  <2>1. /\ t \in Tenants /\ slugOf[t] = req[p].slug /\ c \in Doc /\ ~req[p].loaded
        /\ c = IF payload[t] = NoRow THEN payload[Default] ELSE payload[t]
    BY <1>a, <1>7 DEF WriteBack, At, Carries, Request, Stays, Fresh
  <2>2. payload' = [payload EXCEPT ![t] = c] /\ slugOf' = slugOf
    BY <1>7 DEF WriteBack, SaveByTenantID
  <2>3. /\ payload' \in [Tenants -> Doc \cup {NoRow}] /\ payload'[t] = c
        /\ payload'[Default] # NoRow
    BY <1>0, <2>1, <2>2
  <2>4. PICK r \in Request :
          /\ req' = [req EXCEPT ![p] = r]
          /\ Fresh(r, payload')
          /\ AtWork(slugOf, r) \in {AtWork(slugOf, req[p]), {}}
    <3>1. CASE e # None /\ Applies(e, c)
      <4>1. e \in Edits /\ Applied(e, c) \in Doc
        BY <1>a, <2>1, <3>1, AppliedIsDoc DEF Request
      <4>2. req' = [req EXCEPT ![p] = more]
        BY <1>0, <1>7, <3>1 DEF WriteBack, Request
      <4>3. /\ more \in Request /\ more.slug = req[p].slug /\ more.edit = e
            /\ more.cfg = Applied(e, c) /\ more.pc \in {"ensureDefault", "resolve"}
        BY <1>a, <4>1 DEF Request, Resolution
      <4> HIDE DEF more
      <4>4. \A o \in Tenants : slugOf[o] = more.slug => o = t
        BY <1>0, <2>1, <4>3
      <4>5. e.op = "update" => Applied(e, c) = e.doc
        BY DEF Applied
      <4>6. Made(more, payload', t)
        BY <1>0, <2>1, <2>3, <3>1, <4>3, <4>5 DEF Made
      <4>7. Fresh(more, payload')
        BY <4>3, <4>4, <4>6 DEF Fresh
      <4>8. AtWork(slugOf, more) = AtWork(slugOf, req[p])
        BY <4>3 DEF AtWork
      <4>9. QED
        BY <4>2, <4>3, <4>7, <4>8
    <3>2. CASE ~(e # None /\ Applies(e, c))
      <4>1. req' = [req EXCEPT ![p] = Idle]
        BY <1>7, <3>2 DEF WriteBack, Finish
      <4>2. AtWork(slugOf, Idle) = {}
        BY NothingAtWork DEF Idle
      <4>3. QED
        BY <1>c, <4>1, <4>2
    <3>3. QED
      BY <3>1, <3>2
  <2>5. AloneInv'
    BY <2>2, <2>3, <2>4, AloneProceeds
  <2>6. Pending' \in {Pending, {}}
    <3>1. req'[p] = r
      BY <1>0, <2>4
    <3>2. QED
      BY <2>2, <2>4, <3>1, PendingAlone
  <2>7. CASE payload[t] = NoRow
    <3>1. Pending \subseteq {t} \X Edits
      BY <1>0, <2>1, PendingAlone DEF AtWork
    <3>2. Register!Instantiate(t)
      BY <2>1, <2>2, <2>6, <2>7, <3>1 DEF Register!Instantiate
    <3>3. QED
      BY <2>1, <2>5, <3>2 DEF Register!Next
  <2>8. CASE payload[t] # NoRow
    <3>1. payload' = payload
      BY <1>0, <2>1, <2>2, <2>8
    <3>2. CASE Pending' = Pending
      BY <2>5, <3>1, <3>2 DEF Register!vars
    <3>3. CASE Pending' = {}
      BY <2>5, <3>1, <3>3 DEF Register!Next, Register!Cancel
    <3>4. QED
      BY <2>6, <3>2, <3>3
  <2>9. QED
    BY <2>7, <2>8
<1>8. ASSUME NEW p \in Procs, SaveByTenantSlug(p)
      PROVE  AloneInv' /\ [Register!Next]_(Register!vars)
  <2> DEFINE t == req[p].tid
             e == req[p].edit
             d == Sanitize(req[p].cfg)
  <2>1. /\ t \in Tenants /\ slugOf[t] = req[p].slug /\ e \in Edits /\ req[p].cfg \in Doc
        /\ Made(req[p], payload, t)
    BY <1>a, <1>8 DEF SaveByTenantSlug, At, Carries, Request, Stays, Fresh
  <2>2. /\ payload' = [payload EXCEPT ![t] = d] /\ slugOf' = slugOf
        /\ req' = [req EXCEPT ![p] = Idle]
    BY <1>8 DEF SaveByTenantSlug, SaveByTenantID, Finish
  <2>3. d \in Doc
    BY <2>1, SanitizeNormalizes
  <2> HIDE DEF d
  <2>4. payload' \in [Tenants -> Doc \cup {NoRow}] /\ payload'[Default] # NoRow
    BY <1>0, <2>1, <2>2, <2>3
  <2>5. AloneInv'
    BY <1>c, <2>2, <2>4, AloneProceeds
  <2>6. Pending' = {}
    <3>1. req'[p] = Idle /\ Idle.edit = None
      BY <1>0, <2>2 DEF Idle
    <3>2. QED
      BY <3>1, PendingAlone, NothingAtWork
  <2>7. <<t, e>> \in Pending
    BY <2>1, PendingAlone DEF AtWork
  <2>8. /\ req[p].cfg = Applied(e, payload[t])
        /\ e.op # "update" => payload[t] # NoRow /\ Applies(e, payload[t])
    BY <2>1 DEF Made, Applied
  <2>9. Register!Commit(t, e)
    BY <2>2, <2>6, <2>7, <2>8
    DEF d, Register!Commit, Applies, Applied, Sanitize, Register!Applies, Register!Applied, Register!Sanitize
  <2>10. QED
    BY <2>1, <2>5, <2>9 DEF Register!Next
<1>9. ASSUME NEW p \in Procs, Fail(p)
      PROVE  AloneInv' /\ [Register!Next]_(Register!vars)
  BY <1>d, <1>9 DEF Fail, Finish
<1>10. ASSUME NEW t \in Tenants, NEW s \in Slugs, MoveSlug(t, s)
       PROVE  AloneInv' /\ [Register!Next]_(Register!vars)
  <2>1. /\ UNCHANGED <<payload, req>>
        /\ slugOf' = [slugOf EXCEPT ![t] = s]
        /\ \A p \in Procs : req[p].pc = "idle" \/ req[p].slug \notin {slugOf[t], s}
    BY <1>10 DEF MoveSlug, Undisturbed, At
  <2>2. ASSUME NEW p \in Procs
        PROVE  /\ Fresh(req[p], payload)'
               /\ AtWork(slugOf', req[p]) = AtWork(slugOf, req[p])
    <3>1. CASE req[p].pc = "idle"
      <4>1. req[p] = Idle /\ Idle.edit = None /\ ~Idle.loaded /\ Idle.pc = "idle"
        BY <1>a, <3>1 DEF Fresh, Idle
      <4>2. AtWork(slugOf', req[p]) = {} /\ AtWork(slugOf, req[p]) = {}
        BY <4>1, NothingAtWork
      <4>3. Fresh(req[p], payload)'
        BY <2>1, <4>1 DEF Fresh
      <4>4. QED
        BY <4>2, <4>3
    <3>2. CASE req[p].slug \notin {slugOf[t], s}
      <4>1. \A o \in Tenants : slugOf'[o] = req[p].slug <=> slugOf[o] = req[p].slug
        BY <1>0, <2>1, <3>2
      <4>2. Fresh(req[p], payload)'
        BY <1>a, <2>1, <4>1 DEF Fresh, Made
      <4>3. QED
        BY <4>1, <4>2 DEF AtWork
    <3>3. QED
      BY <2>1, <3>1, <3>2
  <2>3. AloneInv'
    BY <1>0, <2>1, <2>2, RaceInvStep DEF AloneInv
  <2>4. Pending' = Pending
    <3>1. Pending = UNION {AtWork(slugOf, req[p]) : p \in Procs}
      BY DEF Pending, AtWork
    <3>2. Pending' = UNION {AtWork(slugOf', req'[p]) : p \in Procs}
      BY DEF Pending, AtWork
    <3>3. QED
      BY <2>1, <2>2, <3>1, <3>2
  <2>5. QED
    BY <2>1, <2>3, <2>4 DEF Register!vars
<1>11. CASE UNCHANGED vars
  <2>1. UNCHANGED <<slugOf, payload, req>>
    BY <1>11 DEF vars
  <2>2. Pending' = Pending
    BY <2>1 DEF Pending
  <2>3. \A p \in Procs : Fresh(req[p], payload)'
    BY <1>a, <2>1 DEF Fresh, Made
  <2>4. QED
    BY <1>0, <2>1, <2>2, <2>3, RaceInvStep DEF AloneInv, Register!vars
<1>12. QED
  BY <1>1, <1>2, <1>3, <1>4, <1>5, <1>6, <1>7, <1>8, <1>9, <1>10, <1>11 DEF Next, Proceed

LEMMA RegisterInit == Init => Register!Init
<1> SUFFICES ASSUME Init PROVE Register!Init
  OBVIOUS
<1>1. \A p \in Procs : req[p].edit = None
  BY DEF Init, Idle
<1>2. Pending = {}
  BY <1>1, StoreAssumption DEF Pending
<1>3. QED
  BY <1>2 DEF Init, Register!Init

(* A client that is alone finds a register: its edit takes effect at once,  *)
(* exactly once or not at all, on what the tenant held or on the template,  *)
(* though Load and Save are two transactions and each finds the tenant anew. *)
THEOREM ImplementsRegister == Alone /\ ~MidRequest => (Spec => RegisterSpec)
<1>1. SUFFICES ASSUME Alone, ~MidRequest PROVE Spec => RegisterSpec
  OBVIOUS
<1>2. AloneInv /\ [Next]_vars => AloneInv' /\ [Register!Next]_(Register!vars)
  BY <1>1, AloneStep
<1>3. QED
  BY <1>2, InitAloneInv, RegisterInit, PTL DEF Spec, RegisterSpec, Register!Spec

-----------------------------------------------------------------------------
(* Sorting, without recursion: an element is where the number of those     *)
(* before it puts it.                                                      *)

\* The elements of I with what comes before each, in an order of all of them.
Orders(b, I) ==
  /\ b \in [I -> SUBSET I]
  /\ \A i \in I : i \notin b[i]
  /\ \A i, j \in I : i # j => i \in b[j] \/ j \in b[i]
  /\ \A i, j, k \in I : i \in b[j] /\ j \in b[k] => i \in b[k]

\* In an order, each number of predecessors belongs to one element.
LEMMA Ranks ==
  ASSUME NEW I, IsFiniteSet(I), NEW b, Orders(b, I)
  PROVE  /\ \A i, j \in I : i \in b[j] => Cardinality(b[i]) < Cardinality(b[j])
         /\ \A i, j \in I : Cardinality(b[i]) = Cardinality(b[j]) => i = j
         /\ \A k \in 1 .. Cardinality(I) : \E i \in I : Cardinality(b[i]) = k - 1
<1> DEFINE n == Cardinality(I)
           f == [i \in I |-> Cardinality(b[i]) + 1]
<1>1. n \in Nat
  BY FS_CardinalityType
<1>2. ASSUME NEW i \in I
      PROVE  IsFiniteSet(b[i]) /\ Cardinality(b[i]) \in Nat /\ Cardinality(b[i]) < n
  <2>1. b[i] \in SUBSET I /\ b[i] # I
    BY DEF Orders
  <2>2. /\ IsFiniteSet(b[i]) /\ Cardinality(b[i]) <= n /\ n # Cardinality(b[i])
    BY <2>1, FS_Subset
  <2>3. Cardinality(b[i]) \in Nat
    BY <2>2, FS_CardinalityType
  <2>4. QED
    BY <1>1, <2>2, <2>3
<1>3. ASSUME NEW i \in I, NEW j \in I, i \in b[j]
      PROVE  Cardinality(b[i]) < Cardinality(b[j])
  <2>1. b[i] \in SUBSET b[j] /\ b[i] # b[j]
    BY <1>3 DEF Orders
  <2>2. Cardinality(b[i]) <= Cardinality(b[j]) /\ Cardinality(b[j]) # Cardinality(b[i])
    BY <1>2, <2>1, FS_Subset
  <2>3. QED
    BY <1>2, <2>2
<1>4. ASSUME NEW i \in I, NEW j \in I, Cardinality(b[i]) = Cardinality(b[j])
      PROVE  i = j
  <2>1. i \notin b[j] /\ j \notin b[i]
    BY <1>2, <1>3, <1>4
  <2>2. QED
    BY <2>1 DEF Orders
<1>5. \A k \in 1 .. n : \E i \in I : Cardinality(b[i]) = k - 1
  <2> HIDE DEF n
  <2>1. f \in [I -> 1 .. n]
    BY <1>1, <1>2
  <2>2. \A i, j \in I : f[i] = f[j] => i = j
    BY <1>2, <1>4
  <2>3. f \in Injection(I, 1 .. n)
    BY <2>1, <2>2 DEF Injection, IsInjective
  <2>4. IsFiniteSet(1 .. n) /\ Cardinality(1 .. n) = n
    BY <1>1, FS_Interval
  <2>5. f \in Surjection(I, 1 .. n)
    BY <2>3, <2>4, FS_Injection DEF n
  <2>6. \A k \in 1 .. n : \E i \in I : f[i] = k
    BY <2>5 DEF Surjection
  <2>7. ASSUME NEW k \in 1 .. n
        PROVE  \E i \in I : Cardinality(b[i]) = k - 1
    <3>1. PICK i \in I : f[i] = k
      BY <2>6
    <3>2. Cardinality(b[i]) + 1 = k
      BY <3>1
    <3>3. QED
      BY <1>2, <3>2
  <2>8. QED
    BY <2>7
<1>6. QED
  BY <1>3, <1>4, <1>5

\* What is arranged is there, each place once, in the order.
LEMMA ArrangedIs ==
  ASSUME NEW S, NEW s \in Seq(S), NEW I \in SUBSET (DOMAIN s), NEW b, Orders(b, I),
         NEW t, t = Arranged(s, b)
  PROVE  /\ Cardinality(I) \in Nat /\ t \in Seq(S) /\ Len(t) = Cardinality(I)
         /\ \E o \in [1 .. Len(t) -> I] :
              \A k \in 1 .. Len(t) : t[k] = s[o[k]] /\ Cardinality(b[o[k]]) = k - 1
<1>1. IsFiniteSet(I)
  <2>1. IsFiniteSet(1 .. Len(s)) /\ DOMAIN s = 1 .. Len(s)
    BY FS_Interval
  <2>2. QED
    BY <2>1, FS_Subset
<1>2. Cardinality(I) \in Nat
  BY <1>1, FS_CardinalityType
<1>3. PICK n \in Nat : n = Cardinality(I)
  BY <1>2
<1> DEFINE o == [k \in 1 .. n |-> CHOOSE i \in I : Cardinality(b[i]) = k - 1]
<1>4. \A k \in 1 .. n : o[k] \in I /\ Cardinality(b[o[k]]) = k - 1
  BY <1>1, <1>3, Ranks
<1>5. o \in [1 .. n -> I]
  BY <1>4
<1>6. t = [k \in 1 .. n |-> s[o[k]]]
  <2>1. DOMAIN b = I
    BY DEF Orders
  <2>2. QED
    BY <1>3, <2>1 DEF Arranged
<1> HIDE DEF o
<1>7. \A i \in I : s[i] \in S
  OBVIOUS
<1>8. t \in Seq(S) /\ Len(t) = n /\ \A k \in 1 .. n : t[k] = s[o[k]]
  BY <1>4, <1>6, <1>7
<1>9. QED
  BY <1>2, <1>3, <1>4, <1>5, <1>8

LEMMA ArrangedAll ==
  ASSUME NEW S, NEW s \in Seq(S), NEW b, Orders(b, DOMAIN s), NEW t, t = Arranged(s, b),
         NEW n, n = Cardinality(DOMAIN s)
  PROVE  /\ t \in Seq(S) /\ Len(t) = n
         /\ \E o \in [1 .. n -> DOMAIN s] :
              \A k \in 1 .. n : t[k] = s[o[k]] /\ Cardinality(b[o[k]]) = k - 1
BY DOMAIN s \in SUBSET (DOMAIN s), ArrangedIs

-----------------------------------------------------------------------------
(* The moments of one configuration (SanitizeMoments): what filling in and *)
(* sorting do to a list.                                                   *)

\* Texts that clients wrote, built-in ones, and the numbered titles.
Text ==
  {Own, Blank} \cup {Defaults[i].title : i \in DOMAIN Defaults}
    \cup {Defaults[i].note : i \in DOMAIN Defaults} \cup ({"ke"} \X Nat)

Stored == [year : Nat, title : Text, note : Text]

\* By year.
InOrder(s) == \A k \in DOMAIN s : \A j \in 1 .. k : s[j].year =< s[k].year

Earlier(s) == [i \in DOMAIN s |-> {j \in DOMAIN s : Before(s, j, i)}]

LEMMA YearsOrder ==
  ASSUME NEW s \in Seq(Stored)
  PROVE  /\ \A i \in DOMAIN s : i \in Nat /\ s[i].year \in Nat
         /\ \A i, j \in DOMAIN s : i \in Earlier(s)[j] <=>
              s[i].year < s[j].year \/ (s[i].year = s[j].year /\ i < j)
         /\ Orders(Earlier(s), DOMAIN s)
<1> DEFINE y(i) == s[i].year
           D == DOMAIN s
           b == Earlier(s)
<1>1. \A i \in D : i \in Nat /\ y(i) \in Nat
  <2>1. \A i \in D : i \in Nat /\ s[i] \in Stored
    OBVIOUS
  <2>2. \A m \in Stored : m.year \in Nat
    BY DEF Stored
  <2>3. QED
    BY <2>1, <2>2
<1>2. b \in [D -> SUBSET D]
  BY DEF Earlier
<1>3. \A i, j \in D : i \in b[j] <=> y(i) < y(j) \/ (y(i) = y(j) /\ i < j)
  BY DEF Earlier, Before
<1> HIDE DEF y, D, b
<1>4. /\ \A i \in D : i \notin b[i]
      /\ \A i, j \in D : i # j => i \in b[j] \/ j \in b[i]
  BY <1>1, <1>3
<1>5. ASSUME NEW i \in D, NEW j \in D, NEW k \in D, i \in b[j], j \in b[k]
      PROVE  i \in b[k]
  BY <1>1, <1>3, <1>5
<1>6. Orders(b, D)
  BY <1>2, <1>4, <1>5 DEF Orders
<1>7. QED
  BY <1>1, <1>3, <1>6 DEF b, D, y

LEMMA FirstNumbers ==
  ASSUME NEW n \in Nat
  PROVE  IsFiniteSet(1 .. n) /\ Cardinality(1 .. n) = n
BY FS_Interval

\* The sort keeps the moments and puts them in order, and leaves alone what is.
LEMMA SortedIs ==
  ASSUME NEW s \in Seq(Stored), NEW t, t = SortedByYear(s)
  PROVE  /\ t \in Seq(Stored) /\ Len(t) = Len(s)
         /\ \A k \in DOMAIN t : \E i \in DOMAIN s : t[k] = s[i]
         /\ InOrder(t)
         /\ InOrder(s) => t = s
<1> DEFINE D == DOMAIN s
           b == Earlier(s)
<1>1. Orders(b, D)
  BY YearsOrder
<1>2. D = 1 .. Len(s) /\ Len(s) \in Nat
  OBVIOUS
<1>3. IsFiniteSet(D) /\ Cardinality(D) = Len(s)
  BY <1>2, FirstNumbers
<1>4. t = Arranged(s, b)
  BY DEF SortedByYear, Earlier
<1>5. PICK o \in [1 .. Len(s) -> D] :
        /\ t \in Seq(Stored) /\ Len(t) = Len(s)
        /\ \A k \in 1 .. Len(s) : t[k] = s[o[k]] /\ Cardinality(b[o[k]]) = k - 1
  <2>1. PICK n \in Nat : n = Len(s) /\ n = Cardinality(D)
    BY <1>2, <1>3
  <2> HIDE DEF D, b
  <2>2. /\ t \in Seq(Stored) /\ Len(t) = n
        /\ \E o \in [1 .. n -> D] :
             \A k \in 1 .. n : t[k] = s[o[k]] /\ Cardinality(b[o[k]]) = k - 1
    BY <1>1, <1>4, <2>1, ArrangedAll DEF D
  <2>3. QED
    BY <2>1, <2>2
<1>6. /\ \A i, j \in D : i \in b[j] => Cardinality(b[i]) < Cardinality(b[j])
      /\ \A i, j \in D : Cardinality(b[i]) = Cardinality(b[j]) => i = j
  BY <1>1, <1>3, Ranks
<1>7. \A i, j \in D : i \in b[j] <=>
        s[i].year < s[j].year \/ (s[i].year = s[j].year /\ i < j)
  BY YearsOrder
<1>8. \A i \in D : s[i].year \in Nat
  BY YearsOrder
<1> HIDE DEF D, b
<1>9. InOrder(t)
  <2>1. ASSUME NEW k \in 1 .. Len(s), NEW j \in 1 .. k
        PROVE  t[j].year =< t[k].year
    <3>1. j \in 1 .. Len(s)
      BY <1>2
    <3>2. /\ o[j] \in D /\ o[k] \in D /\ t[j] = s[o[j]] /\ t[k] = s[o[k]]
          /\ Cardinality(b[o[j]]) = j - 1 /\ Cardinality(b[o[k]]) = k - 1
      BY <1>5, <3>1
    <3>3. ~(o[k] \in b[o[j]])
      <4>1. ~(k - 1 < j - 1)
        BY <1>2
      <4>2. QED
        BY <1>6, <3>2, <4>1
    <3>4. QED
      BY <1>7, <1>8, <3>2, <3>3
  <2>2. DOMAIN t = 1 .. Len(s)
    BY <1>5
  <2>3. QED
    BY <2>1, <2>2 DEF InOrder
<1>10. ASSUME InOrder(s)
       PROVE  t = s
  <2>1. ASSUME NEW k \in 1 .. Len(s)
        PROVE  t[k] = s[k]
    <3>1. \A j \in D : j \in b[k] <=> j < k
      <4>1. ASSUME NEW j \in D, j < k PROVE s[j].year =< s[k].year
        BY <1>2, <1>10, <4>1 DEF InOrder, D
      <4>2. ASSUME NEW j \in D, ~(j < k) PROVE s[k].year =< s[j].year
        BY <1>2, <1>10, <4>2 DEF InOrder, D
      <4>3. QED
        BY <1>2, <1>7, <1>8, <4>1, <4>2
    <3>2. b[k] = 1 .. (k - 1)
      <4>1. b[k] \subseteq D /\ k \in D
        BY <1>1, <1>2 DEF Orders
      <4>2. \A j : j \in b[k] <=> j \in 1 .. (k - 1)
        BY <1>2, <3>1, <4>1
      <4>3. QED
        BY <4>2
    <3>3. Cardinality(b[k]) = k - 1
      <4>1. Cardinality(1 .. (k - 1)) = k - 1
        <5>1. k - 1 \in Int /\ 1 \in Int /\ ~(1 > k - 1 /\ k - 1 # 0) /\ (k - 1) - 1 + 1 = k - 1
          BY <1>2
        <5>2. QED
          BY <5>1, FS_Interval
      <4>2. QED
        BY <3>2, <4>1
    <3>4. o[k] = k
      BY <1>2, <1>5, <1>6, <3>3
    <3>5. QED
      BY <1>5, <3>4
  <2>2. QED
    BY <1>2, <1>5, <2>1
<1>11. \A k \in DOMAIN t : \E i \in DOMAIN s : t[k] = s[i]
  <2>1. DOMAIN t = 1 .. Len(s)
    BY <1>5
  <2>2. QED
    BY <1>5, <2>1 DEF D
<1>12. QED
  BY <1>5, <1>9, <1>10, <1>11

LEMMA DefaultsStored ==
  /\ Defaults \in Seq(Stored) /\ Len(Defaults) > 0
  /\ \A i \in DOMAIN Defaults : Defaults[i].title # Blank /\ Defaults[i].note # Blank
<1> DEFINE n == Len(Defaults)
           m(i) == [year |-> i, title |-> Defaults[i].title, note |-> Defaults[i].note]
<1>1. n \in 1 .. 12 /\ Defaults = [i \in 1 .. n |-> m(i)]
  BY SanitizeAssumption
<1>2. DOMAIN Defaults = 1 .. n
  BY <1>1
<1>3. \A i \in 1 .. n : m(i) \in Stored
  BY <1>2 DEF Stored, Text
<1> HIDE DEF m
<1>4. Defaults \in Seq(Stored)
  BY <1>1, <1>3
<1>5. QED
  BY <1>1, <1>4, SanitizeAssumption

\* What clients send is a list of moments.
LEMMA InputsStored == Input \subseteq Stored /\ Inputs \subseteq Seq(Stored)
<1>1. Input \subseteq Stored
  BY SanitizeAssumption DEF Input, Stored, Text
<1>2. ASSUME NEW n \in 0 .. 2, NEW s \in [1 .. n -> Input]
      PROVE  s \in Seq(Stored)
  BY <1>1, <1>2
<1>3. QED
  BY <1>1, <1>2 DEF Inputs

\* Only what is blank is filled in, and filling in twice does no more.
LEMMA FilledIs ==
  ASSUME NEW m \in Stored, NEW i \in Nat \ {0}, NEW f, f = Filled(m, i)
  PROVE  /\ f \in Stored /\ f.year > 0 /\ f.title # Blank
         /\ m.year > 0 => f.year = m.year
         /\ m.title # Blank => f.title = m.title
         /\ m.note # Blank => f.note = m.note
         /\ Filled(f, i) = f
<1> DEFINE year == IF m.year = 0 THEN i ELSE m.year
           built == i =< Len(Defaults)
           title == IF built THEN Defaults[i].title ELSE <<"ke", year>>
           note == IF built THEN Defaults[i].note ELSE Blank
<1>1. /\ m.year \in Nat /\ m.title \in Text /\ m.note \in Text
      /\ m = [year |-> m.year, title |-> m.title, note |-> m.note]
  BY DEF Stored
<1>2. year \in Nat /\ year > 0 /\ (m.year > 0 => year = m.year)
  BY <1>1
<1>3. <<"ke", year>> \in {"ke"} \X Nat
  BY <1>2
<1>4. title \in Text /\ note \in Text /\ title # Blank
  <2>1. CASE built
    <3>1. i \in DOMAIN Defaults
      BY <2>1, DefaultsStored
    <3>2. title = Defaults[i].title /\ note = Defaults[i].note
      BY <2>1
    <3>3. QED
      BY <3>1, <3>2, DefaultsStored DEF Text
  <2>2. CASE ~built
    <3>1. title = <<"ke", year>> /\ note = Blank
      BY <2>2
    <3>2. QED
      BY <1>3, <3>1, SanitizeAssumption DEF Text
  <2>3. QED
    BY <2>1, <2>2
<1>5. f = [year |-> year, title |-> Or(m.title, title), note |-> Or(m.note, note)]
  BY DEF Filled
<1>6. \A g : g.year = year =>
        Filled(g, i) = [year |-> year, title |-> Or(g.title, title), note |-> Or(g.note, note)]
  <2>1. ASSUME NEW g, g.year = year
        PROVE  Filled(g, i) = [year |-> year, title |-> Or(g.title, title), note |-> Or(g.note, note)]
    <3>1. (IF g.year = 0 THEN i ELSE g.year) = year
      BY <1>2, <2>1
    <3>2. QED
      BY <3>1 DEF Filled
  <2>2. QED
    BY <2>1
<1> HIDE DEF year, title, note
<1>7. f.year = year /\ f.title = Or(m.title, title) /\ f.note = Or(m.note, note)
  BY <1>5
<1>8. Filled(f, i) = [year |-> year, title |-> Or(f.title, title), note |-> Or(f.note, note)]
  BY <1>6, <1>7
<1>9. Or(f.title, title) = f.title /\ Or(f.note, note) = f.note
  BY <1>7 DEF Or
<1>10. Filled(f, i) = f
  BY <1>5, <1>7, <1>8, <1>9
<1>11. f \in Stored
  BY <1>1, <1>2, <1>4, <1>5 DEF Or, Stored
<1>12. QED
  BY <1>1, <1>2, <1>4, <1>7, <1>10, <1>11 DEF Or

FilledAll(s) == [i \in DOMAIN s |-> Filled(s[i], i)]

LEMMA FilledAllIs ==
  ASSUME NEW s \in Seq(Stored), NEW f, f = FilledAll(s)
  PROVE  /\ f \in Seq(Stored) /\ Len(f) = Len(s) /\ DOMAIN f = DOMAIN s
         /\ \A i \in DOMAIN s :
              /\ f[i].year > 0 /\ f[i].title # Blank
              /\ s[i].year > 0 => f[i].year = s[i].year
              /\ s[i].title # Blank => f[i].title = s[i].title
              /\ s[i].note # Blank => f[i].note = s[i].note
              /\ Filled(f[i], i) = f[i]
<1>1. Len(s) \in Nat /\ DOMAIN s = 1 .. Len(s) /\ \A i \in 1 .. Len(s) : s[i] \in Stored
  OBVIOUS
<1>2. f = [i \in 1 .. Len(s) |-> Filled(s[i], i)]
  BY <1>1 DEF FilledAll
<1>3. \A i \in 1 .. Len(s) : f[i] = Filled(s[i], i) /\ i \in Nat \ {0}
  BY <1>1, <1>2
<1>4. \A i \in 1 .. Len(s) : f[i] \in Stored
  BY <1>1, <1>3, FilledIs
<1>5. f \in Seq(Stored) /\ Len(f) = Len(s)
  BY <1>1, <1>2, <1>4
<1>6. ASSUME NEW i \in 1 .. Len(s)
      PROVE  /\ f[i].year > 0 /\ f[i].title # Blank
             /\ s[i].year > 0 => f[i].year = s[i].year
             /\ s[i].title # Blank => f[i].title = s[i].title
             /\ s[i].note # Blank => f[i].note = s[i].note
             /\ Filled(f[i], i) = f[i]
  BY <1>1, <1>3, FilledIs
<1>7. QED
  BY <1>1, <1>5, <1>6

\* Whatever list is sanitized, the result can be shown.
LEMMA SanitizedIs ==
  ASSUME NEW s \in Seq(Stored), NEW t, t = Sanitized(s)
  PROVE  /\ t \in Seq(Stored) /\ t # << >> /\ InOrder(t)
         /\ \A k \in DOMAIN t : t[k].year > 0 /\ t[k].title # Blank
<1> DEFINE base == IF s = << >> THEN Defaults ELSE s
           f == FilledAll(base)
<1>1. base \in Seq(Stored) /\ Len(base) > 0
  BY DefaultsStored
<1>2. t = SortedByYear(f)
  BY DEF Sanitized, FilledAll
<1> HIDE DEF base, f
<1>3. f = FilledAll(base)
  BY DEF f
<1>4. /\ f \in Seq(Stored) /\ Len(f) = Len(base)
      /\ \A i \in DOMAIN f : f[i].year > 0 /\ f[i].title # Blank
  BY <1>1, <1>3, FilledAllIs
<1>5. /\ t \in Seq(Stored) /\ Len(t) = Len(f) /\ InOrder(t)
      /\ \A k \in DOMAIN t : \E i \in DOMAIN f : t[k] = f[i]
  BY <1>2, <1>4, SortedIs
<1>6. t # << >>
  BY <1>1, <1>4, <1>5
<1>7. QED
  BY <1>4, <1>5, <1>6

\* A list in order, with its years, is only filled in.
LEMMA OrderedIsFilled ==
  ASSUME NEW s \in Seq(Stored), s # << >>, InOrder(s), \A i \in DOMAIN s : s[i].year > 0
  PROVE  Sanitized(s) = FilledAll(s)
<1>1. PICK f : f = FilledAll(s)
  OBVIOUS
<1>2. f \in Seq(Stored) /\ DOMAIN f = DOMAIN s /\ \A i \in DOMAIN s : f[i].year = s[i].year
  BY <1>1, FilledAllIs
<1>3. InOrder(f)
  <2>1. \A k \in DOMAIN s : \A j \in 1 .. k : j \in DOMAIN s
    OBVIOUS
  <2>2. QED
    BY <1>2, <2>1 DEF InOrder
<1>4. SortedByYear(f) = f
  BY <1>2, <1>3, SortedIs
<1>5. Sanitized(s) = SortedByYear(f)
  BY <1>1 DEF Sanitized, FilledAll
<1>6. QED
  BY <1>1, <1>4, <1>5

LEMMA WithoutIs ==
  ASSUME NEW s \in Seq(Stored), NEW year
  PROVE  Without(s, year) \in Seq(Stored)
<1> DEFINE D == DOMAIN s
           kept == {i \in D : s[i].year # year}
           b == [i \in kept |-> {j \in kept : j < i}]
<1>1. D \subseteq Nat
  OBVIOUS
<1>2. Orders(b, kept)
  <2> HIDE DEF D
  <2>1. kept \subseteq Nat
    BY <1>1
  <2> HIDE DEF kept
  <2>2. b \in [kept -> SUBSET kept] /\ \A i, j \in kept : i \in b[j] <=> i < j
    OBVIOUS
  <2> HIDE DEF b
  <2>3. QED
    BY <2>1, <2>2 DEF Orders
<1>3. kept \in SUBSET (DOMAIN s)
  OBVIOUS
<1>4. Without(s, year) = Arranged(s, b)
  BY DEF Without
<1> HIDE DEF D, kept, b
<1>5. QED
  BY <1>2, <1>3, <1>4, ArrangedIs

-----------------------------------------------------------------------------
\* What is stored can be shown: moments that are moments.
MomentsInv == moments \in Seq(Stored) /\ Presentable

LEMMA KeptInv ==
  ASSUME NEW s \in Seq(Stored), moments = Sanitized(s)
  PROVE  MomentsInv
BY SanitizedIs DEF MomentsInv, Presentable, InOrder

LEMMA KeptInvNext ==
  ASSUME NEW s \in Seq(Stored), moments' = Sanitized(s)
  PROVE  MomentsInv'
BY SanitizedIs DEF MomentsInv, Presentable, InOrder

LEMMA MomentsInvStep ==
  ASSUME MomentsInv, [MomentsNext]_moments
  PROVE  MomentsInv'
<1>1. moments \in Seq(Stored) /\ Sanitized(moments) \in Seq(Stored)
  BY SanitizedIs DEF MomentsInv
<1>2. CASE Load
  BY <1>1, <1>2, KeptInvNext DEF Load
<1>3. CASE ReplaceMoments
  <2>1. PICK s \in Inputs : moments' = Sanitized(s)
    BY <1>3 DEF ReplaceMoments
  <2>2. QED
    BY <2>1, InputsStored, KeptInvNext
<1>4. CASE AddMoment
  <2>1. PICK m \in Input : moments' = Sanitized(Append(Sanitized(moments), m))
    BY <1>4 DEF AddMoment
  <2>2. Append(Sanitized(moments), m) \in Seq(Stored)
    BY <1>1, InputsStored, AppendProperties
  <2>3. QED
    BY <2>1, <2>2, KeptInvNext
<1>5. CASE DeleteMoment
  <2>1. PICK year : moments' = Sanitized(Without(Sanitized(moments), year))
    BY <1>5 DEF DeleteMoment
  <2>2. Without(Sanitized(moments), year) \in Seq(Stored)
    BY <1>1, WithoutIs
  <2>3. QED
    BY <2>1, <2>2, KeptInvNext
<1>6. CASE moments' = moments
  BY <1>6 DEF MomentsInv, Presentable
<1>7. QED
  BY <1>2, <1>3, <1>4, <1>5, <1>6 DEF MomentsNext

LEMMA MomentsInvAlways == MomentsSpec => []MomentsInv
<1>1. MomentsInit => MomentsInv
  BY DefaultsStored, KeptInv DEF MomentsInit
<1>2. MomentsInv /\ [MomentsNext]_moments => MomentsInv'
  BY MomentsInvStep
<1>3. QED
  BY <1>1, <1>2, PTL DEF MomentsSpec

\* What is stored is there to be shown, after any sequence of edits: some moments,
\* in the order of their years, each with a year and a title (sanitizeConfig).
THEOREM AlwaysPresentable == MomentsSpec => []Presentable
BY MomentsInvAlways, PTL DEF MomentsInv

LEMMA LoadFills ==
  ASSUME MomentsInv
  PROVE  Sanitized(moments) = FilledAll(moments)
BY OrderedIsFilled DEF MomentsInv, Presentable, InOrder

\* A Load fills in what depends on positions and then sorts, and yet another Load
\* changes nothing more: in what is stored the positions are those of the order.
THEOREM AlwaysSettles == MomentsSpec => []Settles
<1>1. MomentsInv => Settles
  <2> SUFFICES ASSUME MomentsInv PROVE Settles
    OBVIOUS
  <2>1. PICK f : f = Sanitized(moments)
    OBVIOUS
  <2>2. moments \in Seq(Stored) /\ f = FilledAll(moments)
    BY <2>1, LoadFills DEF MomentsInv
  <2>3. /\ f \in Seq(Stored) /\ f # << >> /\ InOrder(f)
        /\ \A i \in DOMAIN f : f[i].year > 0
    BY <2>1, <2>2, SanitizedIs
  <2>4. Sanitized(f) = FilledAll(f)
    BY <2>3, OrderedIsFilled
  <2>5. FilledAll(f) = f
    <3>1. DOMAIN f = DOMAIN moments /\ \A i \in DOMAIN f : Filled(f[i], i) = f[i]
      BY <2>2, FilledAllIs
    <3>2. QED
      BY <2>3, <3>1 DEF FilledAll
  <2>6. QED
    BY <2>1, <2>4, <2>5 DEF Settles
<1>2. QED
  BY <1>1, MomentsInvAlways, PTL

\* A Load keeps the years, their order, and every text that a client wrote.
THEOREM LoadsKeep == MomentsSpec => LoadsKeepTexts
<1> DEFINE Keeps ==
      Load => /\ Len(moments') = Len(moments)
              /\ \A i \in DOMAIN moments :
                   /\ moments'[i].year = moments[i].year
                   /\ moments'[i].title = moments[i].title
                   /\ moments[i].note # Blank => moments'[i].note = moments[i].note
<1>1. MomentsInv => Keeps
  <2> SUFFICES ASSUME MomentsInv, Load PROVE Keeps
    OBVIOUS
  <2>1. moments' = FilledAll(moments) /\ moments \in Seq(Stored)
    BY LoadFills DEF Load, MomentsInv
  <2>2. \A i \in DOMAIN moments : moments[i].year > 0 /\ moments[i].title # Blank
    BY DEF MomentsInv, Presentable
  <2>3. PICK f : f = moments'
    OBVIOUS
  <2>4. /\ Len(f) = Len(moments)
        /\ \A i \in DOMAIN moments :
             /\ f[i].year = moments[i].year
             /\ f[i].title = moments[i].title
             /\ moments[i].note # Blank => f[i].note = moments[i].note
    BY <2>1, <2>2, <2>3, FilledAllIs
  <2>5. QED
    BY <2>3, <2>4
<1>2. MomentsSpec => [][Keeps]_moments
  BY <1>1, MomentsInvAlways, PTL DEF MomentsSpec
<1>3. QED
  BY <1>2 DEF LoadsKeepTexts
=============================================================================
