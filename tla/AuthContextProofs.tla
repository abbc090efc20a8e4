-------------------------- MODULE AuthContextProofs --------------------------
(***************************************************************************)
(* Proofs about AuthContext for any accounts, tenants and calls            *)
(* outstanding: the loading screen waits for the first load and nothing    *)
(* else, the session of the tab agrees with the token, and the slug shown  *)
(* is offered and remembered.  The calls are described once by what a step *)
(* does to the one that moves and to the others.                           *)
(***************************************************************************)
EXTENDS AuthContext, FiniteSetTheorems, TLAPS

Kinds == {"init", "email", "google", "register", "tenants", "logout", "update"}
Requests == {"auth", "me", "tenants", "logout", "update", "register", "change"}

CallMap == [Slots -> Calls \union {Idle}]

\* A profile is waited for; a profile or a list of tenants is.
MeWait == \E s \in Slots : Waiting(s, "me")
LoadWait == \E s \in Slots : Waiting(s, "me") \/ Waiting(s, "tenants")

\* There is one first load, and it waits for the profile and then the tenants.
OneInit == \A s, t \in Slots :
  /\ call[s] # Idle /\ call[s].kind = "init"
  /\ call[t] # Idle /\ call[t].kind = "init"
  => s = t

InitWaits == \A s \in Slots :
  call[s] # Idle /\ call[s].kind = "init" => call[s].waits \in {"me", "tenants"}

InitCalls == LoadingAwaitsInit /\ OneInit /\ InitWaits

\* As long as nothing has parted them, what disagrees with the token is still
\* being read.
Agrees == ~parted =>
  /\ MeWait \/ (user = token /\ grants = token)
  /\ \/ LoadWait
     \/ tenants = <<>>
     \/ token # NoAccount /\ tenants \in ListsOf[token]

AuthIInv == TypeOK /\ InitCalls /\ SlugAvailable /\ SlugKept /\ Agrees

\* The call of t is the one it was, but for the page it was made from.
Alike(t) ==
  /\ call'[t] = Idle <=> call[t] = Idle
  /\ call[t] # Idle => call'[t].kind = call[t].kind /\ call'[t].waits = call[t].waits
-----------------------------------------------------------------------------
(* The calls.                                                              *)

LEMMA LeaveEffect ==
  ASSUME NEW p \in Pages, NEW calls \in CallMap, pending \in Holders,
         Leave(p, calls)
  PROVE  /\ page' = p /\ pending' \in Holders /\ call' \in CallMap
         /\ \A t \in Slots : call'[t] = Idle <=> calls[t] = Idle
         /\ \A t \in Slots : calls[t] # Idle =>
              call'[t].kind = calls[t].kind /\ call'[t].waits = calls[t].waits
<1>1. page' = p BY DEF Leave
<1>2. pending' \in Holders BY DEF Leave, Holders
<1>3. CASE p = page
  <2>1. call' = calls BY <1>3 DEF Leave
  <2> QED BY <1>1, <1>2, <2>1
<1>4. CASE p # page
  <2> DEFINE left(c) == IF c = Idle THEN Idle ELSE [c EXCEPT !.here = FALSE]
  <2>1. call' = [t \in Slots |-> left(calls[t])] BY <1>4 DEF Leave
  <2>2. \A c \in Calls : /\ left(c) \in Calls
                         /\ left(c).kind = c.kind /\ left(c).waits = c.waits
    <3>1. Idle \notin Calls BY AuthAssumption
    <3> QED BY <3>1 DEF Calls
  <2>3. left(Idle) = Idle OBVIOUS
  <2> HIDE DEF left
  <2>4. \A t \in Slots : calls[t] \in Calls \/ calls[t] = Idle BY DEF CallMap
  <2>5. call' \in CallMap BY <2>1, <2>2, <2>3, <2>4 DEF CallMap
  <2>6. Idle \notin Calls BY AuthAssumption
  <2> QED BY <1>1, <1>2, <2>1, <2>2, <2>3, <2>4, <2>5, <2>6
<1> QED BY <1>3, <1>4

\* The call that moves starts, goes on or ends; the first load ends the loading.
LEMMA InitCallsKept ==
  ASSUME InitCalls, NEW s \in Slots, \A t \in Slots \ {s} : Alike(t),
         \/ /\ call[s] = Idle /\ call'[s] # Idle /\ call'[s].kind # "init"
            /\ loading' = loading
         \/ /\ call[s] # Idle /\ call'[s] # Idle /\ call'[s].kind = call[s].kind
            /\ call'[s].kind = "init" => call'[s].waits \in {"me", "tenants"}
            /\ loading' = loading
         \/ /\ call[s] # Idle /\ call'[s] = Idle
            /\ loading' <=> (loading /\ call[s].kind # "init")
  PROVE  InitCalls'
<1>1. LoadingAwaitsInit /\ OneInit /\ InitWaits BY DEF InitCalls
<1> DEFINE First(t) == call[t] # Idle /\ call[t].kind = "init"
<1>2. /\ loading <=> \E t \in Slots : First(t)
      /\ \A t, u \in Slots : First(t) /\ First(u) => t = u
  BY <1>1 DEF LoadingAwaitsInit, OneInit
<1>3. \A t \in Slots \ {s} : First(t)' <=> First(t) BY DEF Alike
<1>4. InitWaits' BY <1>1 DEF InitWaits, Alike
<1>5. CASE (First(s)' <=> First(s)) /\ (loading' <=> loading)
  <2>1. \A t \in Slots : First(t)' <=> First(t) BY <1>3, <1>5
  <2>2. \A t, u \in Slots : First(t)' /\ First(u)' => t = u BY <1>2, <2>1
  <2>3. loading' <=> \E t \in Slots : First(t)' BY <1>2, <1>5, <2>1
  <2> QED BY <1>4, <2>2, <2>3 DEF InitCalls, LoadingAwaitsInit, OneInit
<1>6. CASE First(s) /\ ~First(s)' /\ ~loading'
  <2>1. \A t \in Slots : ~First(t)' BY <1>2, <1>3, <1>6
  <2> QED BY <1>4, <1>6, <2>1 DEF InitCalls, LoadingAwaitsInit, OneInit
<1> QED BY <1>5, <1>6

\* What the others wait for is still waited for.
LEMMA WaitsKept ==
  ASSUME NEW s \in Slots, \A t \in Slots \ {s} : Alike(t)
  PROVE  /\ MeWait /\ ~Waiting(s, "me") => MeWait'
         /\ LoadWait /\ ~Waiting(s, "me") /\ ~Waiting(s, "tenants") => LoadWait'
         /\ Waiting(s, "me")' => MeWait' /\ LoadWait'
         /\ Waiting(s, "tenants")' => LoadWait'
BY DEF MeWait, LoadWait, Waiting, Alike

LEMMA ResolveEffect ==
  ASSUME NEW list \in Seq(Slugs), NEW current \in SlugValues
  PROVE  /\ Resolve(list, current) \in Slugs
         /\ list # <<>> => Resolve(list, current) \in Range(list)
<1>1. DefaultSlug \in Slugs BY AuthAssumption
<1>2. \A i \in DOMAIN list : list[i] \in Slugs OBVIOUS
<1>3. list # <<>> => Head(list) \in Slugs /\ Head(list) \in Range(list)
  <2>1. ASSUME list # <<>> PROVE 1 \in DOMAIN list /\ Head(list) = list[1] BY <2>1
  <2> QED BY <1>2, <2>1 DEF Range
<1>4. current # NoSlug => current \in Slugs BY DEF SlugValues
<1> QED BY <1>1, <1>3, <1>4 DEF Resolve

LEMMA RequestType ==
  ASSUME TypeOK,
         NEW kind \in Kinds,
         NEW waits \in Requests,
         NEW as \in Holders, NEW who \in Holders, NEW given \in SlugValues,
         NEW here \in BOOLEAN
  PROVE  Request(kind, waits, as, who, given, here) \in Calls
<1>1. slug \in SlugValues /\ NoSlug \in SlugValues BY DEF TypeOK, SlugValues
<1> QED BY <1>1 DEF Request, Calls, Kinds, Requests
-----------------------------------------------------------------------------
(* Loading the page.                                                       *)

\* With a token one call is outstanding, the first load; without one, none is.
LEMMA FirstCallsEffect ==
  ASSUME token \in Holders, NEW c \in FirstCalls
  PROVE  /\ c \in CallMap
         /\ \A t \in Slots : c[t] # Idle => c[t].kind = "init" /\ c[t].waits = "me"
         /\ \A t, u \in Slots : c[t] # Idle /\ c[u] # Idle => t = u
         /\ (\E t \in Slots : c[t] # Idle) <=> token # NoAccount
<1> DEFINE first == Request("init", "me", token, NoAccount, NoSlug, FALSE)
           busy == {t \in Slots : c[t] # Idle}
<1>1. first \in Calls /\ first.kind = "init" /\ first.waits = "me"
  BY DEF Request, Calls, Holders, SlugValues
<1>2. /\ c \in [Slots -> {Idle, first}]
      /\ Cardinality(busy) = IF token = NoAccount THEN 0 ELSE 1
  BY DEF FirstCalls
<1>3. IsFiniteSet(busy)
  <2>1. IsFiniteSet(Slots) /\ busy \subseteq Slots BY AuthAssumption
  <2> QED BY <2>1, FS_Subset
<1> HIDE DEF first
<1>4. c \in CallMap BY <1>1, <1>2 DEF CallMap
<1>5. \A t \in Slots : c[t] # Idle => c[t] = first BY <1>2
<1>6. CASE token = NoAccount
  <2>1. busy = {} BY <1>2, <1>3, <1>6, FS_EmptySet
  <2> QED BY <1>4, <1>6, <2>1
<1>7. CASE token # NoAccount
  <2>1. Cardinality(busy) = 1 BY <1>2, <1>7
  <2>2. PICK x : busy = {x} BY <1>3, <2>1, FS_Singleton
  <2>3. x \in Slots /\ c[x] # Idle BY <2>2
  <2>4. \A t, u \in Slots : c[t] # Idle /\ c[u] # Idle => t = u BY <2>2
  <2> QED BY <1>1, <1>4, <1>5, <1>7, <2>3, <2>4
<1> QED BY <1>6, <1>7

\* The state a load of the page leaves, whatever there was before.
LEMMA Loaded ==
  ASSUME token \in Holders, call \in FirstCalls,
         loading = (token # NoAccount), stored \in SlugValues, slug = stored,
         user = NoAccount, grants = NoAccount, tenants = <<>>, pending = NoAccount,
         page \in Pages, made = 1, parted = FALSE, strayed = FALSE
  PROVE  AuthIInv
<1>1. /\ call \in CallMap
      /\ \A t \in Slots : call[t] # Idle => call[t].kind = "init" /\ call[t].waits = "me"
      /\ \A t, u \in Slots : call[t] # Idle /\ call[u] # Idle => t = u
      /\ (\E t \in Slots : call[t] # Idle) <=> token # NoAccount
  BY FirstCallsEffect
<1>2. TypeOK
  <2>1. made \in 1..MaxCalls BY AuthAssumption
  <2>2. tenants \in Seq(Slugs) OBVIOUS
  <2> QED BY <1>1, <2>1, <2>2 DEF TypeOK, CallMap, Holders
<1>3. InitCalls BY <1>1 DEF InitCalls, LoadingAwaitsInit, OneInit, InitWaits
<1>4. SlugAvailable /\ SlugKept BY DEF SlugAvailable, SlugKept
<1>5. Agrees BY <1>1 DEF Agrees, MeWait, Waiting
<1> QED BY <1>2, <1>3, <1>4, <1>5 DEF AuthIInv

LEMMA InitHolds == ASSUME Init PROVE AuthIInv
BY Loaded DEF Init

LEMMA ReloadKeeps == ASSUME AuthIInv, Reload PROVE AuthIInv'
<1>1. TypeOK BY DEF AuthIInv
<1>2. /\ token' = token /\ stored' = stored /\ call' \in FirstCalls
      /\ token \in Holders /\ stored \in SlugValues
  BY <1>1 DEF Reload, storage, TypeOK
<1>3. /\ call' \in CallMap
      /\ \A t \in Slots : call'[t] # Idle => call'[t].kind = "init" /\ call'[t].waits = "me"
      /\ \A t, u \in Slots : call'[t] # Idle /\ call'[u] # Idle => t = u
      /\ (\E t \in Slots : call'[t] # Idle) <=> token' # NoAccount
  BY <1>2, FirstCallsEffect
<1>4. TypeOK'
  <2>1. made' \in 1..MaxCalls BY AuthAssumption DEF Reload
  <2>2. tenants' \in Seq(Slugs) BY DEF Reload
  <2>3. loading' \in BOOLEAN /\ page' \in Pages BY DEF Reload
  <2> QED BY <1>2, <1>3, <2>1, <2>2, <2>3 DEF Reload, TypeOK, CallMap, Holders
<1>5. InitCalls'
  BY <1>2, <1>3 DEF Reload, InitCalls, LoadingAwaitsInit, OneInit, InitWaits
<1>6. SlugAvailable' /\ SlugKept' BY <1>2 DEF Reload, SlugAvailable, SlugKept
<1>7. Agrees' BY <1>2, <1>3 DEF Reload, Agrees, MeWait, Waiting
<1> QED BY <1>4, <1>5, <1>6, <1>7 DEF AuthIInv
-----------------------------------------------------------------------------
(* The visitor.                                                            *)

\* A call that starts is not a first load, and disturbs no other.
LEMMA StartKeeps ==
  ASSUME AuthIInv, NEW s \in Slots, pending' \in Holders,
         NEW kind \in Kinds \ {"init"},
         NEW waits \in Requests,
         NEW as \in Holders, NEW who \in Holders, NEW given \in SlugValues,
         NEW here \in BOOLEAN,
         Start(s, Request(kind, waits, as, who, given, here))
  PROVE  AuthIInv'
<1> DEFINE d == Request(kind, waits, as, who, given, here)
<1>1. TypeOK BY DEF AuthIInv
<1>2. d \in Calls /\ d.kind = kind
  <2>1. kind \in Kinds OBVIOUS
  <2>2. Request(kind, waits, as, who, given, here) \in Calls BY <1>1, <2>1, RequestType
  <2>3. Request(kind, waits, as, who, given, here).kind = kind BY DEF Request
  <2> QED BY <2>2, <2>3
<1>3. /\ call[s] = Idle /\ call' = [call EXCEPT ![s] = d]
      /\ made < MaxCalls /\ made' = made + 1
      /\ UNCHANGED <<token, stored, user, grants, tenants, slug, loading, page,
                     parted, strayed>>
  BY DEF Start, Free, storage, session
<1> HIDE DEF d
<1>4. call \in CallMap BY <1>1 DEF TypeOK, CallMap
<1>5. call' \in CallMap /\ call'[s] = d /\ \A t \in Slots \ {s} : call'[t] = call[t]
  <2>1. d \in Calls \union {Idle} BY <1>2
  <2> QED BY <1>3, <1>4, <2>1 DEF CallMap
<1>6. d # Idle BY <1>2, AuthAssumption
<1>7. TypeOK'
  <2>1. made' \in 1..MaxCalls BY <1>1, <1>3, AuthAssumption DEF TypeOK
  <2> QED BY <1>1, <1>3, <1>5, <2>1 DEF TypeOK, CallMap
<1>8. \A t \in Slots \ {s} : Alike(t) BY <1>5 DEF Alike
<1>9. InitCalls'
  <2>1. InitCalls BY DEF AuthIInv
  <2> QED BY <1>2, <1>3, <1>5, <1>6, <1>8, <2>1, InitCallsKept
<1>10. (MeWait => MeWait') /\ (LoadWait => LoadWait')
  <2>1. ~Waiting(s, "me") /\ ~Waiting(s, "tenants") BY <1>3 DEF Waiting
  <2> QED BY <1>8, <2>1, WaitsKept
<1>11. SlugAvailable' /\ SlugKept' BY <1>3 DEF AuthIInv, SlugAvailable, SlugKept
<1>12. Agrees' BY <1>3, <1>10 DEF AuthIInv, Agrees
<1> QED BY <1>7, <1>9, <1>11, <1>12 DEF AuthIInv

LEMMA VisitorKeeps ==
  ASSUME AuthIInv, NEW s \in Slots, Visitor(s) PROVE AuthIInv'
<1>1. TypeOK BY DEF AuthIInv
<1> USE DEF Kinds, Requests
<1>2. /\ token \in Holders /\ pending \in Holders /\ NoAccount \in Holders
      /\ Accounts \subseteq Holders
      /\ NoSlug \in SlugValues /\ Slugs \subseteq SlugValues
  BY <1>1 DEF TypeOK, Holders, SlugValues
<1>3. ASSUME NEW a \in Accounts, SubmitLogin(s, a) PROVE AuthIInv'
  <2>1. Start(s, Request("email", "auth", NoAccount, a, NoSlug, TRUE)) /\ pending' = pending
    BY <1>3 DEF SubmitLogin
  <2> QED BY <1>2, <2>1, StartKeeps
<1>4. ASSUME NEW a \in Accounts, NEW g \in SlugValues, GoogleCredential(s, a, g)
      PROVE  AuthIInv'
  <2>1. Start(s, Request("google", "auth", NoAccount, a, g, TRUE)) /\ pending' = pending
    BY <1>4 DEF GoogleCredential
  <2> QED BY <1>2, <2>1, StartKeeps
<1>5. ASSUME NEW g \in Slugs, SubmitGoogleSlug(s, g) PROVE AuthIInv'
  <2>1. Start(s, Request("google", "auth", NoAccount, pending, g, TRUE)) /\ pending' = pending
    BY <1>5 DEF SubmitGoogleSlug
  <2> QED BY <1>2, <2>1, StartKeeps
<1>6. ASSUME NEW g \in Slugs, SubmitRegister(s, g) PROVE AuthIInv'
  <2>1. /\ Start(s, Request("register", "register", NoAccount, NoAccount, g, TRUE))
        /\ pending' = pending
    BY <1>6 DEF SubmitRegister
  <2> QED BY <1>2, <2>1, StartKeeps
<1>7. CASE StartLogout(s)
  <2>1. /\ Start(s, Request("logout", "logout", token, NoAccount, NoSlug, FALSE))
        /\ pending' = pending
    BY <1>7 DEF StartLogout
  <2> QED BY <1>2, <2>1, StartKeeps
<1>8. CASE StartUpdate(s)
  <2>1. /\ Start(s, Request("update", "update", token, NoAccount, NoSlug, TRUE))
        /\ pending' = pending
    BY <1>8 DEF StartUpdate
  <2> QED BY <1>2, <2>1, StartKeeps
<1>9. CASE ChangeTenants(s)
  <2>1. /\ Start(s, Request("tenants", "change", token, NoAccount, NoSlug, FALSE))
        /\ pending' = pending
    BY <1>9 DEF ChangeTenants
  <2> QED BY <1>2, <2>1, StartKeeps
<1> QED BY <1>3, <1>4, <1>5, <1>6, <1>7, <1>8, <1>9 DEF Visitor

\* Another page: what is read for the session is read on.
LEMMA LeavingKeeps ==
  ASSUME AuthIInv, NEW p \in Pages, Leave(p, call),
         UNCHANGED <<storage, session, history>>
  PROVE  AuthIInv'
<1>1. TypeOK /\ call \in CallMap BY DEF AuthIInv, TypeOK, CallMap
<1>2. /\ page' = p /\ pending' \in Holders /\ call' \in CallMap
      /\ \A t \in Slots : call'[t] = Idle <=> call[t] = Idle
      /\ \A t \in Slots : call[t] # Idle =>
           call'[t].kind = call[t].kind /\ call'[t].waits = call[t].waits
  BY <1>1, LeaveEffect DEF TypeOK
<1>3. UNCHANGED <<token, stored, user, grants, tenants, slug, loading, made, parted, strayed>>
  BY DEF storage, session, history
<1>4. TypeOK' BY <1>1, <1>2, <1>3 DEF TypeOK, CallMap
<1>5. InitCalls'
  BY <1>2, <1>3 DEF AuthIInv, InitCalls, LoadingAwaitsInit, OneInit, InitWaits
<1>6. (MeWait => MeWait') /\ (LoadWait => LoadWait')
  BY <1>2 DEF MeWait, LoadWait, Waiting
<1>7. SlugAvailable' /\ SlugKept' BY <1>3 DEF AuthIInv, SlugAvailable, SlugKept
<1>8. Agrees' BY <1>3, <1>6 DEF AuthIInv, Agrees
<1> QED BY <1>4, <1>5, <1>7, <1>8 DEF AuthIInv

LEMMA OpenKeeps ==
  ASSUME AuthIInv, NEW p \in Pages, Open(p) PROVE AuthIInv'
BY LeavingKeeps DEF Open

LEMMA RedirectKeeps == ASSUME AuthIInv, Redirect PROVE AuthIInv'
<1>1. "login" \in Pages /\ "unauthorized" \in Pages BY DEF Pages, Public
<1>2. UNCHANGED <<storage, session, history>> BY DEF Redirect
<1>3. Leave("login", call) \/ Leave("unauthorized", call) BY DEF Redirect
<1> QED BY <1>1, <1>2, <1>3, LeavingKeeps

LEMMA CloseSlugDialogKeeps ==
  ASSUME AuthIInv, CloseSlugDialog PROVE AuthIInv'
<1>1. /\ pending' = NoAccount
      /\ UNCHANGED <<token, stored, user, grants, tenants, slug, loading, page, call,
                     made, parted, strayed>>
  BY DEF CloseSlugDialog, storage, session, history
<1>2. TypeOK' BY <1>1 DEF AuthIInv, TypeOK, Holders
<1> QED BY <1>1, <1>2 DEF AuthIInv, InitCalls, LoadingAwaitsInit, OneInit, InitWaits,
     SlugAvailable, SlugKept, Agrees, MeWait, LoadWait, Waiting

LEMMA SetActiveTenantSlugKeeps ==
  ASSUME AuthIInv, SetActiveTenantSlug PROVE AuthIInv'
<1>1. PICK chosen \in Range(tenants) : slug' = chosen /\ stored' = chosen
  BY DEF SetActiveTenantSlug
<1>2. UNCHANGED <<token, user, grants, tenants, loading, page, pending, call,
                  made, parted, strayed>>
  BY DEF SetActiveTenantSlug, history
<1>3. chosen \in SlugValues
  BY <1>1 DEF AuthIInv, TypeOK, Range, SlugValues
<1>4. TypeOK' BY <1>1, <1>2, <1>3 DEF AuthIInv, TypeOK
<1>5. SlugAvailable' /\ SlugKept' BY <1>1, <1>2 DEF SlugAvailable, SlugKept
<1> QED BY <1>2, <1>4, <1>5 DEF AuthIInv, InitCalls, LoadingAwaitsInit, OneInit, InitWaits,
     Agrees, MeWait, LoadWait, Waiting

LEMMA OtherTabKeeps == ASSUME AuthIInv, OtherTab PROVE AuthIInv'
<1>1. /\ token' \in Holders /\ stored' \in SlugValues /\ parted' /\ strayed'
      /\ parted' \in BOOLEAN /\ strayed' \in BOOLEAN
      /\ UNCHANGED <<user, grants, tenants, slug, loading, page, pending, call, made>>
  BY DEF OtherTab, session
<1>2. TypeOK' BY <1>1 DEF AuthIInv, TypeOK
<1> QED BY <1>1, <1>2 DEF AuthIInv, InitCalls, LoadingAwaitsInit, OneInit, InitWaits,
     SlugAvailable, SlugKept, Agrees
-----------------------------------------------------------------------------
(* The answers.                                                            *)

LEMMA GoesOn ==
  ASSUME AuthIInv, NEW s \in Slots, call[s] # Idle,
         NEW d \in Calls, call' = [call EXCEPT ![s] = d], d.kind = call[s].kind,
         d.kind = "init" => d.waits \in {"me", "tenants"}, loading' = loading
  PROVE  /\ call' \in CallMap /\ InitCalls'
         /\ call'[s] = d /\ d # Idle
         /\ \A t \in Slots \ {s} : Alike(t)
<1>1. call \in CallMap BY DEF AuthIInv, TypeOK, CallMap
<1>2. call' \in CallMap /\ call'[s] = d /\ \A t \in Slots \ {s} : call'[t] = call[t]
  BY <1>1 DEF CallMap
<1>3. d # Idle BY AuthAssumption
<1>4. \A t \in Slots \ {s} : Alike(t) BY <1>2 DEF Alike
<1>5. InitCalls BY DEF AuthIInv
<1>6. InitCalls' BY <1>2, <1>3, <1>4, <1>5, InitCallsKept
<1> QED BY <1>2, <1>3, <1>4, <1>6

LEMMA Ends ==
  ASSUME AuthIInv, NEW s \in Slots, call[s] # Idle,
         call' = [call EXCEPT ![s] = Idle],
         loading' <=> (loading /\ call[s].kind # "init")
  PROVE  /\ call' \in CallMap /\ InitCalls'
         /\ \A t \in Slots \ {s} : Alike(t)
<1>1. call \in CallMap BY DEF AuthIInv, TypeOK, CallMap
<1>2. call' \in CallMap /\ call'[s] = Idle /\ \A t \in Slots \ {s} : call'[t] = call[t]
  BY <1>1 DEF CallMap
<1>3. \A t \in Slots \ {s} : Alike(t) BY <1>2 DEF Alike
<1>4. InitCalls BY DEF AuthIInv
<1>5. InitCalls' BY <1>2, <1>3, <1>4, InitCallsKept
<1> QED BY <1>2, <1>3, <1>5

\* What a call waits for, as the actions read it.
LEMMA WaitingType ==
  ASSUME AuthIInv, NEW s \in Slots, NEW what, Waiting(s, what)
  PROVE  /\ call[s] # Idle /\ call[s] \in Calls /\ call[s].waits = what
         /\ call[s].kind = "init" => what \in {"me", "tenants"}
         /\ call[s].as \in Holders /\ call[s].who \in Holders
         /\ call[s].seen \in SlugValues /\ call[s].given \in SlugValues
<1>1. call[s] # Idle /\ call[s].waits = what BY DEF Waiting
<1>2. call[s] \in Calls BY <1>1 DEF AuthIInv, TypeOK
<1>3. call[s].kind = "init" => what \in {"me", "tenants"}
  BY <1>1 DEF AuthIInv, InitCalls, InitWaits
<1> QED BY <1>1, <1>2, <1>3 DEF Calls

\* A sign-in writes the token and at once reads the profile: it is being read.
LEMMA SignedInKeeps ==
  ASSUME AuthIInv, NEW s \in Slots, SignedIn(s) PROVE AuthIInv'
<1> DEFINE c == call[s]
           d == [c EXCEPT !.waits = "me", !.as = c.who, !.who = NoAccount]
<1>1. Waiting(s, "auth") BY DEF SignedIn
<1>2. c # Idle /\ c \in Calls /\ c.kind # "init" /\ c.who \in Holders
  BY <1>1, WaitingType
<1>3. /\ token' = c.who
      /\ UNCHANGED <<stored, user, grants, tenants, slug, loading, page, pending,
                     made, parted, strayed>>
  BY DEF SignedIn, session, history
<1>4. call' = [call EXCEPT ![s] = d] BY DEF SignedIn
<1>5. d \in Calls /\ d.kind = c.kind /\ d.waits = "me" BY <1>2 DEF Calls, Holders
<1> HIDE DEF d
<1>6. /\ call' \in CallMap /\ InitCalls'
      /\ call'[s] = d /\ d # Idle
      /\ \A t \in Slots \ {s} : Alike(t)
  BY <1>2, <1>3, <1>4, <1>5, GoesOn
<1>7. MeWait' /\ LoadWait' BY <1>5, <1>6 DEF MeWait, LoadWait, Waiting
<1>8. TypeOK' BY <1>2, <1>3, <1>6 DEF AuthIInv, TypeOK, CallMap
<1>9. SlugAvailable' /\ SlugKept' BY <1>3 DEF AuthIInv, SlugAvailable, SlugKept
<1> QED BY <1>6, <1>7, <1>8, <1>9 DEF AuthIInv, Agrees

\* A change of the tenants goes on to read them: the session is as it was.
LEMMA RefreshTenantsKeeps ==
  ASSUME AuthIInv, NEW s \in Slots, RefreshTenants(s) PROVE AuthIInv'
<1> DEFINE c == call[s]
           d == [c EXCEPT !.waits = "tenants", !.as = token]
<1>1. Waiting(s, "change") BY DEF RefreshTenants
<1>2. c # Idle /\ c \in Calls /\ c.waits = "change" /\ c.kind # "init"
  BY <1>1, WaitingType
<1>3. UNCHANGED <<token, stored, user, grants, tenants, slug, loading, page, pending,
                  made, parted, strayed>>
  BY DEF RefreshTenants, storage, session, history
<1>4. call' = [call EXCEPT ![s] = d] BY DEF RefreshTenants
<1>5. d \in Calls /\ d.kind = c.kind BY <1>2 DEF Calls, AuthIInv, TypeOK
<1> HIDE DEF d
<1>6. /\ call' \in CallMap /\ InitCalls'
      /\ \A t \in Slots \ {s} : Alike(t)
  BY <1>2, <1>3, <1>4, <1>5, GoesOn
<1>7. (MeWait => MeWait') /\ (LoadWait => LoadWait')
  <2>1. ~Waiting(s, "me") /\ ~Waiting(s, "tenants") BY <1>2 DEF Waiting
  <2> QED BY <1>6, <2>1, WaitsKept
<1>8. TypeOK' BY <1>3, <1>6 DEF AuthIInv, TypeOK, CallMap
<1>9. SlugAvailable' /\ SlugKept' BY <1>3 DEF AuthIInv, SlugAvailable, SlugKept
<1>10. Agrees' BY <1>3, <1>7 DEF AuthIInv, Agrees
<1> QED BY <1>6, <1>8, <1>9, <1>10 DEF AuthIInv

\* A call ends that read nothing of the session, and changes nothing of it.
LEMMA EndsKeeps ==
  ASSUME AuthIInv, NEW s \in Slots,
         NEW what \in {"auth", "register", "update", "logout", "change"}, Waiting(s, what),
         call' = [call EXCEPT ![s] = Idle], pending' \in Holders,
         UNCHANGED <<storage, session, page, history>>
  PROVE  AuthIInv'
<1>1. call[s] # Idle /\ call[s].waits = what /\ call[s].kind # "init"
  BY WaitingType
<1>2. UNCHANGED <<token, stored, user, grants, tenants, slug, loading, page,
                  made, parted, strayed>>
  BY DEF storage, session, history
<1>3. loading \in BOOLEAN BY DEF AuthIInv, TypeOK
<1>4. /\ call' \in CallMap /\ InitCalls'
      /\ \A t \in Slots \ {s} : Alike(t)
  BY <1>1, <1>2, <1>3, Ends
<1>5. TypeOK' BY <1>2, <1>4 DEF AuthIInv, TypeOK, CallMap
<1>6. (MeWait => MeWait') /\ (LoadWait => LoadWait')
  <2>1. ~Waiting(s, "me") /\ ~Waiting(s, "tenants") BY <1>1 DEF Waiting
  <2> QED BY <1>4, <2>1, WaitsKept
<1>7. SlugAvailable' /\ SlugKept' BY <1>2 DEF AuthIInv, SlugAvailable, SlugKept
<1>8. Agrees' BY <1>2, <1>6 DEF AuthIInv, Agrees
<1> QED BY <1>4, <1>5, <1>7, <1>8 DEF AuthIInv

LEMMA SlugRequiredKeeps ==
  ASSUME AuthIInv, NEW s \in Slots, SlugRequired(s) PROVE AuthIInv'
<1>1. Waiting(s, "auth") /\ call' = [call EXCEPT ![s] = Idle]
      /\ UNCHANGED <<storage, session, page, history>>
  BY DEF SlugRequired
<1>2. pending' \in Holders
  <2>1. call[s].who \in Holders BY <1>1, WaitingType
  <2> QED BY <2>1 DEF SlugRequired, AuthIInv, TypeOK
<1> QED BY <1>1, <1>2, EndsKeeps

LEMMA RefusedKeeps ==
  ASSUME AuthIInv, NEW s \in Slots, Refused(s) PROVE AuthIInv'
<1>1. PICK what \in {"auth", "register", "update", "change"} : Waiting(s, what) BY DEF Refused
<1>2. call' = [call EXCEPT ![s] = Idle]
      /\ UNCHANGED <<storage, session, page, history>> /\ pending' = pending
  BY DEF Refused
<1>3. pending' \in Holders BY <1>2 DEF AuthIInv, TypeOK
<1>4. what \in {"auth", "register", "update", "logout", "change"} OBVIOUS
<1> QED BY <1>1, <1>2, <1>3, <1>4, EndsKeeps

\* A call ends, and the visitor is taken to another page.
LEMMA EndsLeaving ==
  ASSUME AuthIInv, NEW s \in Slots, call[s] # Idle, NEW p \in Pages,
         Leave(p, [call EXCEPT ![s] = Idle]),
         loading' <=> (loading /\ call[s].kind # "init")
  PROVE  /\ page' = p /\ pending' \in Holders /\ call' \in CallMap /\ InitCalls'
         /\ \A t \in Slots \ {s} : Alike(t)
<1> DEFINE ended == [call EXCEPT ![s] = Idle]
<1>1. call \in CallMap /\ pending \in Holders BY DEF AuthIInv, TypeOK, CallMap
<1>2. ended \in CallMap /\ ended[s] = Idle /\ \A t \in Slots \ {s} : ended[t] = call[t]
  BY <1>1 DEF CallMap
<1>3. Leave(p, ended) OBVIOUS
<1> HIDE DEF ended
<1>4. /\ page' = p /\ pending' \in Holders /\ call' \in CallMap
      /\ \A t \in Slots : call'[t] = Idle <=> ended[t] = Idle
      /\ \A t \in Slots : ended[t] # Idle =>
           call'[t].kind = ended[t].kind /\ call'[t].waits = ended[t].waits
  BY <1>1, <1>2, <1>3, LeaveEffect
<1>5. \A t \in Slots \ {s} : Alike(t) BY <1>2, <1>4 DEF Alike
<1>6. call'[s] = Idle BY <1>2, <1>4
<1>7. InitCalls BY DEF AuthIInv
<1>8. InitCalls' BY <1>5, <1>6, <1>7, InitCallsKept
<1> QED BY <1>4, <1>5, <1>8

LEMMA RegisterAnsweredKeeps ==
  ASSUME AuthIInv, NEW s \in Slots, RegisterAnswered(s) PROVE AuthIInv'
<1>1. Waiting(s, "register") BY DEF RegisterAnswered
<1>2. /\ call[s] # Idle /\ call[s].waits = "register" /\ call[s].kind # "init"
      /\ call[s].given \in SlugValues
  BY <1>1, WaitingType
<1>3. /\ stored' = call[s].given /\ strayed' /\ strayed' \in BOOLEAN
      /\ Leave("login", [call EXCEPT ![s] = Idle])
      /\ UNCHANGED <<token, user, grants, tenants, slug, loading, made, parted>>
  BY DEF RegisterAnswered, session
<1>4. loading \in BOOLEAN /\ "login" \in Pages BY DEF AuthIInv, TypeOK, Pages, Public
<1>5. /\ page' \in Pages /\ pending' \in Holders /\ call' \in CallMap /\ InitCalls'
      /\ \A t \in Slots \ {s} : Alike(t)
  BY <1>2, <1>3, <1>4, EndsLeaving
<1>6. TypeOK' BY <1>2, <1>3, <1>5 DEF AuthIInv, TypeOK, CallMap
<1>7. (MeWait => MeWait') /\ (LoadWait => LoadWait')
  <2>1. ~Waiting(s, "me") /\ ~Waiting(s, "tenants") BY <1>2 DEF Waiting
  <2> QED BY <1>5, <2>1, WaitsKept
<1>8. SlugAvailable' /\ SlugKept' BY <1>3 DEF AuthIInv, SlugAvailable, SlugKept
<1>9. Agrees' BY <1>3, <1>7 DEF AuthIInv, Agrees
<1> QED BY <1>5, <1>6, <1>8, <1>9 DEF AuthIInv

LEMMA LogoutAnsweredKeeps ==
  ASSUME AuthIInv, NEW s \in Slots, LogoutAnswered(s) PROVE AuthIInv'
<1>1. Waiting(s, "logout") BY DEF LogoutAnswered
<1>2. call[s] # Idle /\ call[s].kind # "init" BY <1>1, WaitingType
<1>3. /\ token' = NoAccount /\ stored' = NoSlug
      /\ user' = NoAccount /\ grants' = NoAccount /\ tenants' = <<>> /\ slug' = NoSlug
      /\ Leave("login", [call EXCEPT ![s] = Idle])
      /\ UNCHANGED <<loading, made, parted, strayed>>
  BY DEF LogoutAnswered, SignedOut, history
<1>4. loading \in BOOLEAN /\ "login" \in Pages BY DEF AuthIInv, TypeOK, Pages, Public
<1>5. page' \in Pages /\ pending' \in Holders /\ call' \in CallMap /\ InitCalls'
  BY <1>2, <1>3, <1>4, EndsLeaving
<1>6. TypeOK'
  <2>1. tenants' \in Seq(Slugs) BY <1>3
  <2> QED BY <1>3, <1>5, <2>1 DEF AuthIInv, TypeOK, CallMap, Holders, SlugValues
<1>7. SlugAvailable' /\ SlugKept' /\ Agrees'
  BY <1>3 DEF SlugAvailable, SlugKept, Agrees
<1> QED BY <1>5, <1>6, <1>7 DEF AuthIInv

LEMMA LogoutFailedKeeps ==
  ASSUME AuthIInv, NEW s \in Slots, LogoutFailed(s) PROVE AuthIInv'
<1>1. Waiting(s, "logout") BY DEF LogoutFailed
<1>2. call[s] # Idle /\ call[s].kind # "init" BY <1>1, WaitingType
<1>3. /\ token' = NoAccount /\ parted' /\ parted' \in BOOLEAN
      /\ call' = [call EXCEPT ![s] = Idle]
      /\ UNCHANGED <<stored, user, grants, tenants, slug, loading, page, pending,
                     made, strayed>>
  BY DEF LogoutFailed, session
<1>4. loading \in BOOLEAN BY DEF AuthIInv, TypeOK
<1>5. call' \in CallMap /\ InitCalls' BY <1>2, <1>3, <1>4, Ends
<1>6. TypeOK' BY <1>3, <1>5 DEF AuthIInv, TypeOK, CallMap, Holders
<1>7. SlugAvailable' /\ SlugKept' /\ Agrees'
  BY <1>3 DEF AuthIInv, SlugAvailable, SlugKept, Agrees
<1> QED BY <1>5, <1>6, <1>7 DEF AuthIInv

\* An update answered for another token parts the two; for this one the user
\* becomes the one of the token.
LEMMA UpdateAnsweredKeeps ==
  ASSUME AuthIInv, NEW s \in Slots, UpdateAnswered(s) PROVE AuthIInv'
<1>1. Waiting(s, "update") BY DEF UpdateAnswered
<1>2. /\ call[s] # Idle /\ call[s].waits = "update" /\ call[s].kind # "init"
      /\ call[s].as \in Holders
  BY <1>1, WaitingType
<1>3. /\ user' = call[s].as
      /\ call' = [call EXCEPT ![s] = Idle]
      /\ parted' = (parted \/ call[s].as # token)
      /\ UNCHANGED <<token, stored, grants, tenants, slug, loading, page, pending,
                     made, strayed>>
  BY DEF UpdateAnswered, storage
<1>4. loading \in BOOLEAN /\ parted \in BOOLEAN BY DEF AuthIInv, TypeOK
<1>5. /\ call' \in CallMap /\ InitCalls'
      /\ \A t \in Slots \ {s} : Alike(t)
  BY <1>2, <1>3, <1>4, Ends
<1>6. TypeOK'
  <2>1. parted' \in BOOLEAN BY <1>3, <1>4
  <2> QED BY <1>2, <1>3, <1>5, <2>1 DEF AuthIInv, TypeOK, CallMap
<1>7. (MeWait => MeWait') /\ (LoadWait => LoadWait')
  <2>1. ~Waiting(s, "me") /\ ~Waiting(s, "tenants") BY <1>2 DEF Waiting
  <2> QED BY <1>5, <2>1, WaitsKept
<1>8. SlugAvailable' /\ SlugKept' BY <1>3 DEF AuthIInv, SlugAvailable, SlugKept
<1>9. Agrees' BY <1>3, <1>7 DEF AuthIInv, Agrees
<1> QED BY <1>5, <1>6, <1>8, <1>9 DEF AuthIInv

\* The profile makes user and grants those of its token, and the tenants are read.
LEMMA ProfileAnsweredKeeps ==
  ASSUME AuthIInv, NEW s \in Slots, ProfileAnswered(s) PROVE AuthIInv'
<1> DEFINE c == call[s]
           d == [c EXCEPT !.waits = "tenants", !.as = token]
<1>1. Waiting(s, "me") BY DEF ProfileAnswered
<1>2. c # Idle /\ c \in Calls /\ c.as \in Holders BY <1>1, WaitingType
<1>3. /\ user' = c.as /\ grants' = c.as
      /\ parted' = (parted \/ c.as # token)
      /\ UNCHANGED <<token, stored, tenants, slug, loading, page, pending, made, strayed>>
  BY DEF ProfileAnswered, storage
<1>4. call' = [call EXCEPT ![s] = d] BY DEF ProfileAnswered
<1>5. token \in Holders /\ parted \in BOOLEAN BY DEF AuthIInv, TypeOK
<1>6. d \in Calls /\ d.kind = c.kind /\ d.waits = "tenants" BY <1>2, <1>5 DEF Calls
<1> HIDE DEF d
<1>7. call' \in CallMap /\ InitCalls' /\ call'[s] = d /\ d # Idle
  BY <1>2, <1>3, <1>4, <1>6, GoesOn
<1>8. TypeOK'
  <2>1. parted' \in BOOLEAN BY <1>3, <1>5
  <2> QED BY <1>2, <1>3, <1>7, <2>1 DEF AuthIInv, TypeOK, CallMap
<1>9. LoadWait' BY <1>6, <1>7 DEF LoadWait, Waiting
<1>10. SlugAvailable' /\ SlugKept' BY <1>3 DEF AuthIInv, SlugAvailable, SlugKept
<1>11. Agrees' BY <1>3, <1>9 DEF Agrees
<1> QED BY <1>7, <1>8, <1>10, <1>11 DEF AuthIInv

LEMMA ProfileFailedKeeps ==
  ASSUME AuthIInv, NEW s \in Slots, ProfileFailed(s) PROVE AuthIInv'
<1>1. Waiting(s, "me") BY DEF ProfileFailed
<1>2. call[s] # Idle BY <1>1, WaitingType
<1>3. /\ call' = [call EXCEPT ![s] = Idle] /\ parted' /\ parted' \in BOOLEAN
      /\ UNCHANGED <<token, stored, page, pending, made>>
  BY DEF ProfileFailed, storage
<1>4. TypeOK /\ loading \in BOOLEAN BY DEF AuthIInv, TypeOK
<1>5. CASE call[s].kind = "init"
  <2>1. /\ user' = NoAccount /\ grants' = NoAccount /\ tenants' = <<>> /\ slug' = NoSlug
        /\ loading' = StillLoading(call[s]) /\ strayed' /\ strayed' \in BOOLEAN
    BY <1>5 DEF ProfileFailed, SignedOut
  <2>2. loading' <=> (loading /\ call[s].kind # "init") BY <2>1 DEF StillLoading
  <2>3. call' \in CallMap /\ InitCalls' BY <1>2, <1>3, <2>2, Ends
  <2>4. TypeOK'
    <3>1. tenants' \in Seq(Slugs) BY <2>1
    <3>2. loading' \in BOOLEAN BY <2>1, <1>4 DEF StillLoading
    <3> QED BY <1>3, <1>4, <2>1, <2>3, <3>1, <3>2
          DEF TypeOK, CallMap, Holders, SlugValues
  <2>5. SlugAvailable' /\ SlugKept' /\ Agrees'
    BY <1>3, <2>1 DEF SlugAvailable, SlugKept, Agrees
  <2> QED BY <2>3, <2>4, <2>5 DEF AuthIInv
<1>6. CASE call[s].kind # "init"
  <2>1. UNCHANGED <<user, grants, tenants, slug, loading, strayed>>
    BY <1>6 DEF ProfileFailed, session
  <2>2. call' \in CallMap /\ InitCalls' BY <1>2, <1>3, <1>4, <1>6, <2>1, Ends
  <2>3. TypeOK' BY <1>3, <1>4, <2>1, <2>2 DEF TypeOK, CallMap
  <2>4. SlugAvailable' /\ SlugKept' /\ Agrees'
    BY <1>3, <2>1 DEF AuthIInv, SlugAvailable, SlugKept, Agrees
  <2> QED BY <2>2, <2>3, <2>4 DEF AuthIInv
<1> QED BY <1>5, <1>6

\* What follows a load, whichever it was: only a slug typed for a Google sign-in
\* makes the slug remembered another than the one kept.
LEMMA AfterLoadEffect ==
  ASSUME AuthIInv, NEW s \in Slots, Waiting(s, "tenants"),
         NEW kept \in SlugValues, AfterLoad(s, kept)
  PROVE  /\ page' \in Pages /\ pending' \in Holders /\ call' \in CallMap /\ InitCalls'
         /\ \A t \in Slots \ {s} : Alike(t)
         /\ loading' \in BOOLEAN /\ stored' \in SlugValues /\ strayed' \in BOOLEAN
         /\ ~strayed' => ~strayed /\ stored' = kept
<1>1. call[s] # Idle /\ call[s].given \in SlugValues BY WaitingType
<1>2. loading \in BOOLEAN /\ strayed \in BOOLEAN /\ page \in Pages /\ pending \in Holders
  BY DEF AuthIInv, TypeOK
<1>3. /\ loading' = StillLoading(call[s])
      /\ stored' = IF call[s].kind = "google" /\ call[s].given # NoSlug
                   THEN call[s].given ELSE kept
      /\ strayed' = (strayed \/ stored' # kept)
  BY DEF AfterLoad
<1>4. /\ loading' <=> (loading /\ call[s].kind # "init")
      /\ loading' \in BOOLEAN /\ stored' \in SlugValues /\ strayed' \in BOOLEAN
      /\ ~strayed' => ~strayed /\ stored' = kept
  BY <1>1, <1>2, <1>3 DEF StillLoading
<1>5. CASE call[s].kind \in {"email", "google"}
  <2>1. PICK p \in Protected : Leave(p, [call EXCEPT ![s] = Idle])
    BY <1>5 DEF AfterLoad
  <2>2. p \in Pages BY DEF Pages
  <2> QED BY <1>1, <1>4, <2>1, <2>2, EndsLeaving
<1>6. CASE call[s].kind \notin {"email", "google"}
  <2>1. call' = [call EXCEPT ![s] = Idle] /\ page' = page /\ pending' = pending
    BY <1>6 DEF AfterLoad
  <2> QED BY <1>1, <1>2, <1>4, <2>1, Ends
<1> QED BY <1>5, <1>6

LEMMA TenantsAnsweredKeeps ==
  ASSUME AuthIInv, NEW s \in Slots, TenantsAnswered(s) PROVE AuthIInv'
<1>1. TypeOK BY DEF AuthIInv
<1>2. Waiting(s, "tenants") /\ call[s].as # NoAccount BY DEF TenantsAnswered
<1>3. call[s].as \in Accounts /\ call[s].seen \in SlugValues /\ call[s].waits = "tenants"
  BY <1>2, WaitingType DEF Holders
<1> DEFINE current == IF call[s].kind = "init" THEN stored ELSE call[s].seen
<1>4. PICK list \in ListsOf[call[s].as] :
        /\ tenants' = list
        /\ slug' = Resolve(list, current)
        /\ AfterLoad(s, Resolve(list, current))
  BY DEF TenantsAnswered
<1>5. /\ parted' = (parted \/ call[s].as # token)
      /\ UNCHANGED <<token, user, grants, made>>
  BY DEF TenantsAnswered
<1>6. current \in SlugValues BY <1>1, <1>3 DEF TypeOK
<1> HIDE DEF current
<1>7. list \in Seq(Slugs) BY <1>3, AuthAssumption
<1> DEFINE resolved == Resolve(list, current)
<1>8. resolved \in Slugs /\ (list # <<>> => resolved \in Range(list))
  BY <1>6, <1>7, ResolveEffect
<1>9. slug' = resolved /\ AfterLoad(s, resolved) BY <1>4
<1> HIDE DEF resolved
<1>10. resolved \in SlugValues BY <1>8 DEF SlugValues
<1>11. /\ page' \in Pages /\ pending' \in Holders /\ call' \in CallMap /\ InitCalls'
       /\ \A t \in Slots \ {s} : Alike(t)
       /\ loading' \in BOOLEAN /\ stored' \in SlugValues /\ strayed' \in BOOLEAN
       /\ ~strayed' => ~strayed /\ stored' = resolved
  BY <1>2, <1>9, <1>10, AfterLoadEffect
<1>12. TypeOK'
  <2>1. parted' \in BOOLEAN BY <1>1, <1>5 DEF TypeOK
  <2> QED BY <1>1, <1>4, <1>5, <1>7, <1>9, <1>10, <1>11, <2>1 DEF TypeOK, CallMap
<1>13. SlugAvailable' BY <1>4, <1>8, <1>9 DEF SlugAvailable
<1>14. SlugKept' BY <1>9, <1>11 DEF SlugKept
<1>15. Agrees'
  <2>1. MeWait => MeWait'
    <3>1. ~Waiting(s, "me") BY <1>3 DEF Waiting
    <3> QED BY <1>11, <3>1, WaitsKept
  <2>2. ~parted' => call[s].as = token BY <1>5
  <2> QED BY <1>2, <1>4, <1>5, <2>1, <2>2 DEF AuthIInv, Agrees
<1> QED BY <1>11, <1>12, <1>13, <1>14, <1>15 DEF AuthIInv

LEMMA TenantsFailedKeeps ==
  ASSUME AuthIInv, NEW s \in Slots, TenantsFailed(s) PROVE AuthIInv'
<1>1. TypeOK BY DEF AuthIInv
<1>2. Waiting(s, "tenants") BY DEF TenantsFailed
<1>3. tenants' = <<>> /\ UNCHANGED <<token, user, grants, made, parted>>
  BY DEF TenantsFailed
<1> DEFINE kept == IF call[s].kind = "init" THEN stored ELSE DefaultSlug
<1>4. /\ AfterLoad(s, kept)
      /\ slug' = IF call[s].kind = "init" THEN slug ELSE DefaultSlug
  BY DEF TenantsFailed
<1>5. kept \in SlugValues /\ slug' \in SlugValues
  BY <1>1, <1>4, AuthAssumption DEF TypeOK, SlugValues
<1>6. ~strayed => slug' = kept BY <1>4 DEF AuthIInv, SlugKept
<1> HIDE DEF kept
<1>7. /\ page' \in Pages /\ pending' \in Holders /\ call' \in CallMap /\ InitCalls'
      /\ \A t \in Slots \ {s} : Alike(t)
      /\ loading' \in BOOLEAN /\ stored' \in SlugValues /\ strayed' \in BOOLEAN
      /\ ~strayed' => ~strayed /\ stored' = kept
  BY <1>2, <1>4, <1>5, AfterLoadEffect
<1>8. TypeOK'
  <2>1. tenants' \in Seq(Slugs) BY <1>3
  <2> QED BY <1>1, <1>3, <1>5, <1>7, <2>1 DEF TypeOK, CallMap
<1>9. SlugAvailable' BY <1>3 DEF SlugAvailable
<1>10. SlugKept' BY <1>6, <1>7 DEF SlugKept
<1>11. Agrees'
  <2>1. MeWait => MeWait'
    <3>1. ~Waiting(s, "me") BY <1>2 DEF Waiting
    <3> QED BY <1>7, <3>1, WaitsKept
  <2> QED BY <1>3, <2>1 DEF AuthIInv, Agrees
<1> QED BY <1>7, <1>8, <1>9, <1>10, <1>11 DEF AuthIInv

LEMMA AnswerKeeps ==
  ASSUME AuthIInv, NEW s \in Slots, Answer(s) PROVE AuthIInv'
<1>1. CASE SignedIn(s) BY <1>1, SignedInKeeps
<1>2. CASE SlugRequired(s) BY <1>2, SlugRequiredKeeps
<1>3. CASE Refused(s) BY <1>3, RefusedKeeps
<1>4. CASE RegisterAnswered(s) BY <1>4, RegisterAnsweredKeeps
<1>5. CASE ProfileAnswered(s) BY <1>5, ProfileAnsweredKeeps
<1>6. CASE ProfileFailed(s) BY <1>6, ProfileFailedKeeps
<1>7. CASE TenantsAnswered(s) BY <1>7, TenantsAnsweredKeeps
<1>8. CASE TenantsFailed(s) BY <1>8, TenantsFailedKeeps
<1>9. CASE LogoutAnswered(s) BY <1>9, LogoutAnsweredKeeps
<1>10. CASE LogoutFailed(s) BY <1>10, LogoutFailedKeeps
<1>11. CASE UpdateAnswered(s) BY <1>11, UpdateAnsweredKeeps
<1>12. CASE RefreshTenants(s) BY <1>12, RefreshTenantsKeeps
<1> QED BY <1>1, <1>2, <1>3, <1>4, <1>5, <1>6, <1>7, <1>8, <1>9, <1>10, <1>11, <1>12 DEF Answer
-----------------------------------------------------------------------------
LEMMA NextKeeps ==
  ASSUME AuthIInv, [Next]_vars PROVE AuthIInv'
<1>1. ASSUME NEW s \in Slots, Answer(s) PROVE AuthIInv' BY <1>1, AnswerKeeps
<1>2. ASSUME NEW s \in Slots, Visitor(s) PROVE AuthIInv' BY <1>2, VisitorKeeps
<1>3. CASE CloseSlugDialog BY <1>3, CloseSlugDialogKeeps
<1>4. CASE SetActiveTenantSlug BY <1>4, SetActiveTenantSlugKeeps
<1>5. ASSUME NEW p \in Pages, Open(p) PROVE AuthIInv' BY <1>5, OpenKeeps
<1>6. CASE Redirect BY <1>6, RedirectKeeps
<1>7. CASE Reload BY <1>7, ReloadKeeps
<1>8. CASE OtherTab BY <1>8, OtherTabKeeps
<1>9. CASE UNCHANGED vars
  <2>1. UNCHANGED <<token, stored, user, grants, tenants, slug, loading, page, pending,
                    call, made, parted, strayed>>
    BY <1>9 DEF vars
  <2>2. TypeOK' BY <2>1 DEF AuthIInv, TypeOK
  <2> QED BY <2>1, <2>2 DEF AuthIInv, InitCalls, LoadingAwaitsInit, OneInit, InitWaits,
       SlugAvailable, SlugKept, Agrees, MeWait, LoadWait, Waiting
<1> QED BY <1>1, <1>2, <1>3, <1>4, <1>5, <1>6, <1>7, <1>8, <1>9 DEF Next

\* The invariant of the tab, with what is still being read when the session and
\* the token disagree.
THEOREM AuthIInvHolds == Spec => []AuthIInv
<1>1. Init => AuthIInv BY InitHolds
<1>2. AuthIInv /\ [Next]_vars => AuthIInv' BY NextKeeps
<1> QED BY <1>1, <1>2, PTL DEF Spec

\* The loading screen is up exactly as long as the first load has not returned.
THEOREM AuthInvHolds == Spec => []AuthInv
<1>1. AuthIInv => AuthInv BY DEF AuthIInv, InitCalls, AuthInv
<1> QED BY <1>1, AuthIInvHolds, PTL

\* However sign-ins, logouts, updates and loads overlap, a quiet tab shows the
\* account it holds the token of, unless an answer to another token or a failure
\* came between.
THEOREM SessionAlwaysAgrees == Spec => []SessionAgrees
<1>1. AuthIInv => SessionAgrees
  <2>1. Quiet => ~MeWait /\ ~LoadWait BY DEF Quiet, Free, MeWait, LoadWait, Waiting
  <2> QED BY <2>1 DEF AuthIInv, Agrees, SessionAgrees
<1> QED BY <1>1, AuthIInvHolds, PTL

\* The active slug is one of the tenants offered, whenever some are.
THEOREM SlugAlwaysAvailable == Spec => []SlugAvailable
<1>1. AuthIInv => SlugAvailable BY DEF AuthIInv
<1> QED BY <1>1, AuthIInvHolds, PTL

\* The slug remembered for the next visit is the one shown, unless it was written
\* alone.
THEOREM SlugAlwaysKept == Spec => []SlugKept
<1>1. AuthIInv => SlugKept BY DEF AuthIInv
<1> QED BY <1>1, AuthIInvHolds, PTL
=============================================================================
