---------------------------- MODULE AuthContext ----------------------------
(***************************************************************************)
(* The session as one browser tab sees it: the token and the tenant slug   *)
(* kept in localStorage, and the user, the grants and the tenants kept in  *)
(* React state by AuthProvider.  Every request is a call that is answered  *)
(* later, in any order, while the visitor goes on clicking: the answer is  *)
(* applied to the state there is then, and it was asked for with the token *)
(* there was at the start.  The other tabs of the browser share            *)
(* localStorage and nothing else.  An account stands for its profile, its  *)
(* grants and any of its tokens; a slug stands for its normal form.        *)
(***************************************************************************)
EXTENDS Naturals, Sequences, FiniteSets, Functions

CONSTANTS
  Accounts,     \* the accounts that may sign in
  NoAccount,    \* no user, no token
  Slugs,        \* the slugs of tenants
  NoSlug,       \* the empty slug
  DefaultSlug,  \* VITE_DEFAULT_PUBLIC_TENANT
  ListsOf,      \* ListsOf[a]: the lists of slugs the server may answer to a
  Protected,    \* the pages behind ProtectedRoute and PermissionRoute
  Access,       \* Access[a]: the protected pages the grants of a open
  Idle,         \* no call
  Slots,        \* bound: the calls that may be outstanding at once
  MaxCalls      \* bound: the calls between two loads of the page

Public == {"login", "register", "unauthorized"}
Pages == Protected \union Public

Holders == Accounts \union {NoAccount}
SlugValues == Slugs \union {NoSlug}

\* One asynchronous function of the provider that has not returned: "waits" is
\* the request it waits for, "as" the token that request carried, "who" the
\* account a sign-in names, "seen" the active slug its closure captured,
\* "given" the tenant slug typed in the dialog, "here" whether the page that
\* called it is still mounted.
Calls == [kind : {"init", "email", "google", "register", "tenants", "logout", "update"},
          waits : {"auth", "me", "tenants", "logout", "update", "register", "change"},
          as : Holders, who : Holders, seen : SlugValues, given : SlugValues,
          here : BOOLEAN]

ASSUME AuthAssumption ==
  /\ NoAccount \notin Accounts
  /\ NoSlug \notin Slugs
  /\ Idle \notin Calls
  /\ IsFiniteSet(Slots)
  /\ MaxCalls \in Nat \ {0}
  /\ Protected \intersect Public = {}
  /\ DefaultSlug \in Slugs
  /\ ListsOf \in [Accounts -> SUBSET Seq(Slugs)]
  /\ Access \in [Accounts -> SUBSET Protected]

VARIABLES
  token,     \* localStorage anniv_auth_token: whose session it is
  stored,    \* localStorage anniv_active_tenant_slug
  user,      \* the profile shown
  grants,    \* the account whose permission grants are held
  tenants,   \* availableTenants
  slug,      \* activeTenantSlug
  loading,   \* the provider has not finished its first load
  page,      \* the route shown
  pending,   \* the Google credential that waits for a tenant slug
  call,      \* what each outstanding call waits for
  made,      \* how many calls were made since the page was loaded
  parted,    \* history: something has parted the token from the user shown
  strayed    \* history: something has written one of the two slugs alone

vars == <<token, stored, user, grants, tenants, slug, loading, page, pending,
          call, made, parted, strayed>>
session == <<user, grants, tenants, slug, loading>>
storage == <<token, stored>>
history == <<made, parted, strayed>>

Waiting(s, what) == call[s] # Idle /\ call[s].waits = what
Free(s) == call[s] = Idle
Quiet == \A s \in Slots : Free(s)

\* mutant: the remembered slug is kept whether or not the list has it.
ResolveUnchecked(list, current) ==
  IF current # NoSlug THEN current
  ELSE IF list # <<>> THEN Head(list) ELSE DefaultSlug

\* resolvedSlug: the current slug when the list has it, else the first of the
\* list, else the default tenant.
Resolve(list, current) ==
  IF current # NoSlug /\ current \in Range(list) THEN current
  ELSE IF list # <<>> THEN Head(list) ELSE DefaultSlug
-----------------------------------------------------------------------------
AccessOf(a) == IF a = NoAccount THEN {} ELSE Access[a]
InLayout == page \in Protected /\ ~loading /\ user # NoAccount

\* The page leaves: what it kept is gone, and its calls no longer find it.
Leave(p, calls) ==
  /\ page' = p
  /\ pending' = IF p = page THEN pending ELSE NoAccount
  /\ call' = IF p = page THEN calls
             ELSE [s \in Slots |-> IF calls[s] = Idle THEN Idle
                                   ELSE [calls[s] EXCEPT !.here = FALSE]]

Request(kind, waits, as, who, given, here) ==
  [kind |-> kind, waits |-> waits, as |-> as, who |-> who,
   seen |-> IF kind \in {"email", "google", "tenants"} THEN slug ELSE NoSlug,
   given |-> given, here |-> here]

\* A call that the page shown started and still waits for.
Busy(kinds) == \E s \in Slots : call[s] # Idle /\ call[s].here /\ call[s].kind \in kinds

Start(s, request) ==
  /\ Free(s) /\ made < MaxCalls
  /\ call' = [call EXCEPT ![s] = request]
  /\ made' = made + 1
  /\ UNCHANGED <<storage, session, page, parted, strayed>>

\* The provider mounts: its effect looks for a token, and without one it has
\* finished; with one it asks for the profile and the permissions.
FirstCalls ==
  {c \in [Slots -> {Idle, Request("init", "me", token, NoAccount, NoSlug, FALSE)}] :
     Cardinality({s \in Slots : c[s] # Idle}) = IF token = NoAccount THEN 0 ELSE 1}

Init ==
  /\ token \in Holders /\ stored \in SlugValues /\ page \in Pages
  /\ user = NoAccount /\ grants = NoAccount /\ tenants = <<>>
  /\ slug = stored
  /\ loading = (token # NoAccount)
  /\ pending = NoAccount
  /\ call \in FirstCalls
  /\ made = 1
  /\ parted = FALSE /\ strayed = FALSE

\* The visitor reloads the page or opens another one by its address.
Reload ==
  /\ page' \in Pages
  /\ user' = NoAccount /\ grants' = NoAccount /\ tenants' = <<>>
  /\ slug' = stored
  /\ loading' = (token # NoAccount)
  /\ pending' = NoAccount
  /\ call' \in FirstCalls
  /\ made' = 1
  /\ parted' = FALSE /\ strayed' = FALSE
  /\ UNCHANGED storage
\* mutant: the grants of the last account stay.
SignedOutButGrants ==
  /\ user' = NoAccount /\ tenants' = <<>>
  /\ slug' = NoSlug
  /\ UNCHANGED grants

\* Nobody is signed in, in the state the provider shows.
SignedOut ==
  /\ user' = NoAccount /\ grants' = NoAccount /\ tenants' = <<>>
  /\ slug' = NoSlug

\* mutant: whichever load returns first ends the waiting.
LoadingUntilAny(c) == FALSE

\* The "finally" of the first load, and of no other one.
StillLoading(c) == loading /\ c.kind # "init"
-----------------------------------------------------------------------------
(* The pages a visitor signs in from.                                      *)

\* The buttons: each waits for what its own page has sent.
LoginForm == page = "login" /\ ~Busy({"email"})
RegisterForm == page = "register" /\ ~Busy({"register", "google"})
SlugDialog == pending # NoAccount /\ ~Busy({"google", "register"})

SubmitLogin(s, a) ==
  /\ LoginForm
  /\ Start(s, Request("email", "auth", NoAccount, a, NoSlug, TRUE))
  /\ UNCHANGED pending

\* Google delivers a credential when the visitor closes its window, whatever the
\* page does by then; the registration page sends the slug typed so far.
GoogleCredential(s, a, given) ==
  /\ page \in {"login", "register"}
  /\ page = "login" => given = NoSlug
  /\ Start(s, Request("google", "auth", NoAccount, a, given, TRUE))
  /\ UNCHANGED pending

SubmitGoogleSlug(s, given) ==
  /\ SlugDialog
  /\ given # NoSlug
  /\ Start(s, Request("google", "auth", NoAccount, pending, given, TRUE))
  /\ UNCHANGED pending

CloseSlugDialog ==
  /\ SlugDialog
  /\ pending' = NoAccount
  /\ UNCHANGED <<storage, session, page, call, history>>

SubmitRegister(s, given) ==
  /\ RegisterForm
  /\ given # NoSlug
  /\ Start(s, Request("register", "register", NoAccount, NoAccount, given, TRUE))
  /\ UNCHANGED pending

RegisterAnswered(s) ==
  /\ Waiting(s, "register")
  /\ stored' = call[s].given
  /\ strayed' = TRUE
  /\ Leave("login", [call EXCEPT ![s] = Idle])
  /\ UNCHANGED <<token, session, made, parted>>

\* The sign-in answers with a token, which is saved before anything is loaded.
SignedIn(s) ==
  /\ Waiting(s, "auth")
  /\ token' = call[s].who
  /\ call' = [call EXCEPT ![s].waits = "me", ![s].as = call[s].who, ![s].who = NoAccount]
  /\ UNCHANGED <<stored, session, page, pending, history>>

\* A new Google account needs a slug: the page keeps the credential and asks.
SlugRequired(s) ==
  /\ Waiting(s, "auth")
  /\ call[s].kind = "google" /\ call[s].given = NoSlug
  /\ pending' = IF call[s].here THEN call[s].who ELSE pending
  /\ call' = [call EXCEPT ![s] = Idle]
  /\ UNCHANGED <<storage, session, page, history>>

\* A sign-in, a registration, an update of the profile, or a creation or deletion
\* of a tenant is refused or fails: nothing changes.
Refused(s) ==
  /\ \E what \in {"auth", "register", "update", "change"} : Waiting(s, what)
  /\ call' = [call EXCEPT ![s] = Idle]
  /\ UNCHANGED <<storage, session, page, pending, history>>
-----------------------------------------------------------------------------
(* Loading the profile, the permissions and the tenants.                   *)

ProfileAnswered(s) ==
  /\ Waiting(s, "me")
  /\ call[s].as # NoAccount
  /\ user' = call[s].as
  /\ grants' = call[s].as
  /\ call' = [call EXCEPT ![s].waits = "tenants", ![s].as = token]
  /\ parted' = (parted \/ call[s].as # token)
  /\ UNCHANGED <<storage, tenants, slug, loading, page, pending, made, strayed>>

\* The first load clears the state and keeps the token; a load after a sign-in
\* only reports the error, and the token saved before it stays too.
ProfileFailed(s) ==
  /\ Waiting(s, "me")
  /\ call' = [call EXCEPT ![s] = Idle]
  /\ parted' = TRUE
  /\ IF call[s].kind = "init"
     THEN /\ SignedOut
          /\ loading' = StillLoading(call[s])
          /\ strayed' = TRUE
     ELSE UNCHANGED <<session, strayed>>
  /\ UNCHANGED <<storage, page, pending, made>>

\* What follows the load: the first one has finished; a sign-in leaves for the
\* page the visitor came for, and a Google sign-in with a slug first writes it.
AfterLoad(s, kept) ==
  LET c == call[s]
      calls == [call EXCEPT ![s] = Idle] IN
  /\ loading' = StillLoading(c)
  /\ stored' = IF c.kind = "google" /\ c.given # NoSlug THEN c.given ELSE kept
  /\ strayed' = (strayed \/ stored' # kept)
  /\ IF c.kind \in {"email", "google"}
     THEN \E p \in Protected : Leave(p, calls)
     ELSE call' = calls /\ UNCHANGED <<page, pending>>

\* The first load resolves against the slug in localStorage, the others against
\* the slug that was active when the function was called.
TenantsAnswered(s) ==
  /\ Waiting(s, "tenants")
  /\ call[s].as # NoAccount
  /\ \E list \in ListsOf[call[s].as] :
       LET resolved == Resolve(list, IF call[s].kind = "init" THEN stored ELSE call[s].seen) IN
       /\ tenants' = list
       /\ slug' = resolved
       /\ AfterLoad(s, resolved)
  /\ parted' = (parted \/ call[s].as # token)
  /\ UNCHANGED <<token, user, grants, made>>

TenantsFailed(s) ==
  /\ Waiting(s, "tenants")
  /\ tenants' = <<>>
  /\ IF call[s].kind = "init"
     THEN slug' = slug /\ AfterLoad(s, stored)
     ELSE slug' = DefaultSlug /\ AfterLoad(s, DefaultSlug)
  /\ UNCHANGED <<token, user, grants, made, parted>>
-----------------------------------------------------------------------------
(* The signed-in pages.                                                    *)

StartLogout(s) ==
  /\ InLayout
  /\ Start(s, Request("logout", "logout", token, NoAccount, NoSlug, FALSE))
  /\ UNCHANGED pending

LogoutAnswered(s) ==
  /\ Waiting(s, "logout")
  /\ call[s].as # NoAccount
  /\ token' = NoAccount /\ stored' = NoSlug
  /\ SignedOut
  /\ Leave("login", [call EXCEPT ![s] = Idle])
  /\ UNCHANGED <<loading, history>>

\* The token is cleared in a "finally": after it the error leaves logoutUser
\* before any state is, and the page does not move.
LogoutFailed(s) ==
  /\ Waiting(s, "logout")
  /\ token' = NoAccount
  /\ call' = [call EXCEPT ![s] = Idle]
  /\ parted' = TRUE
  /\ UNCHANGED <<stored, session, page, pending, made, strayed>>

\* The form of the profile, for whoever is granted to change it.
ProfileForm == InLayout /\ page = "profile" /\ ~Busy({"update"})

StartUpdate(s) ==
  /\ ProfileForm
  /\ Start(s, Request("update", "update", token, NoAccount, NoSlug, TRUE))
  /\ UNCHANGED pending

\* The answer is laid over whatever user there is, or becomes the user.
UpdateAnswered(s) ==
  /\ Waiting(s, "update")
  /\ call[s].as # NoAccount
  /\ user' = call[s].as
  /\ call' = [call EXCEPT ![s] = Idle]
  /\ parted' = (parted \/ call[s].as # token)
  /\ UNCHANGED <<storage, grants, tenants, slug, loading, page, pending, made, strayed>>

\* A tenant is created or deleted; the function that will then read the tenants
\* is the one of this click.
ChangeTenants(s) ==
  /\ InLayout /\ page = "tenants"
  /\ Start(s, Request("tenants", "change", token, NoAccount, NoSlug, FALSE))
  /\ UNCHANGED pending

\* The change succeeded: its page, mounted or not, has the tenants read again.
RefreshTenants(s) ==
  /\ Waiting(s, "change")
  /\ call[s].as # NoAccount
  /\ call' = [call EXCEPT ![s].waits = "tenants", ![s].as = token]
  /\ UNCHANGED <<storage, session, page, pending, history>>

\* mutant: the slug chosen is not remembered.
SetActiveTenantSlugOnly ==
  /\ InLayout
  /\ \E chosen \in Range(tenants) : slug' = chosen /\ stored' = stored
  /\ UNCHANGED <<token, user, grants, tenants, loading, page, pending, call, history>>

SetActiveTenantSlug ==
  /\ InLayout
  /\ \E chosen \in Range(tenants) : slug' = chosen /\ stored' = chosen
  /\ UNCHANGED <<token, user, grants, tenants, loading, page, pending, call, history>>

\* The visitor follows a link or goes back.
Open(p) ==
  /\ p # page
  /\ Leave(p, call)
  /\ UNCHANGED <<storage, session, history>>

\* ProtectedRoute, then PermissionRoute; neither decides while the provider loads.
Redirect ==
  /\ page \in Protected
  /\ ~loading
  /\ \/ user = NoAccount /\ Leave("login", call)
     \/ /\ user # NoAccount
        /\ page \notin AccessOf(grants)
        /\ Leave("unauthorized", call)
  /\ UNCHANGED <<storage, session, history>>

\* Another tab signs in or out: this one is told nothing.  Bound: once between
\* two loads of the page, and before anything else has parted the two.
OtherTab ==
  /\ ~parted /\ ~strayed
  /\ token' \in Holders \ {token}
  /\ stored' \in SlugValues
  /\ parted' = TRUE /\ strayed' = TRUE
  /\ UNCHANGED <<session, page, pending, call, made>>
-----------------------------------------------------------------------------
Answer(s) ==
  \/ SignedIn(s) \/ SlugRequired(s) \/ Refused(s) \/ RegisterAnswered(s)
  \/ ProfileAnswered(s) \/ ProfileFailed(s)
  \/ TenantsAnswered(s) \/ TenantsFailed(s)
  \/ LogoutAnswered(s) \/ LogoutFailed(s)
  \/ UpdateAnswered(s) \/ RefreshTenants(s)

Visitor(s) ==
  \/ \E a \in Accounts : SubmitLogin(s, a)
  \/ \E a \in Accounts, g \in SlugValues : GoogleCredential(s, a, g)
  \/ \E g \in Slugs : SubmitGoogleSlug(s, g) \/ SubmitRegister(s, g)
  \/ StartLogout(s) \/ StartUpdate(s) \/ ChangeTenants(s)

Next ==
  \/ \E s \in Slots : Answer(s) \/ Visitor(s)
  \/ CloseSlugDialog \/ SetActiveTenantSlug
  \/ \E p \in Pages : Open(p)
  \/ Redirect
  \/ Reload
  \/ OtherTab

Spec == Init /\ [][Next]_vars
-----------------------------------------------------------------------------
TypeOK ==
  /\ token \in Holders /\ user \in Holders /\ grants \in Holders
  /\ pending \in Holders
  /\ stored \in SlugValues /\ slug \in SlugValues
  /\ tenants \in Seq(Slugs)
  /\ loading \in BOOLEAN /\ parted \in BOOLEAN /\ strayed \in BOOLEAN
  /\ page \in Pages
  /\ made \in 1..MaxCalls
  /\ call \in [Slots -> Calls \union {Idle}]

\* When nothing is outstanding, the tab shows the account it holds the token
\* of, with the grants and the tenants of that account: a login, a logout, an
\* update and the first load may overlap and be answered in any order, and only
\* an answer to another token, a failed logout, a failed load or another tab
\* parts them (contexts/AuthContext.tsx, services/authService.ts).
SessionAgrees ==
  Quiet /\ ~parted =>
    /\ user = token /\ grants = user
    /\ tenants # <<>> => user # NoAccount /\ tenants \in ListsOf[user]

\* The active slug is one of the tenants offered whenever some are, although the
\* list and the slug the answer is resolved against may be of different moments
\* and accounts (syncActiveTenant, and the first load).
SlugAvailable == tenants # <<>> => slug \in Range(tenants)

\* The slug in localStorage, which the next visit starts from, is the one shown,
\* unless a registration or a Google sign-in wrote it alone, the first load
\* failed, or another tab wrote it.
SlugKept == ~strayed => stored = slug

\* The provider shows that it loads exactly as long as the first load has not
\* returned: a guarded page is never redirected on a session still being read,
\* and never waits for one nobody reads.
LoadingAwaitsInit == loading <=> \E s \in Slots : call[s] # Idle /\ call[s].kind = "init"

\* The types, and what the loading screen waits for.
AuthInv == TypeOK /\ LoadingAwaitsInit
=============================================================================
