# Verification of anniversary-site

TLA+ models of anniversary-site, their TLC runs and TLAPS proofs. The program is
a Go/Gin server over PostgreSQL (through GORM) and Redis, with a React frontend.
Couples ("tenants") have a public site each, which is a game, a showcase and
music; owners edit its configuration in a setup page; accounts, roles, sessions
and plans surround it.

Check a run with `tlc -config X.cfg M`, a proof with `tlapm M.tla`. PROJECT.json
lists the runs, maps every definition to the lines it models, and names the
hazards, the findings and the theorems.

## 1. The system

**The server** has one process and many goroutines, one per request. No handler
takes a database transaction (only the assignment of permissions and menus to a
role does), and nothing in memory is shared but the mutex of the file store. So
the unit of interleaving is one database or Redis call, and what a handler read
before may be stale at its next call. A handler runs to its end unless the
process dies; a client that hangs up cancels only calls that were given the
request's context.

**The frontend** has one thread. A click, a timer or an answer is handled to its
end and rendered before the next one. React runs the effects of a click before the
next click; those of the render that a timer or an answer caused may run after the
next timer. What interleaves is everything that is answered later:
requests (none is cancelled), timers, the play of an audio element. An answer is
applied to the state there is when it comes, but closures may remember the state
there was when it was asked for. Tabs of one browser share localStorage only.

| Component | State | Operations | Hard part | Module |
| --- | --- | --- | --- | --- |
| Tenants, members | `tenants`, `tenant_members` | Create, Update, Delete, AddMember | quota and slug checked before the writes; stale whole-row saves; two writes per creation | Tenancy |
| Registration | `users` | RegisterUser, LoginWithGoogle, Delete | the account is stored before its tenant; e-mail and slug are UNIQUE | Tenancy |
| Site configuration, database store | `anniversary_site_configs` | GetPublic, GetSetup, UpdateConfig, ReplaceMoments, AddMoment, DeleteMoment | every load writes; every edit is a load and a save; slugs resolved up to three times | ConfigDocs, AnniversaryStore |
| Normalization | a stored document | sanitizeConfig | defaults by position, before a sort; run on every load and save | SanitizeMoments |
| Request limit | a Redis counter | the two middlewares | counter and deadline in two calls; fails open | RateLimit |
| Login limit | two Redis keys | IsBlocked, RegisterFailure, Reset | the password is checked between the calls | LoginLimit |
| Sessions | three Redis keys each | create, list, revoke, revoke others, logout | pipelines without transactions; cleanup on any error | Sessions |
| Love game | React state, four kinds of timers | No, Yes, stages, cards, photos, reset | timers outlive what set them; lists shrink under their indices | LoveGame |
| Public pages, music | React state, one audio element of the module | load, navigate, languages, play, suppression | late answers; a play awaited; cleanups that are missing | PublicPages |
| Setup editor | React state, one key of localStorage | load, save, upload, rows, preview | answers that meet another form | SetupEditor |
| Session of a tab, sign-in | React state, two keys of localStorage | first load, sign-ins, logout, tenants, guarded routes | overlapping loads of one session | AuthContext |
| Administration lists | the rows of one page | page, search, delete, switch | answers that overtake each other | AdminLists |
| Administration forms | one record | load, edit, submit, members | a role in three requests | AdminForms |
| Site configuration, file store | one JSON file | load, first write | a crash in the middle of the write | – |
| Accounts | `users`, `blacklist`, JWTs | update, password change and reset, delete | whole-row saves; roles inside tokens | – |
| Roles, permissions, menus | RBAC tables | CRUD, assignments | soft deletes under unique names; racing assignments | – |
| Public payload; slugs; plans | none | pure functions | leap days; copies that disagree | – |
| Storage, locations, audit, startup, password pages, notices, texts | – | – | stateless, or written and never read | – |

How they meet: the tenant service and the configuration store share `tenants`
(the default tenant is upserted by loads of its page, slugs decide which row a
load writes) and the foreign key from configurations to tenants; registration
writes accounts, tenants and members; the request limit stands before
registration, the login limit around the password check. Without
`ANNIVERSARY_STORE=db` the setup API is not there at all (router.go:122-131): the
file store then only serves public loads. In the frontend, the game page gives
LoveGame its configuration and tells the audio where the player is; the game and
the showcase share that audio element; the setup page takes its tenants from the
session of the tab, which signs in through the login of the server; the list of
tenants refreshes those of the session after a deletion.

What makes them correct, in short:

* tenants: a slug comes only from a creation, from a global user or from the
  upsert of the default tenant; members and tenants change only for a manager;
  a tenant's last owner is lost in three known ways only; plans are overshot only by what races;
* configurations: a tenant stores only its own versions and its owners' edits of
  them, and never an empty list of moments; alone, a client sees a register;
* sessions: what is alive is listed, and what is revoked is gone;
* limits: a window has a deadline, it is never put off, and it lets through a
  bounded number; failures are forgotten;
* game: photos and videos stay behind the cards, the envelope opens, no index
  leaves its list but when the list shrinks;
* public pages: shown is what was asked for last; the voice note is heard alone;
* editor: the preview is not said to be up to date when it is not, the form is of
  the tenant loaded last, pictures land where they were chosen;
* tab: user, grants, tenants and token are of one account; the slug is offered
  and remembered; the loading screen ends;
* administration: rows are true once nothing is in flight, or again after the next
  clean load; what success is told of is stored, three known parts excepted.

## 2. The modules

### The server

**Tenancy.** A request is a process that makes one repository call per step;
`req[p]` holds its next call and what it read so far. `users`, `slugOf`,
`members` and `configs` are the tables (an account is never removed, only
soft-deleted, so `users` has three values). Reads that only refuse a request
that wrote nothing yet are guards of the action that begins it, which is sound
because such a request changes nothing; the quota, the slug check of an update,
and every check that precedes a write stay steps. `Fail` is a failed call or the
death of the process: what was written stays. `Faults` allows it. `granted` and
`titles` are history variables for the invariants. Actions are named for the
service methods: `Create`, `CreateQuota`, `StoreTenant`, `StoreOwner`;
`RegisterUser`, `StoreUser`, `GetBySlug`; `Update`, `EnsureTenantManageable`,
`UpdateCheckSlug`, `UpdateSave`; `Delete`, `DeleteTenant`; `AddMember`,
`AddMemberGetUser`, `StoreMember`; `LoadByTenantSlug`, `EnsureDefaultTenant`,
`ResolveTenantIDBySlug`, `SaveByTenantID`; `DeleteUser`.

**ConfigDocs** is the data of a configuration: the body and the moments, the four
edits, and what sanitizeConfig does to a list without moments. **AnniversaryStore**
has the handlers over it, again one database call per step; `MoveSlug` is the
update of a slug by a global user, which Tenancy models in full. Owners are
constant there and tenants are not deleted: Tenancy shows that a configuration
keeps its tenant. `versions` and `submitted` are histories. The constant
`MidRequest` says whether slugs may move that a request in flight names.

**ConfigRegister** and **ConfigHistory** are abstract. The first is what a lone
client may rely on: accepting an edit and its effect, all or nothing, with the
first look at a tenant copying the template. The second is what racing clients
still have: a tenant stores an earlier version or one owner's edit of one.
AnniversaryStore implements the second whenever slugs move only between the
requests that name them, and the first when requests come one after another.

**SanitizeMoments** has the list of moments in detail, as a sequence: years,
titles and notes left blank, the built-in texts by position, the sort. Up to
twelve elements `sort.Slice` is an insertion sort and hence stable, so the lists
are no longer than that (`SanitizeAssumption`), and a moment's place is the number
of moments that come before it, as it is after an insertion sort (`Arranged`).

**RateLimit** and **LoginLimit** follow one key each: keys of different addresses
never meet. Each Redis call is a step and may fail, before or after Redis did its
part (the client library repeats a call without answer). `Elapse`, `AttemptsElapse` and
`BlockElapse` are Redis removing an expired key. LoginLimit has one assumption
about time: a block, minutes long, does not end while the request that set it is
about to drop the counter, one Redis call later.

**Sessions** follows the three keys of each session, `record`, `listed` and
`byToken`, the time to live of a user's list, and the blacklist. Every command of
a pipeline is a step: the pipelines of `Create` and `Delete` are no transactions,
other clients come between, and a broken connection cuts them short
(`CreateBreaks`, `DeleteBreaks`). A session and its token share an identifier,
since a token carries the id of the request that made it. Revoking a session ends
its three keys and not its token, which `AuthMiddleware` accepts until it expires
or its own logout blacklists it; so the properties speak of sessions.

### The frontend

**LoveGame** is InteractiveLoveGame with the stages it renders. `step`, `stage`,
`open`, `surprise`, `photo`, `video`, `cards` and `revealed` are its state hooks;
a set of things shown is its size. `yesTimers`, `spinTimers` and `openTimers`
count the pending timeouts of a kind (they carry no data). `Effects` are the passive
effects of a render: they run before any click, but when a timer or an answer caused
the render, maybe after the next timer. `seen` is what the effect of the envelope
last ran for; `slides` is the number of photos the interval of the slide show was set
for, so an old tick may step through a list that is shorter by now. `ConfigArrives`
is the answer of the page above, whenever it comes, with any configuration of
`Configs`: it renders at once, and the indices are corrected by the effects. A render
that reads past a list ends the page (`crashed`), for there is no error boundary.
`PlayAgain` unmounts the game, which clears its timers.

**PublicPages** is one tab on the cover, the game page and the showcase of any
tenant. `loads` are the requests, with the mounted flag of the effect that sent
each; `music` is the module state of publicJourneyAudio: source, playing,
isSuppressed. The helpers `Play`, `Pause`, `Suppress`, `GetAudio` are its
functions, `GameMood`, `LeftGame` and `ShowcaseMood` the effects of the pages
with their cleanups. A play may be refused by the browser, and so may the resuming of
a song whose source changes. `starting` holds the
covers left by "start" whose play is not answered yet: the navigation comes then.

**SetupEditor** is SetupAnniversaryPage. A row holds no picture, its own, or one
chosen for another row; that is all the properties need of the photos, the
videos and the posters. An upload remembers where its answer will go (`at`) and
where its row is by now (`row`, a history). Nothing keeps a row from being given a
second file while the first is under way, nor the two songs from being sent at once. `previewed`, `pending`, `stored`,
`frame` and `frameDue` are the preview: the state of the form it was made from,
the notice, localStorage, and the frame that reads it once. The answers of a
load, a save and an upload are actions of their own.

**AuthContext** is AuthProvider, authService, the two sign-in pages, the guarded
routes and the layout. A call is a function of the provider that has not
returned: `waits` is its next answer, `as` the token the request carried, `seen`
the slug its closure captured, `here` whether its page is still mounted. Calls
are answered in any order, and between the answers of one the visitor goes on.
A creation or deletion of a tenant (`ChangeTenants`) goes on to read the tenants with
the closure of its click (`RefreshTenants`). `OtherTab` writes localStorage. `parted` and `strayed` are histories of the
events that may part the token from the user, and one slug from the other.

**AdminLists** is the four list pages as one module, parameterised by `listKind`: what
their effects depend on and which buttons a row has differ. A load is asked for,
read by the server, and answered, in three steps; `Page` is the server's answer, with
the rows of a superadmin taken out after the page was cut. A deletion or a switch is
asked for, found (but for the deletion of a menu, which is not looked up), written
and answered; the switch of a menu saves the whole row. `OtherWrites` is any other
administrator, tab or request given up. `crossed` remembers that requests overtook
each other or somebody else wrote, until a load that nothing overtakes is answered.

**AdminForms** is the four forms: `form` is what is shown, `sent` what was submitted,
`steps` the requests still to be answered, of which a role has up to three. `Keeps`
are the parts an update leaves as they are although they were sent, `Written` what
the server stores. A page that is left or opened again goes on sending (`left`); a
reload of the tab leaves only the request under way. `OtherAdmin` writes the record.

`MC*` modules extend the components they check and define the values their .cfg
gives the constants; assumptions about constants are named, in the module that
declares them, and TLC evaluates them on every run that has the module. `*Proofs`
modules hold the proofs.

## 3. The runs

| Run | Checks | Bounds |
| --- | --- | --- |
| MCTenancySlugs | `Inv` (the inductive invariant), `SlugsAreGranted`, `DefaultTenantKept` under creation, update, deletion, loads and calls that fail | two requests, two tenants, three slugs: an update of one tenant can meet the creation, deletion or load that changes its slug |
| MCTenancyMembers | `ChangesAreAuthorised` and `OwnersLostOnlyThen` while owners appoint, demote, rename and delete, tenants are created, and calls fail | three requests, two users who may own the tenant beside the default one: an update or a demotion can be between the check and the write of a deletion, and a deletion between those of an update; a global user, who needs no check, is in the other two runs |
| MCTenancyLifecycle | `QuotaInv`, `QuotaOvershootBounded` for all three kinds of creation against deletions of tenants and accounts | two requests, three users of whom one has a plan of one tenant and one a plan of none; a failed call only takes a request away, so without faults |
| MCAnniversaryConcurrent | `RequestsStay`, `StoredNormalized`, and `HistorySpec`: the store implements ConfigHistory | two at a time, three requests in all, moves of slugs among them, two tenants besides the template: a save, the load of another request and a second tenant can meet; one edit of each kind |
| MCAnniversarySequential | `RegisterSpec`: the store implements ConfigRegister | one at a time, three in a row: an edit, one that builds on it, a look, or a move of the slug between them |
| MCAnniversaryLoadDoc, MCAnniversaryOwnerDoc | violations of `LoadsOnlyNormalize` and `OnlyOwnersUpdate`, see section 4 | |
| MCRateLimitDoc | violation of `LaterIsAllowed` | |
| MCLimits | RateLimit: `DeadlineComing`, `PassesBounded`, `DeadlineIsFixed`, `WindowsEnd`; LoginLimit: `GuessesBounded`, `FailuresForgotten`; SanitizeMoments: `Presentable`, `Settles`, `LoadsKeepTexts` | three requests or logins, limit three: a block can come while two others are past the check, and counts past the limit are alike; any call of the request limit and two of the login limit fail; lists of up to three moments around one built-in one: years out of order, missing and given twice |
| MCSessions | Sessions: `LiveListed`, `OthersRevoked`; SetupEditor: `Inv`, `PreviewHonest`, `LastLoadShown`, `UploadsLand` | two requests, two sessions of one user, failing calls: a login, a listing or a revocation against another; sessions of different users share no key. Two tenants, two rows, two uploads: an upload can meet a second one, the removal of its row and a load of another tenant |
| MCSignedIn | AuthContext: `AuthInv`, `SessionAgrees`, `SlugAvailable`, `SlugKept`; AdminLists: `RowsTrue`; AdminForms: `SaidAndDone` | two accounts, one with two tenants or one of them and one with none, two calls outstanding, three between two loads of the page: a login can meet the first load, a logout or another login; two records on a page each, one of them kept from the caller, two requests in flight: a load can meet a change, a second load, and what others write; one load and one submission whose page was left beside the form: a left page can serve between any two requests of the present one; one other member of a tenant |
| MCVisitor | LoveGame: `Inv`, `GateHeld`, `BreaksOnlyWhenShorter`, `EnvelopeOpens`; PublicPages: `PagesInv`, `ShownIsAsked`, `VoiceAlone`, `LoadingEnds` | three configurations (the fallback, a full one, a shorter one), two refusals, two messages, two cards of three to unlock, two timers of a kind: a timer can meet a second one of its kind, every stage, and the arrival of a shorter list; a tick of the slide show can come before the effects of that arrival; two tenants, two languages, two songs, three requests of which two are replaced, two moves |

**Machines side by side.** The last four runs hold two or three modules each that
share no state in these bounds. The variable `machine`, chosen in the first
state, says which of them moves; the others stay where they started. So a run
has the behaviours of each module and no product of them, and every property of a
module is checked over all of that module's behaviours. MCLimits and MCVisitor ask the
fairness of a module only of the machine that moves.

Only requests in flight interact through time; two, and three where one must be
between two others, reach every pair of steps in both orders. Symmetry over
processes, over the sessions of one user and over the calls of a tab is used only
where the properties are of states or of single steps and they are interchangeable.

**Fairness.** On the server, a handler that got past its first call runs to its
end (a goroutine is not stopped when its client hangs up), and Redis removes an
expired key. In the game, a timer that was set fires and an effect that is due
runs, which the browser and React see to. On the public pages, some outstanding
request is answered or fails: a fetch ends. New requests, clicks and arriving
configurations are never forced. The other modules check safety only.

**Deadlock** is not checked where a bound on requests ends the behaviours or every
session has expired, and the configurations say so.

## 4. What the runs found

Three runs show where a comment, a test or a message says more than the code does:

* A page view can undo a save: every load writes back what it read
  (`LoadsOnlyNormalize`).
* A slug that moves between the check of the owner and the save carries the edit
  into another tenant (`OnlyOwnersUpdate`). When slugs move only between requests,
  `RequestsStay` holds, and is proved.
* A counter whose deadline could not be set refuses its address for ever
  (`LaterIsAllowed`).

The properties that hold are as weak as they are because of the following, which
the models contain. On the server:

* Two creations of one user both pass the quota (README.md:264). The overshoot is
  at most the number of requests in flight less one (`QuotaOvershootBounded`).
* A registration whose slug is refused leaves an account without a tenant, whose
  e-mail is taken (README.md:304). So `QuotaInv` speaks of tenants, not of accounts.
* A tenant may lose its last owner: its creation is cut off between its two writes,
  an owner is made a member (service.go:187-224), or the save of an update puts back
  the row of a tenant deleted meanwhile (service.go:153-168). `OwnersLostOnlyThen`
  says that there is no fourth way.
* An owner's update writes back a slug that a global user changed meanwhile
  (README.md:306). It is still a slug the tenant was granted (`SlugsAreGranted`).
* A tenant whose page was ever opened has a configuration, and its deletion fails
  (README.md:260). `ChangesAreAuthorised` says so of every deletion that succeeds.
* Deleting the last moment brings the built-in ones back (README.md:214):
  `StoredNormalized` holds because of it.
* A listing takes a session off the list of its user on any error of its read, a
  passing one too (session_repo.go:89-93). It lives on, unlisted, and
  RevokeAllOtherSessions then reports success without ending it: `LiveListed` and
  `OthersRevoked` except such sessions (`hidden`).
* A saved list of moments may change with the next page view, which gives a note
  to a moment stored without one; after that it stays (`Settles`).

In the frontend:

* Two messages asked for at once may come back to the one shown before, and the
  effect that opens the envelope does not run: it stays shut until another message is asked for
  (InteractiveLoveGame.tsx:168-175, 298-304). `EnvelopeOpens` excepts it
  (`doubled`).
* A configuration that arrives with fewer photos or videos than the index in use
  ends the page: the render comes before the effect that corrects the index
  (InteractiveLoveGame.tsx:150-166). And a tick of the slide show set for the longer
  list may come between the two and set an index past the new one (157-158).
  `BreaksOnlyWhenShorter` says that nothing else ends it.
* A game left from the voice note leaves the suppression of the music on: the
  music button of the showcase does nothing until a game is opened again
  (InteractiveLoveGame.tsx:192-211). `VoiceAlone` speaks of the game.
* The slug of a Google sign-in or a registration is written to localStorage alone
  (LoginPage.tsx:61, RegisterPage.tsx:46): the tab shows the slug resolved before
  until the next visit. `SlugKept` excepts it (`strayed`).
* An answer to a request that carried an earlier token is taken as any other: a
  profile asked for before a logout or a second sign-in fills the tab after it.
  A failed load of the user keeps the token, and a failed logout keeps the user
  (AuthContext.tsx:106-116, 164-171). `SessionAgrees` excepts these three events,
  and another tab (`parted`); whatever else overlaps ends with one account.
* A picture uploaded for a row that was removed meanwhile lands in the next one,
  or, when there is none, in a row without fields that ends the page
  (SetupAnniversaryPage.tsx:419-465). `UploadsLand` excepts it (`shifted`).
* A save sends the form to the tenant selected now, whichever it was loaded from
  (SetupAnniversaryPage.tsx:396-405).
* A second click on the switch of a menu before the first is answered asks for
  the same state again and turns the row over twice (MenuListPage.tsx:79-88): it
  shows the opposite until the next load. A row also says what it should not after a
  load was overtaken, or somebody else wrote. `RowsTrue` excepts all three (`crossed`)
  until the next load that nothing overtakes.
* The row of a superadmin is taken out of a page after it was cut, and off the total
  if it was there: pages have fewer rows than they should, and their number differs
  from one page to the next (role/service.go:99-107, user_service.go:248-256).
* A switch of a menu that was read before its deletion saves the whole row, and the
  menu is there again (menu/service.go:69-95).
* The parent of a menu cannot be taken away: "none" is not sent (MenuFormPage.tsx:96);
  an icon that is emptied stays (menu/service.go:81-83); and a role sent by a user who
  may update accounts and is no admin is dropped (user_service.go:285, router.go:208).
  Success is told each time (UserFormPage.tsx:111-114, MenuFormPage.tsx:100-103).
  `SaidAndDone` excepts these three parts and says that they are as they were.
* A page that makes a record and is left takes the visitor to its list when it is
  answered, whatever is shown by then (RoleFormPage.tsx:171).
* A switch of the language loads a form again and replaces what was typed; a
  failed load leaves a blank form that may be sent (AdminForms, `SwitchLanguage`
  and `LoadFailed`).

## 5. The proofs

Every invariant, action property and refinement that a passing run checks is also
a theorem, for any number of requests, users, tenants, slugs, configurations,
calls, rows, and any limits. PROJECT.json lists the theorems. Each rests on an
inductive invariant, which is preserved action by action.

**TenancyProofs.** `Inv` is inductive: types, and for each request in flight that
the row it carries has a slug its tenant was granted (`RowGranted`), that it
acts for someone entitled to what it is about to do (`Entitled`), and that its
next call fits its operation. The history variables make this possible: a stale
row is harmless because what it says was true once. From `Inv` follow
`SlugsAreGranted`, `DefaultTenantKept` (the default tenant has a configuration
from the start, and no configured tenant is deleted) and `ChangesAreAuthorised`.

The quota needs another argument: a creation past its quota check holds one of
finitely many places, and owned tenants plus places held stay below the limit
plus the number of requests. `QuotaInv` is inductive beside `Inv`: only stored
accounts own or create tenants, which is what the UNIQUE e-mail and the order of
the calls give. It assumes finite sets of requests and tenants, and that members
are not added: an owner who is appointed owns a tenant without a quota, as the code
intends.

`OwnersLostOnlyThen` assumes nothing about what is in flight or fails. A tenant with an
owner on record keeps that row unless it is stored over or the tenant goes, and a
tenant whose owner is about to be stored has exactly one request that does it; a new
request touches neither (`SettledKept`, `ArrivalKeepsOwners`), and of the calls only
the three named can end both (`CallKeepsOwners`). It rests on `Inv`.

**AnniversaryStoreProofs.** `StoreInv` is inductive, wherever slugs move, and gives
`StoredNormalized`. When slugs move only between the requests that name them
(`~MidRequest`), `RequestsStay` is inductive on top of it, together with slugs
staying distinct and the default tenant keeping its own; and every step of the
store is a step or a stutter of ConfigHistory, under the mapping of `payload` to
its `current`: `ImplementsHistory`.

`ImplementsRegister` has one request at a time (`Alone`) under the same condition. An
edit is pending in ConfigRegister while its request is at work and takes effect when
its save writes; the two fit because the table still is as the request read it
(`Fresh`), so its document is the stored one with its edit, and the loads on the
way write back what is there or the template of a first look.

The moments (`MomentsInv`: texts and years that sanitizeConfig leaves, in order). That
the sort sorts is proved by counting: the number of elements that come before
another is a rank, ranks of distinct elements differ and are those of the places,
so each place has its element (`Ranks`, `ArrangedIs`, `SortedIs`). A list in order
is its own sorting, and filling in leaves the years of what is stored; hence
`Presentable`, `LoadsKeepTexts`, and `Settles`: a load of what is stored only fills
in, by the same positions each time.

**LimitsProofs.** The request limit: `DeadlineComing` is inductive and holds under
calls that fail: the request that created a counter is the only one at its
`Expire`. `DeadlineIsFixed` follows. `PassesBounded` needs that every request
counted and not yet let through keeps its place below the limit (`Budget`).

The login limit: `LoginIInv` says where each wrong password is. Before the block it
is in the counter, about to be, or it cost a failed call; and a login that found
the counter at its limit tries no further password before it blocks
(`Unblocked`). After the block, wrong passwords and the logins that may still try
one are together fewer than the limit, the logins and the failed calls
(`Blocked`). `GuessesBounded` follows. The set of logins is finite.

**SessionsProofs.** `SessionsIInv` says what each request in flight still has to send:
a login whose session is stored is about to list it (`RecordsListed`); a record
outlives neither its token nor, once the login renewed it, the list
(`TimesKept`); what a listing is about to drop has no record, or is hidden
(`StepFits`). So `LiveListed`. A revocation of the others has in its hands every
session the user had when it came, hidden ones excepted (`OthersHeld`), and ends
each or gives up: `OthersRevoked`.

**VisitorProofs.** The game: `GameInv` is inductive. `GateHeld` is preserved because
every way into the journey, a late timer's detour through the romantic page
included, starts at its first stage and with no card revealed. What the romantic
page says needs that a timer pending on the first page goes with a Yes whose branch
is known (`YesKnown`). A shut envelope needs that the effect is due or a timer is
pending (`EnvelopeWillOpen`), and for the timer of a message that the effect last
ran for the message shown, so that it will run for the next one (`SpinKnown`). The
page that has not ended shows nothing past the lists of its configuration
(`Indices`): the slide show steps below `slides`, which is past the list only between
an arrival and its effects. `Inv`,
`GateHeld` and `BreaksOnlyWhenShorter` follow.

The public pages: what each function of publicJourneyAudio does to source, playing
and suppression is stated once, as a lemma, and each page cites it. `PagesIInv` is
the conjunction of `PagesInv`, `ShownIsAsked` and `VoiceAlone`: no strengthening
is needed, since `PagesInv` says already that the request a page waits for is the
only one whose answer it will hear, and for which page it is.

**SetupEditorProofs.** `EditorInv` adds to the properties that there is one load at
a time (`OneLoad`, which the disabled button gives), that storage and frame hold
the preview of this tab unless another wrote (`OwnPreview`), that songs have no
row (`SongsApart`), and that an upload's place is its row until rows move
(`RowsStay`). The four properties follow.

**AuthContextProofs.** `AuthIInv` says that whatever disagrees with the token is
still being read (`Agrees`): as long as the grants, the tenants or the user are
of another account, a call is outstanding whose answer will mend them, unless
something parted them. `InitCalls` is about the first load: there is one at most,
and the loading screen is up exactly while it is outstanding. The four
properties follow.

**AdminProofs.** The lists: `RowsTrue` alone says nothing while anything is in
flight. `ListsIInv` says, of the rows shown and of each answer read and not yet
shown, that a row which is not what its record is has a change that the server
made and the page will hear of, unless requests crossed or somebody else wrote
(`RowsFit`); that two switches of a menu do not
overlap and each asks for what the menu is not (`SwitchesApart`); that the newest
load asks what the page shows (`NewestAsked`); and that a load which no change
overlapped has the records as they are (`CleanTrue`), which is why it mends a page
whose requests crossed. The forms: the parts of a submission that are no longer
to be sent have been written as submitted, or are as they were if the server keeps
them (`Keeps`), unless something else was written meanwhile (`PartsWritten`); and what the server asks for is in the record or still
to be sent, by this page or one that was left, unless a submission failed or was cut
off (`RequiredComes`).
`SaidAndDone` is what is left of the two when nothing more is to be sent.

**Only model-checked:** `WindowsEnd`, `FailuresForgotten`, `EnvelopeOpens` and
`LoadingEnds`. They are liveness under fairness, which needs ENABLED and is beyond
the prover.

## 6. What is left out

Formatting, wording, localized texts other than their being blank, logging and
audit events. In Tenancy, names and statuses of tenants, and permissions other
than `tenants:access_all`, which is a constant set of users; accounts are there
only as owners of tenants. In the store, the rows of other edition years, which
no code writes. In the frontend, what is drawn: texts, hearts, the place of a
button, animations, maps; fields of a form that no property tells apart are one
bit; requests carry the token, the tenant or the row that decides where their
answer goes, and nothing else of their payload.

**Not modelled:**

* the file store: without a database it only serves public loads, under a mutex;
  the one question is a crash in the middle of the first write, whose answer is
  plain from the code (hazards);
* accounts (profile, passwords, tokens) and, of the server side of roles, permissions
  and menus, what AdminLists and AdminForms do not need: soft deletes under unique
  names and assignments that race inside the server, listed as hazards;
* the public payload, the slug normalizers and the plans: pure functions over
  texts and dates, which tests reach better than a model;
* password pages and notices: one request or one timer each, sharing no state;
* translations, types and markup; storage, locations, audit, startup: stateless,
  or written and never read.

## 7. Plan

Done: Tenancy, AnniversaryStore with its two abstract specifications,
SanitizeMoments, RateLimit, LoginLimit, Sessions; LoveGame, PublicPages,
SetupEditor, AuthContext, AdminLists, AdminForms; the proofs of section 5.

What would come next: accounts and roles on the server, with their assignments
and tokens; the file store with crashes; an abstract specification of the sessions
(a set of live ones per user) and the proof that Sessions implements it but for
what is hidden.
