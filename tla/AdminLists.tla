----------------------------- MODULE AdminLists -----------------------------
(***************************************************************************)
(* The page that lists roles, tenants, users or menus: one page of what is *)
(* asked for, loaded again after every change of the question, and changed *)
(* in place after a deletion or a switched menu.  No request is cancelled: *)
(* a load is read by the server at one moment and answered at another, and *)
(* every answer is applied to the rows there are then.  Others write the   *)
(* records meanwhile.  Of a record only its number, which is also its      *)
(* place in the order, and is_active are kept, and of the two queries that *)
(* count and find the rows of a page only the one that finds them is told  *)
(* apart from the rest.                                                    *)
(***************************************************************************)
EXTENDS Integers, Sequences, FiniteSets, SequencesExt

CONSTANTS
  MaxRecords,  \* bound: records at the start
  System,      \* the roles with is_system
  Hidden,      \* the superadmin's role and account, where they are kept from the caller
  Having,      \* Having["search"], Having["role"]: the records each narrows to
  PageSize,    \* limit: 10
  Unread,      \* the server has not read a load yet
  MaxFetches,  \* bound: loads in flight
  MaxRequests  \* bound: requests in flight

Records == 1..MaxRecords
Narrowings == {"search", "role"}

ASSUME ListsAssumption ==
  /\ MaxRecords \in Nat \ {0} /\ PageSize \in Nat \ {0}
  /\ System \subseteq Records /\ Hidden \subseteq Records
  /\ Having \in [Narrowings -> SUBSET Records]
  /\ MaxFetches \in Nat \ {0} /\ MaxRequests \in Nat \ {0}

VARIABLES
  listKind,  \* which of the four pages
  existing,  \* the records that are not deleted
  active,    \* what the table says of each, a deleted one included: is_active
  query,     \* page, and what the list is narrowed by
  rows,      \* the rows held: a number and is_active each
  pages,     \* totalPages
  busy, error,
  fetches,   \* loads in flight, the oldest first
  changes,   \* deletions and switches in flight
  answers,   \* history: the question the rows answer
  crossed    \* history: since the last clean load a request has overtaken another,
             \* or somebody else has written a record

list == <<rows, pages, busy, error, answers>>
records == <<existing, active>>
listsVars == <<listKind, records, query, list, fetches, changes, crossed>>

ListKinds == {"roles", "tenants", "users", "menus"}
-----------------------------------------------------------------------------
(* What the four pages differ in.                                          *)

\* What each effect that loads the list depends on: the translations change with
\* the language, and users are not loaded again for them.
RoleListDeps == {"page", "search", "language"}
TenantListDeps == {"page", "search", "language"}
UserListDeps == {"page", "search", "role"}
MenuListDeps == {"page", "search", "language"}

Deps ==
  [roles |-> RoleListDeps, tenants |-> TenantListDeps,
   users |-> UserListDeps, menus |-> MenuListDeps][listKind]

\* The buttons of a row, for somebody who is granted everything.
RoleActions(r) == IF r \in System THEN {} ELSE {"delete"}
TenantActions(r) == {"delete"}
UserActions(r) == {}
MenuActions(r) == {"delete", "switch"}

Actions(r) ==
  CASE listKind = "roles" -> RoleActions(r)
    [] listKind = "tenants" -> TenantActions(r)
    [] listKind = "users" -> UserActions(r)
    [] listKind = "menus" -> MenuActions(r)
-----------------------------------------------------------------------------
Matching(q) == {r \in existing : \A n \in q.by : r \in Having[n]}

\* PaginationResponse, and total_pages || 1 of the pages.
PageCount(total) == IF total = 0 THEN 1 ELSE (total + PageSize - 1) \div PageSize

Concealed == IF listKind \in {"roles", "users"} THEN Hidden ELSE {}

\* The server's answer: the rows of one page, and how many pages there are.  What is
\* kept from the caller is taken out of the page after it was cut, and out of the
\* total if it was on this page.
Page(q) ==
  LET found == Matching(q)
      place(r) == Cardinality({s \in found : s < r})
      cut == {s \in found : place(s) \div PageSize = q.page - 1} IN
  [rows |-> [r \in cut \ Concealed |-> active[r]],
   pages |-> PageCount(Cardinality(found) - Cardinality(cut \cap Concealed))]

ListsInit ==
  /\ listKind \in ListKinds
  /\ existing = Records
  /\ active \in [Records -> IF listKind = "menus" THEN BOOLEAN ELSE {TRUE}]
  /\ query = [page |-> 1, by |-> {}]
  /\ rows = <<>> /\ pages = 1
  /\ busy = TRUE /\ error = FALSE
  /\ fetches = <<[query |-> query, got |-> Unread, clean |-> TRUE]>>
  /\ changes = <<>>
  /\ answers = query /\ crossed = FALSE

\* The effect that follows a change of what the list depends on.
Effect(changed) ==
  IF changed \intersect Deps = {} THEN UNCHANGED <<busy, error, fetches>>
  ELSE /\ Len(fetches) < MaxFetches /\ Len(fetches) + Len(changes) < MaxRequests
       /\ busy' = TRUE /\ error' = FALSE
       /\ fetches' = Append(fetches, [query |-> query', got |-> Unread, clean |-> TRUE])

Ask(q, changed) ==
  /\ query' = q
  /\ Effect(changed)
  /\ UNCHANGED <<listKind, records, rows, pages, changes, answers, crossed>>

\* Previous and next are not disabled while the list is loading.
TurnPage ==
  \/ query.page > 1 /\ Ask([query EXCEPT !.page = @ - 1], {"page"})
  \/ query.page < pages /\ Ask([query EXCEPT !.page = @ + 1], {"page"})

\* onSearch, with another text or the same.
Search ==
  \E by \in {query.by \cup {"search"}, query.by \ {"search"}} :
    LET q == [page |-> 1, by |-> by] IN
    Ask(q, IF q = query THEN {} ELSE {"search"})

FilterRole ==
  /\ listKind = "users"
  /\ \E by \in {query.by \cup {"role"}, query.by \ {"role"}} \ {query.by} :
       Ask([page |-> 1, by |-> by], {"role"})

SwitchListLanguage == Ask(query, {"language"})

FetchRead(i) ==
  /\ fetches[i].got = Unread
  /\ fetches' = [fetches EXCEPT ![i].got = Page(fetches[i].query),
                                ![i].clean = (changes = <<>>)]
  /\ UNCHANGED <<listKind, records, query, list, changes, crossed>>

\* A switch that the server did before it read the load is done once more on the
\* rows of the load when its own answer comes.
TwiceDone(got) ==
  \E c \in Range(changes) : /\ c.what = "switch" /\ c.served
                            /\ c.id \in DOMAIN got.rows /\ got.rows[c.id] = c.to

FetchAnswered(i) ==
  LET f == fetches[i] IN
  /\ f.got # Unread
  /\ rows' = f.got.rows /\ pages' = f.got.pages /\ answers' = f.query
  /\ busy' = FALSE
  /\ fetches' = RemoveAt(fetches, i)
  /\ crossed' = \/ i > 1 \/ TwiceDone(f.got)
                \/ crossed /\ ~(f.clean /\ f.query = query /\ fetches = <<f>> /\ changes = <<>>)
  /\ UNCHANGED <<listKind, records, query, error, changes>>

\* The rows stay.
FetchFailed(i) ==
  /\ error' = TRUE /\ busy' = FALSE
  /\ fetches' = RemoveAt(fetches, i)
  /\ UNCHANGED <<listKind, records, query, rows, pages, changes, answers, crossed>>
-----------------------------------------------------------------------------
Change(r, what, to) ==
  /\ ~busy /\ r \in DOMAIN rows
  /\ what \in Actions(r)
  /\ Len(fetches) + Len(changes) < MaxRequests
  /\ changes' = Append(changes, [id |-> r, what |-> what, to |-> to,
                                 found |-> FALSE, served |-> FALSE])
  /\ UNCHANGED <<listKind, records, query, list, fetches>>

\* onDelete, confirmed.
Delete(r) == Change(r, "delete", FALSE) /\ UNCHANGED crossed

\* onToggleStatus asks for the opposite of the row that was clicked: a second click
\* before the answer asks for the same again.
ToggleStatus(r) ==
  /\ Change(r, "switch", ~rows[r])
  /\ crossed' = (crossed \/ \E c \in Range(changes) : c.what = "switch" /\ c.id = r)

\* A menu is deleted without being looked up.
Straight(c) == listKind = "menus" /\ c.what = "delete"

\* What loads have read is not what the records are any more.
Overtaken == [j \in DOMAIN fetches |-> [fetches[j] EXCEPT !.clean = FALSE]]

\* The handlers look the record up first (GetByID) and refuse what is gone.
ChangeFound(i) ==
  LET c == changes[i] IN
  /\ ~c.found /\ ~Straight(c) /\ c.id \in existing
  /\ changes' = [changes EXCEPT ![i].found = TRUE]
  /\ UNCHANGED <<listKind, records, query, list, fetches, crossed>>

\* Then they write.  To delete what is gone is no error, and a switch saves the whole
\* row it has found: a menu that was deleted in between is there again.
ChangeServed(i) ==
  LET c == changes[i] IN
  /\ ~c.served /\ (c.found \/ Straight(c))
  /\ IF c.what = "delete" THEN existing' = existing \ {c.id} /\ UNCHANGED active
     ELSE existing' = existing \cup {c.id} /\ active' = [active EXCEPT ![c.id] = c.to]
  /\ changes' = [changes EXCEPT ![i].served = TRUE]
  /\ fetches' = Overtaken
  /\ UNCHANGED <<listKind, query, list, crossed>>

\* Another administrator, another tab, or a request this page has given up: a record
\* is deleted, is written, or is there again.
OtherWrites(r) ==
  /\ \/ r \in existing /\ ~(listKind = "roles" /\ r \in System)
        /\ existing' = existing \ {r} /\ UNCHANGED active
     \/ /\ existing' = existing \cup {r}
        /\ active' \in {[active EXCEPT ![r] = to] : to \in
                          IF listKind = "menus" THEN BOOLEAN ELSE {active[r]}}
  /\ records' # records
  /\ fetches' = Overtaken /\ crossed' = TRUE
  /\ UNCHANGED <<listKind, query, list, changes>>

\* A load that was read before the change is still on its way.
Outdated(c) ==
  \E f \in Range(fetches) : /\ f.got # Unread /\ c.id \in DOMAIN f.got.rows
                            /\ c.what = "delete" \/ f.got.rows[c.id] # c.to

\* mutant: the row stays when its record is gone.
ChangedRowsOnly(c) ==
  [r \in DOMAIN rows |-> IF r = c.id /\ c.what = "switch" THEN ~rows[r] ELSE rows[r]]

\* A deleted row is filtered out, a switched one shows the opposite of what it does.
ChangedRows(c) ==
  [r \in {s \in DOMAIN rows : ~(s = c.id /\ c.what = "delete")} |->
     IF r = c.id THEN ~rows[r] ELSE rows[r]]

\* Tenants first refresh those of the session, which answers or fails by itself.
ChangeAnswered(i) ==
  LET c == changes[i] IN
  /\ c.served
  /\ rows' = ChangedRows(c)
  /\ changes' = RemoveAt(changes, i)
  /\ crossed' = (crossed \/ Outdated(c))
  /\ UNCHANGED <<listKind, records, query, pages, busy, error, fetches, answers>>

\* Refused, or lost before or after the server did it; only a notice is shown.  What
\* the server does later is another's write to the page.
ChangeFailed(i) ==
  /\ changes' = RemoveAt(changes, i)
  /\ crossed' = (crossed \/ changes[i].served)
  /\ UNCHANGED <<listKind, records, query, list, fetches>>

ListsNext ==
  \/ TurnPage \/ Search \/ FilterRole \/ SwitchListLanguage
  \/ \E i \in DOMAIN fetches : FetchRead(i) \/ FetchAnswered(i) \/ FetchFailed(i)
  \/ \E r \in Records : Delete(r) \/ ToggleStatus(r) \/ OtherWrites(r)
  \/ \E i \in DOMAIN changes :
       ChangeFound(i) \/ ChangeServed(i) \/ ChangeAnswered(i) \/ ChangeFailed(i)

ListsSpec == ListsInit /\ [][ListsNext]_listsVars
-----------------------------------------------------------------------------
\* What is shown is true once nothing is in flight: the rows answer the question the
\* page shows, no row is of a record that was deleted, and each says what its menu
\* is.  An answer that was overtaken, and what anybody else writes, break this, and
\* the next load that nothing overtakes mends it: one that was asked last, read after
\* the last write and answered alone (the effect, onDelete and onToggleStatus of the
\* four pages).
RowsTrue ==
  fetches = <<>> /\ changes = <<>> /\ ~crossed /\ ~error =>
    /\ answers = query
    /\ \A r \in DOMAIN rows : r \in existing /\ rows[r] = active[r]
=============================================================================
