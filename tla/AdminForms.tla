----------------------------- MODULE AdminForms -----------------------------
(***************************************************************************)
(* The form of a role, a tenant, a user or a menu: loaded from the record  *)
(* when it is edited, changed, and sent, a role in three requests one      *)
(* after the other.  The form stays open to changes while it is loaded and *)
(* while it is sent; what is sent is what it held when it was submitted.   *)
(* Another language loads it again.  A page that is left goes on sending,  *)
(* beside the page that is opened next.  Of a record only its parts are    *)
(* kept: one text of two, which for a menu is its icon, and whether there  *)
(* are permissions, menus, a parent.                                       *)
(***************************************************************************)
EXTENDS Naturals, Sequences, FiniteSets, SequencesExt

CONSTANTS
  Unserved,  \* the server has not read a load yet
  MaxLoads,  \* bound: loads in flight
  MaxLeft,   \* bound: submissions that go on without their page
  MaxMembers \* bound: members of a tenant

ASSUME FormsAssumption == MaxLoads \in Nat \ {0} /\ MaxLeft \in Nat /\ MaxMembers \in Nat

VARIABLES
  kind, new,  \* which form, and whether it makes its record
  here,       \* the form is shown
  rights,     \* the parts the user may write
  assigns,    \* whether the user is an admin or a superadmin
  exists, record,      \* the record of the server
  form,       \* what the form holds
  fetching, loads,
  rolesDue,   \* loadingRoles
  steps,      \* the requests of a submission that are still to be answered
  sent,       \* what was submitted, until it has failed
  was,        \* history: the record when it was submitted
  told,       \* the last notice of the page
  left,       \* submissions whose pages are gone, the oldest first
  members, listed, adding, \* of a tenant: its members, those shown, and what a
                           \* request to add one waits for
  others,     \* history: something else was written since the last submission
  broken      \* history: a submission was told to have failed, or was cut off

formPage == <<here, form, fetching, loads, rolesDue>>
tenant == <<members, listed, adding>>
fixed == <<kind, rights, assigns>>
submission == <<steps, sent, was>>
beyond == <<left, others, broken>>
formsVars == <<fixed, new, exists, record, formPage, submission, told, tenant, beyond>>

Kinds == {"role", "tenant", "user", "menu"}

Parts(k) == CASE k = "role" -> {"text", "permissions", "menus"}
              [] k = "tenant" -> {"text"}
              [] k = "user" -> {"text", "role"}
              [] k = "menu" -> {"icon", "parent"}

\* 0: the other text, no link, no parent, no icon, no role.  A user has the first of the
\* roles or another one.
Values(p) == IF p = "role" THEN 0..2 ELSE 0..1
Contents(k) == {c \in [Parts(k) -> 0..2] : \A p \in Parts(k) : c[p] \in Values(p)}
Blank(k) == [p \in Parts(k) |-> 0]

\* What a record never lacks on the server, a role that was half made excepted.
Stored(k) == {c \in Contents(k) : \A p \in {"permissions", "menus", "role"} : p \in Parts(k) => c[p] # 0}
-----------------------------------------------------------------------------
(* What the four pages ask of a form before they send it.                  *)

\* A role has a permission and a menu at least, and who makes one may write both.
MaySendRole ==
  /\ form["permissions"] # 0 /\ form["menus"] # 0
  /\ new => rights = Parts("role")

\* The button waits for the roles, and for one of them to be chosen.
MaySendUser == ~rolesDue /\ form["role"] # 0

\* Of a tenant and a menu the button only waits for what is being loaded and saved.
MaySend ==
  /\ here /\ steps = <<>> /\ ~fetching
  /\ kind = "role" => MaySendRole
  /\ kind = "user" => MaySendUser

\* A role is sent in three requests, those for which the user has the right.
RoleRequests ==
  LET ifAllowed(p) == IF p \in rights THEN <<{p}>> ELSE <<>> IN
  ifAllowed("text") \o ifAllowed("permissions") \o ifAllowed("menus")

\* "None" is not sent as a parent: the menu keeps the one it has.
MenuRequest == IF form["parent"] = 0 THEN {"icon"} ELSE {"icon", "parent"}

Requests ==
  CASE kind = "role" -> RoleRequests
    [] kind = "menu" -> <<MenuRequest>>
    [] kind \in {"tenant", "user"} -> <<Parts(kind)>>
-----------------------------------------------------------------------------
FormsInit ==
  /\ kind \in Kinds /\ new \in BOOLEAN
  /\ rights \in IF kind = "role" THEN SUBSET Parts("role") \ {{}} ELSE {Parts(kind)}
  /\ assigns \in IF kind = "user" THEN BOOLEAN ELSE {TRUE}
  /\ exists = ~new
  /\ record \in IF new THEN {Blank(kind)} ELSE Stored(kind)
  /\ here = TRUE /\ form = Blank(kind)
  /\ fetching = ~new /\ loads = IF new THEN <<>> ELSE <<Unserved>>
  /\ rolesDue = (kind = "user")
  /\ steps = <<>> /\ sent = form /\ was = form /\ told = "nothing" /\ left = <<>>
  /\ members = 0 /\ listed = 0 /\ adding = "nothing"
  /\ others = FALSE /\ broken = FALSE

Submission == [steps |-> steps, sent |-> sent, new |-> new]

\* The page is opened, by a link or with the tab.  What an earlier page was sending
\* goes on after a link; of what the tab was sending when it was reloaded only the
\* requests under way are left.
OpenForm ==
  \E reloaded \in BOOLEAN :
    LET going == IF steps = <<>> THEN left ELSE Append(left, Submission) IN
    /\ Len(going) <= MaxLeft
    /\ left' = [i \in DOMAIN going |->
                  [going[i] EXCEPT !.steps = IF reloaded THEN <<Head(@)>> ELSE @]]
    /\ new' = ~exists
    /\ here' = TRUE /\ form' = Blank(kind)
    /\ fetching' = exists /\ loads' = IF exists THEN <<Unserved>> ELSE <<>>
    /\ rolesDue' = (kind = "user")
    /\ steps' = <<>> /\ sent' = Blank(kind) /\ was' = Blank(kind) /\ told' = "nothing"
    /\ listed' = 0 /\ adding' = "nothing"
    /\ broken' = (broken \/ left' # going)
    /\ UNCHANGED <<fixed, exists, record, members, others>>

\* By the link back to the list, or taken there by what an earlier page has made.
\* Nobody sees what is loaded then, but a submission goes on and tells how it ended.
LeaveForm ==
  /\ here /\ here' = FALSE
  /\ form' = Blank(kind) /\ fetching' = FALSE /\ loads' = <<>> /\ rolesDue' = FALSE
  /\ UNCHANGED <<fixed, new, exists, record, submission, told, tenant, beyond>>

LoadRead(i) ==
  /\ loads[i] = Unserved
  /\ loads' = [loads EXCEPT ![i] = [form |-> record, members |-> members]]
  /\ UNCHANGED <<fixed, new, exists, record, here, form, fetching, rolesDue, submission,
                 told, tenant, beyond>>

\* Whatever was changed meanwhile is replaced.
LoadAnswered(i) ==
  /\ loads[i] # Unserved
  /\ form' = loads[i].form /\ listed' = loads[i].members
  /\ fetching' = FALSE /\ loads' = RemoveAt(loads, i)
  /\ UNCHANGED <<fixed, new, exists, record, here, rolesDue, submission, told, members,
                 adding, beyond>>

\* The form stays as it is, a blank one too, and may be sent.
LoadFailed(i) ==
  /\ fetching' = FALSE /\ loads' = RemoveAt(loads, i)
  /\ UNCHANGED <<fixed, new, exists, record, here, form, rolesDue, submission, told, tenant,
                 beyond>>

\* The effects of three pages depend on the translations, that of a user does not.
SwitchLanguage ==
  /\ here /\ ~new /\ kind # "user" /\ Len(loads) < MaxLoads
  /\ fetching' = TRUE /\ loads' = Append(loads, Unserved)
  /\ UNCHANGED <<fixed, new, exists, record, here, form, rolesDue, submission, told, tenant,
                 beyond>>

\* fetchRoles chooses the first role if none is chosen yet; a failure chooses none.
RolesAnswered ==
  /\ rolesDue /\ rolesDue' = FALSE
  /\ \/ form' = [form EXCEPT !["role"] = IF @ = 0 THEN 1 ELSE @]
     \/ UNCHANGED form
  /\ UNCHANGED <<fixed, new, exists, record, here, fetching, loads, submission, told, tenant,
                 beyond>>

\* A field, or a box of the lists of permissions and menus.
EditRole(p, v) == kind = "role" /\ (p # "text" => p \in rights)
EditTenant(p, v) == kind = "tenant"
EditUser(p, v) == kind = "user" /\ (p = "role" => v # 0)
EditMenu(p, v) == kind = "menu"

Edit ==
  /\ here
  /\ \E p \in Parts(kind) : \E v \in Values(p) \ {form[p]} :
       /\ EditRole(p, v) \/ EditTenant(p, v) \/ EditUser(p, v) \/ EditMenu(p, v)
       /\ form' = [form EXCEPT ![p] = v]
  /\ UNCHANGED <<fixed, new, exists, record, here, fetching, loads, rolesDue, submission,
                 told, tenant, beyond>>
-----------------------------------------------------------------------------
Submit ==
  /\ MaySend
  /\ steps' = Requests /\ sent' = form /\ was' = record
  /\ told' = "nothing" /\ others' = FALSE
  /\ UNCHANGED <<fixed, new, exists, record, formPage, tenant, left, broken>>

\* The server changes what there is by what a request says: an icon that is sent empty
\* stays, and so does the role of a user unless an admin or a superadmin sends another.
Keeps(s, p) ==
  ~s.new /\ \/ p = "icon" /\ s.sent[p] = 0
            \/ p = "role" /\ ~assigns

\* The other parts it writes as they were submitted.
Written(s) ==
  [p \in Parts(kind) |-> IF p \in Head(s.steps) /\ ~Keeps(s, p) THEN s.sent[p] ELSE record[p]]

\* Names are unique: what is there already is not made once more.
Served(s) ==
  /\ ~(s.new /\ exists /\ {"text", "icon"} \cap Head(s.steps) # {})
  /\ record' = Written(s) /\ exists' = TRUE

\* After the last request success is told, and a page that made its record leaves
\* for the list, that of a user excepted.  A tenant answers with its members.
RequestAnswered ==
  /\ steps # <<>> /\ Served(Submission)
  /\ steps' = Tail(steps)
  /\ IF Len(steps) = 1
     THEN /\ told' = "saved"
          /\ here' = (here /\ ~(new /\ kind # "user"))
          /\ listed' = IF new THEN listed ELSE members
     ELSE UNCHANGED <<told, here, listed>>
  /\ UNCHANGED <<fixed, new, form, fetching, loads, rolesDue, sent, was, members, adding,
                 beyond>>

\* mutant: the requests that follow a failed one are sent all the same.
FailedGoesOn ==
  /\ steps # <<>>
  /\ steps' = Tail(steps)
  /\ told' = IF Len(steps) = 1 THEN "saved" ELSE told
  /\ UNCHANGED <<fixed, new, exists, record, formPage, sent, was, tenant, beyond>>

\* Refused, or lost before or after the server did it, or while it is still to do it:
\* what follows is not sent.
RequestFailed ==
  /\ steps # <<>>
  /\ \/ Served(Submission) /\ UNCHANGED left
     \/ UNCHANGED <<record, exists, left>>
     \/ /\ Len(left) < MaxLeft
        /\ left' = Append(left, [Submission EXCEPT !.steps = <<Head(@)>>])
        /\ UNCHANGED <<record, exists>>
  /\ steps' = <<>> /\ sent' = Blank(kind) /\ was' = Blank(kind)
  /\ told' = "failed" /\ broken' = TRUE
  /\ UNCHANGED <<fixed, new, formPage, tenant, others>>

\* What a page that is gone still sends is served beside what is sent now, and ends
\* with a notice of its own.
LeftServed(i) ==
  LET s == left[i] IN
  /\ Served(s)
  /\ left' = IF Len(s.steps) = 1 THEN RemoveAt(left, i)
             ELSE [left EXCEPT ![i].steps = Tail(@)]
  /\ others' = TRUE
  /\ UNCHANGED <<fixed, new, formPage, submission, told, tenant, broken>>

LeftFailed(i) ==
  /\ left' = RemoveAt(left, i) /\ broken' = TRUE
  /\ UNCHANGED <<fixed, new, exists, record, formPage, submission, told, tenant, others>>

\* Bound: once until the next submission.  The server saves the whole row it has
\* looked up, so such a write may also put back what it found.
OtherAdmin ==
  /\ exists /\ ~others
  /\ record' \in Stored(kind) \ {record} /\ others' = TRUE
  /\ UNCHANGED <<fixed, new, exists, formPage, submission, told, tenant, left, broken>>
-----------------------------------------------------------------------------
(* The members of a tenant, added one at a time beside the form.           *)

AddMember ==
  /\ kind = "tenant" /\ here /\ ~new /\ adding = "nothing"
  /\ adding' = "sent" /\ told' = "nothing"
  /\ UNCHANGED <<fixed, new, exists, record, formPage, submission, members, listed, beyond>>

MemberAdded ==
  /\ adding = "sent" /\ members < MaxMembers
  /\ adding' = "done" /\ members' = members + 1
  /\ UNCHANGED <<fixed, new, exists, record, formPage, submission, told, listed, beyond>>

\* The answer lists the members there were when the one was added.
AddAnswered ==
  /\ adding \in {"sent", "done"}
  /\ adding' = "nothing"
  /\ \/ adding = "done" /\ listed' = members /\ told' = "member"
     \/ told' = "failed" /\ UNCHANGED listed
  /\ UNCHANGED <<fixed, new, exists, record, formPage, submission, members, beyond>>

FormsNext ==
  \/ OpenForm \/ LeaveForm \/ SwitchLanguage \/ RolesAnswered \/ Edit
  \/ \E i \in DOMAIN loads : LoadRead(i) \/ LoadAnswered(i) \/ LoadFailed(i)
  \/ Submit \/ RequestAnswered \/ RequestFailed \/ OtherAdmin
  \/ \E i \in DOMAIN left : LeftServed(i) \/ LeftFailed(i)
  \/ AddMember \/ MemberAdded \/ AddAnswered

FormsSpec == FormsInit /\ [][FormsNext]_formsVars
-----------------------------------------------------------------------------
\* What an edit leaves as it was although it was submitted.
Withheld(p) == Keeps(Submission, p) \/ (p = "parent" /\ sent[p] = 0)

\* When success is told every part that was submitted is stored, and no other part of
\* the record has changed, however the form was changed, loaded again or left
\* meanwhile.  It is told all the same where the submission took away a parent or an
\* icon, or gave a user another role and the sender is no admin: that is as it was.
\* And a role is without permissions or menus only where a failure was told, the tab
\* was reloaded, or a page that was left is still sending (onSubmit of the four pages,
\* Update of their services).
SaidAndDone ==
  /\ told = "saved" /\ ~others =>
       record = [p \in Parts(kind) |-> IF p \in rights /\ ~Withheld(p) THEN sent[p] ELSE was[p]]
  /\ exists /\ steps = <<>> /\ left = <<>> /\ ~broken => record \in Stored(kind)
=============================================================================
