---------------------------- MODULE ConfigHistory ----------------------------
(***************************************************************************)
(* What the setup API promises clients that race: updates may be lost, but *)
(* what a tenant stores is always a version it stored before, or one       *)
(* owner's edit of such a version (or of the template, a version of the    *)
(* default tenant's).  Nothing of another tenant and nothing of a client   *)
(* that does not own the tenant ever shows up.                             *)
(***************************************************************************)
EXTENDS ConfigDocs

CONSTANTS Tenants, Default, NoRow, Users, Admins, Owners

VARIABLES
  current,    \* the stored document of each tenant
  versions,   \* every document it stored
  submitted   \* the edits accepted for it, and from whom

vars == <<current, versions, submitted>>

Init ==
  /\ current = [t \in Tenants |-> IF t = Default THEN BuiltIn ELSE NoRow]
  /\ versions = [t \in Tenants |-> IF t = Default THEN {BuiltIn} ELSE {}]
  /\ submitted = [t \in Tenants |-> {}]

Submit(t, u, e) ==
  /\ u \in Admins \cup Owners[t]
  /\ submitted' = [submitted EXCEPT ![t] = @ \cup {<<u, e>>}]
  /\ UNCHANGED <<current, versions>>

Store(t, d) ==
  /\ current' = [current EXCEPT ![t] = d]
  /\ versions' = [versions EXCEPT ![t] = @ \cup {d}]
  /\ UNCHANGED submitted

\* A stale write: an edit of any earlier version, or that version itself.
Write(t) ==
  \E base \in versions[t] \cup versions[Default] :
    \/ Store(t, base)
    \/ \E s \in submitted[t] :
         Applies(s[2], base) /\ Store(t, Sanitize(Applied(s[2], base)))

Next ==
  \E t \in Tenants : Write(t) \/ \E u \in Users, e \in Edits : Submit(t, u, e)

Spec == Init /\ [][Next]_vars
=============================================================================
