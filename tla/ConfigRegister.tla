--------------------------- MODULE ConfigRegister ---------------------------
(***************************************************************************)
(* What the setup API promises a client that is alone: every tenant has    *)
(* one document, an accepted edit takes effect on it at once and exactly   *)
(* once, or not at all, and a tenant without a document starts from the    *)
(* default tenant's.                                                       *)
(***************************************************************************)
EXTENDS ConfigDocs

CONSTANTS Tenants, Default, NoRow

VARIABLES
  current,  \* the document of each tenant
  pending   \* the edit at work, with its tenant; at most one

vars == <<current, pending>>

Init ==
  /\ current = [t \in Tenants |-> IF t = Default THEN BuiltIn ELSE NoRow]
  /\ pending = {}

Accept(t, e) ==
  /\ pending = {}
  /\ pending' = {<<t, e>>}
  /\ UNCHANGED current

\* The first look at a tenant, by a reader or by an edit of it.
Instantiate(t) ==
  /\ current[t] = NoRow
  /\ current' = [current EXCEPT ![t] = current[Default]]
  /\ pending \subseteq {t} \X Edits
  /\ pending' \in {pending, {}}

Commit(t, e) ==
  /\ <<t, e>> \in pending
  /\ e.op # "update" => current[t] # NoRow /\ Applies(e, current[t])
  /\ current' = [current EXCEPT ![t] = Sanitize(Applied(e, current[t]))]
  /\ pending' = {}

\* The edit does not apply, or fails.
Cancel == pending' = {} /\ UNCHANGED current

Next ==
  \/ \E t \in Tenants : Instantiate(t) \/ \E e \in Edits : Accept(t, e) \/ Commit(t, e)
  \/ Cancel

Spec == Init /\ [][Next]_vars
=============================================================================
