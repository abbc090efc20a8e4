----------------------------- MODULE MCSignedIn -----------------------------
(* What a signed-in visitor has in one tab, side by side: the session as the   *)
(* tab shows it, and the lists and the forms of the administration.  The first *)
(* step says which of the three moves, and the others stay where they started. *)
EXTENDS AuthContext, AdminLists, AdminForms, TLC

CONSTANTS ann, bea, home, other

VARIABLE machine

\* Two accounts, one with two tenants, or one of them, and one with none.
MCListsOf == (ann :> {<<home, other>>, <<other>>}) @@ (bea :> {<<>>})
MCAccess == (ann :> Protected) @@ (bea :> {"profile"})

MCHaving == [search |-> {1}, role |-> {2}]

\* A machine that does not move needs one start only.
AllInit ==
  /\ machine \in {"tab", "lists", "forms"}
  /\ Init /\ ListsInit /\ FormsInit
  /\ machine # "tab" => token = NoAccount /\ stored = NoSlug /\ page = "login"
  /\ machine # "lists" => listKind = "users"
  /\ machine # "forms" => kind = "tenant" /\ new

AllNext ==
  /\ UNCHANGED machine
  /\ \/ machine = "tab" /\ Next /\ UNCHANGED <<listsVars, formsVars>>
     \/ machine = "lists" /\ ListsNext /\ UNCHANGED <<vars, formsVars>>
     \/ machine = "forms" /\ FormsNext /\ UNCHANGED <<vars, listsVars>>

AllSpec == AllInit /\ [][AllNext]_<<vars, listsVars, formsVars, machine>>

\* The calls of the tab are interchangeable.
MCSymmetry == Permutations(Slots)
=============================================================================
