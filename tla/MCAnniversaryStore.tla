------------------------- MODULE MCAnniversaryStore -------------------------
(* Small instances of AnniversaryStore for TLC. *)
EXTENDS AnniversaryStore, TLC

CONSTANTS t0, t1, t2, s0, s1, s2, s3, b0, b1, d, x, u1, u2

Born == [year |-> 1, text |-> d]
Twin == [year |-> 1, text |-> x]
Later == [year |-> 2, text |-> x]

Site == [body |-> b0, moments |-> {Born}]

\* One edit of each kind, one that empties the list and one that hits two
\* moments of a year.
SmallEdits ==
  { [op |-> "update", doc |-> [body |-> b1, moments |-> {Later}]],
    [op |-> "replace", moments |-> {}],
    [op |-> "add", moment |-> Twin],
    [op |-> "delete", year |-> 1] }

\* Nobody owns the default tenant, and each of the others has its own owner.
OneOwnerEach == [t \in Tenants |-> CASE t = t0 -> {} [] t = t1 -> {u1} [] t = t2 -> {u2}]
OneSlugEach == [t \in Tenants |-> CASE t = t0 -> s0 [] t = t1 -> s1 [] t = t2 -> s2]

Interchangeable == Permutations(Procs)
=============================================================================
