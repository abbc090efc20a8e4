----------------------------- MODULE MCTenancy -----------------------------
(* Small instances of Tenancy for TLC. *)
EXTENDS Tenancy, TLC

\* The plan "free" (one tenant) for everybody.
FreePlan == [u \in Users |-> 1]

\* Those who register later have a plan that adds no tenant to their first.
MixedPlan == [u \in Users |-> IF u \in Seeded THEN 1 ELSE 0]

\* Requests, tenant ids other than the default's, and users who are neither
\* global nor seeded are interchangeable.
Interchangeable ==
  Permutations(Procs) \cup Permutations(Tenants \ {Default})
    \cup Permutations(Users \ Seeded) \cup Permutations(Seeded \ Admins)
    \cup Permutations(Slugs \ {DefaultSlug})
=============================================================================
