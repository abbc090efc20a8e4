\* Slug changes and stale Saves, with calls that fail.
SPECIFICATION Spec
CONSTANTS
  None = None
  Procs = {p1, p2}
  Users = {a, u1}
  Admins = {a}
  Seeded = {a, u1}
  Tenants = {t0, t1}
  Slugs = {s0, s1, s2}
  Default = t0
  DefaultSlug = s0
  Limit <- FreePlan
  Requests = {"create", "update", "delete", "load"}
  Faults = TRUE
SYMMETRY Interchangeable
INVARIANT Inv SlugsAreGranted DefaultTenantKept
\* Clients may stop calling, and the ids run out.
CHECK_DEADLOCK FALSE
