\* Creations of every kind, up to their plans, while owners and a global user
\* delete tenants and accounts.
SPECIFICATION Spec
CONSTANTS
  None = None
  Procs = {p1, p2}
  Users = {a, u1, u2}
  Admins = {a}
  Seeded = {a, u1}
  Tenants = {t0, t1, t2}
  Slugs = {s0, s1, s2}
  Default = t0
  DefaultSlug = s0
  Limit <- MixedPlan
  Requests = {"create", "register", "google", "delete", "load", "deleteUser"}
  Faults = FALSE
SYMMETRY Interchangeable
INVARIANT QuotaInv QuotaOvershootBounded
\* Clients may stop calling, and the ids run out.
CHECK_DEADLOCK FALSE
