\* Owners appoint, demote, rename and delete while a tenant is created, three requests
\* at a time, with calls that fail.  What a global user may do is in the other two.
SPECIFICATION Spec
CONSTANTS
  None = None
  Procs = {p1, p2, p3}
  Users = {a, u1}
  Admins = {}
  Seeded = {a, u1}
  Tenants = {t0, t1}
  Slugs = {s0, s1}
  Default = t0
  DefaultSlug = s0
  Limit <- FreePlan
  Requests = {"create", "addMember", "update", "delete"}
  Faults = TRUE
SYMMETRY Interchangeable
PROPERTY ChangesAreAuthorised OwnersLostOnlyThen
\* Clients may stop calling, and the ids run out.
CHECK_DEADLOCK FALSE
