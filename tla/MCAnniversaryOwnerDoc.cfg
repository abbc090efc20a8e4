\* TestSetupAnniversary_OnlyOwnerCanUpdateTenantConfig against a slug that changes hands.
SPECIFICATION Spec
CONSTANTS
  NoRow = NoRow
  None = None
  Procs = {p1}
  Users = {a, u1, u2}
  Admins = {a}
  Tenants = {t0, t1, t2}
  Slugs = {s0, s1, s2, s3}
  Default = t0
  DefaultSlug = s0
  Bodies = {b0, b1}
  Years = {1, 2}
  Texts = {d, x}
  BuiltIn <- Site
  Edits <- SmallEdits
  Owners <- OneOwnerEach
  SlugAtStart <- OneSlugEach
  MaxRequests = 3
  MidRequest = TRUE
  t0 = t0
  t1 = t1
  t2 = t2
  s0 = s0
  s1 = s1
  s2 = s2
  s3 = s3
  b0 = b0
  b1 = b1
  d = d
  x = x
  u1 = u1
  u2 = u2
PROPERTY OnlyOwnersUpdate
\* The requests of the bound are over.
CHECK_DEADLOCK FALSE
