\* The server: two requests at a time, two sessions of one user, and failing calls.
\* The editor: two tenants, two rows, two uploads.
SPECIFICATION AllSpec
CONSTANTS
  None = None
  Procs = {p1, p2}
  Sids = {a1, a2}
  UserOf <- OneUser
  Faults = TRUE
  Slugs = {a, b}
  NoTenant = NoTenant
  MaxRows = 2
  MaxUploads = 2
SYMMETRY Interchangeable
INVARIANTS LiveListed OthersRevoked
INVARIANTS Inv PreviewHonest LastLoadShown UploadsLand
\* All sessions of the server have expired.
CHECK_DEADLOCK FALSE
