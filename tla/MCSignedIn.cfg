\* The tab: two accounts, two tenant slugs, two calls outstanding and three between
\* two loads of the page.  The lists: two records, a page for each, two loads and
\* three requests in flight.  The forms: one load in flight, one member, one submission
\* that goes on without its page.
SPECIFICATION AllSpec
CONSTANTS
  ann = ann  bea = bea
  home = home  other = other
  Accounts = {ann, bea}
  NoAccount = nobody
  Slugs = {home, other}
  NoSlug = none
  DefaultSlug = home
  ListsOf <- MCListsOf
  Protected = {"tenants", "profile"}
  Access <- MCAccess
  Idle = idle
  Slots = {s1, s2}
  MaxCalls = 3
  MaxRecords = 2
  System = {1}
  Hidden = {1}
  PageSize = 1
  Having <- MCHaving
  Unread = Unread
  MaxFetches = 2
  MaxRequests = 2
  Unserved = Unserved
  MaxLoads = 1
  MaxLeft = 1
  MaxMembers = 1
SYMMETRY MCSymmetry
INVARIANTS AuthInv SessionAgrees SlugAvailable SlugKept
  
