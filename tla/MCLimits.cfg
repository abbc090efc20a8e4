\* Three requests or logins at a time, limit three, two calls that fail, and one
\* built-in moment.
SPECIFICATION AllSpec
CONSTANTS
  Procs = {p1, p2, p3}
  Limit = 3
  Logins = {p1, p2, p3}
  MaxAttempts = 3
  MaxFaults = 2
  Own = Own
  Blank = Blank
  Defaults <- OneBuiltIn
  ClientYears = {0, 1, 2, 3}
  MaxMoments = 3
INVARIANT DeadlineComing PassesBounded GuessesBounded Presentable Settles
PROPERTY DeadlineIsFixed WindowsEnd FailuresForgotten LoadsKeepTexts
