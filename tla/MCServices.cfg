\* Two threads with three inserts, or two and a restart; three replays of one audit;
\* three requests at a time for two reports; two requests at a time for a token.
SPECIFICATION MCSpec
CONSTANTS
  t1 = t1  t2 = t2  r1 = r1  r2 = r2  r3 = r3  weekly = weekly  daily = daily
  Thread = {t1, t2}
  Replay = {r1, r2, r3}
  Period = 1
  MaxInserts = 3
  MaxNow = 3
  MaxRestarts = 1
\* ReportJobs
  Report = {weekly, daily}
  MaxVersions = 2
  NoReport = NoReport
\* Tokens
  Ttl = 2
  MaxTokens = 2
  MaxMinutes = 3
  Password = Password

SYMMETRY Symmetric
INVARIANTS TypesOK Linked RateKept StampHonoured HistoryKept JobsAreReports TokensHonoured
CHECK_DEADLOCK FALSE
