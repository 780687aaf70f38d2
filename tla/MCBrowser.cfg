\* Each part of the browser application on its own.
SPECIFICATION Spec
CONSTANTS
  None = None
  Off = Off
  m1 = m1  m2 = m2
  Slot = {m1, m2}
\* Session
  User = {"ann", "bob"}
  Admin = {"ann"}
  Env = {"PROD", "TEST"}
  EnvSetup = {"PROD"}
  Prod = "PROD"
\* AuditPage
  Row = {1, 2}
  Query = {"some", "none"}
  Content <- AuditContent
  Stamp <- AuditStamp
  Related = {1}
  Forms = {{"objectID", "keyword", "dates"}, {"keyword", "custom", "nameValue"},
           {"field", "dates"}}
  NoRow = NoRow
  NoView = NoView
  NoCall = NoCall
\* Dashboard
  Relative = {"hour"}
  Dates = {"range", "backward"}
  Backward = {"backward"}
  Filter = {"filter"}
  Chart = {"severity"}
  MaxCalls = 3
  MaxLeft = 1
  Earlier = Earlier
\* Settings
  Page = {m1, m2}
  First = First
  MaxSaves = 2
  MaxFaults = 1
  NoSettings = NoSettings
\* Reports
  Report = {"weekly", "daily", "new"}
  Stored = {"weekly", "daily"}
  MaxIds = 4
  MaxSends = 3
  NoId = NoId
SYMMETRY Symmetric
INVARIANTS
  TypeOK
  HeaderIsCookie
  IdentityPaired
  LoggedOutStays
  EnvLogoutJustified
  ReplaysNamed
  CheckedAreReplayed
  PayloadOfRow
  FormHonoured
  ChartsAligned
  CellsOpenTheirAudits
  EntriesKept
  OneDocument
  NothingReplaced
  StoredOnce
CHECK_DEADLOCK FALSE
