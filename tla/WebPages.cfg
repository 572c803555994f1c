SPECIFICATION PagesSpec
CONSTANTS
  t1 = t1
  t2 = t2
  Parts = {"sign-in", "transactions", "categories", "members", "reports", "statements",
           "ratios", "shell", "overview", "picker", "chrome", "charts", "layers", "theme",
           "table", "views"}
  Tabs = {t1, t2}
  Accounts = {"a1"}
  PendingLimit = 1
  Attempts = 2
  MaxStarts = 2
  MaxSends = 2
  Rows = {1, 2, 3}
  OldRows = {1, 2}
  PageLimit = 1
  Views <- MCViews
  LedgerFaults = {"refused"}
  Overlap = TRUE
  MaxCalls = 2
  Cats = {1, 2, 3, 4}
  SeedCats = {1, 2, 3}
  CatNames = {"n"}
  CatFaults = {"refused"}
  MaxCatCalls = 2
  Emails = {"e1", "e2"}
  MaxMembers = 3
  MaxMemberCalls = 4
  MemberFaults = {"blocked"}
  EarlyClicks = FALSE
  ReportOrgs = {"o1", "o2"}
  MaxReports = 2
  MaxReportCalls = 3
  ReportFaults = {"refused"}
  ReportOverlap = FALSE
  Stmts = {1, 2}
  Kinds = {"balance_sheet"}
  UploadedKinds = {"income_statement"}
  StatementPeriods = {"p1"}
  EntryKeys = {"inventory", "equity"}
  EntryAmounts = {18000000}
  MaxRowEdits = 3
  MaxRows = 1
  InFlight = 1
  StatementFaults = {}
  Books <- MCBooks
  LedgerNets <- MCNets
  GridPeriods <- MCGridPeriods
  MaxGridCalls = 2
  RatioFaults = {"refused"}
  People = {"p1", "p2"}
  MaxOrgs = 2
  MaxTyped = 2
  OrgFaults = {"refused", "lost"}
  Companies = {"o1"}
  Persons = {"o2"}
  WindowMonths = 4
  MaxEntries = 1
  MaxReads = 2
  OverviewFaults = {"failed"}
  PickerModes = {"day", "range", "month", "quarter", "year"}
  MonthLength = 2
  WeekLength = 2
  MonthsShown = 2
  UnrealTyped = TRUE
  MaxOpenings = 1
  StatementIds = {"s1"}
  Queries <- MCQueries
  Visited <- MCVisited
  MaxHighlight = 1
  ChromeFaults = {"late answer", "address bar", "other tab"}
  PointLists <- MCPointLists
  Magnitudes <- MCMagnitudes
  SliceLists <- MCSliceLists
  Bands <- MCBands
  RatioValues <- MCRatioValues
  SelectOptions <- MCSelectOptions
  WithAction = TRUE
  Typed <- MCTyped
  Geometries <- MCGeometries
  ThemeFaults = {"quota", "blocked", "other tab"}
  Txns = {1, 2}
  Columns = {"amount"}
  SortKey <- MCSortKey
  Flagged = {2}
  ChipQueries <- MCChipQueries
  Categories = {"k1", "k2"}
  ViewOwners = {"o1", "o2"}
  MaxViews = 3
  ToolFaults = {"failed"}
  ViewFaults = {"quota", "other tab"}
VIEW PartView
INVARIANTS
  PagesTypeOK
  OneTokenPerHandoff
  NoStrandedReservation
  
  FiguresAreAccountedFor
  FurnitureIsTrue
  ActiveIsOwn
  BadgeIsOfWorkspace
PROPERTIES
  OwnAccount
  OneStatementPerPeriod
CHECK_DEADLOCK FALSE
