SPECIFICATION PagesSpec
CONSTANTS
  Parts = {"accounts", "privacy", "uploads", "imports", "review", "mock imports", "taxes"}
  Accounts = {"a1", "a2"}
  Syncs = {1, 2}
  PageFaults = {"failed"}
  MaxExports = 2
  MaxDeletions = 1
  PrivacyFaults = {"refused"}
  Elsewhere = TRUE
  SampleBytes = 4
  Uploads = {1, 2}
  GatewayTickets = {"t1"}
  TicketType <- MCTicketType
  Files <- MCFiles
  GatewayFaults = {"storage", "kafka", "crash", "cut"}
  OneOrigin = FALSE
  HubFiles = {"f1", "f2"}
  HubFaults = {"lost"}
  Jobs = {1, 2}
  Links = {"l1"}
  Keys = {"k1"}
  CleanSyncs = 1
  ReviewFaults = {"lost"}
  MaxEdits = 3
  Taxpayers = {"individual", "company"}
  TaxCategories <- MCCategories
  TaxSales <- MCSales
  TaxStatements <- MCStatements
  FilingPeriods <- MCFilingPeriods
  TaxToday <- MCToday
  TaxStates = {"NG-LA"}
  MaxFilings = 1
  MaxVisits = 1
  MaxTaxTyping = 1
INVARIANTS
  BackgroundTypeOK
  SweepIsWatched
  HandedOverWhole
  GoodTextIsTaken
  DuplicatesOnlyByHand
  PurgedLinkLeavesNothing
PROPERTIES
  
  LedgerFrozenDuringPurge
  OnlyConsentedLinksSync
  GeneratesWhatIsShown
  JourneySettles
  ExportSettles
CHECK_DEADLOCK FALSE
