\* Each part of the web client on its own page.
SPECIFICATION WebSpec
CONSTANTS
  Missing_ = Missing_
  Texts <- MCTexts
  Empty = ""
  Trimmed <- MCTrimmed
  Matches <- MCMatches
  Tickers = {"A", "B", "C"}
  Popular <- MCPopular
  Nowhere = ""
  MaxSearches = 3
  Symbols <- MCSymbols
  CompareMax = 2
  SampleTickers <- MCSample
  Spelled <- MCSpelled
  Blank = "-"
  Typed <- MCTyped
  NoQuery = ""
  Watched <- MCWatched
  Addresses <- MCAddresses
  Windows = {"1M"}
  Histories <- MCHistories
  MaxQueries = 1
  Months = {"aug", "jul"}
  FirstMonth = "aug"
  DatesOf <- MCDatesOf
  WeeksOf <- MCWeeksOf
  NoKey = "-"
  MonthsKept = 1
  MinMonth = 25152
  MaxMonth = 25259
  ThisMonth = 25230
  OldestYear = 2098
  PageLimit = 1
  MaxTrades = 2
  Options <- MCOptions
  NoUrl = ""
  Cash = 1
  Shares = 1
  Close = 3
  Prices = {2}
  Scale = 2
  MaxSubmissions = 2
  MaxMounts = 2
  OrderRows = {o1, o2}
  OptionRows = {p1}
  Filters = {"all", "pending"}
  MaxClicks = 2
  Stored <- MCStored
  Missing = Missing_
  NoRange = NoRange
  MaxRanges = 3
  LastBar = 2
  MaxFills = 1
  MaxViews = 2
  MaxCalls = 2
  Recommended <- MCRecommended
  VoteIds = {1, 2}
  Thresholds = {0, 6}
  Unknown = Unknown
  Unselected = Unselected
  MaxHistory = 3
  Watchable = {t1, t2}
  Starred = t1
  MaxToggles = 2
  Comments = {c1, c2}
  OthersComments = {c3}
  TopLevel = TopLevel
  CommentLimit = 1
  MaxPosts = 2
  Tested <- MCTested
  HasBars <- MCHasBars
  Untracked = "C"
  CostTexts = {5}
  NoText = NoText
  NoRun = NoRun
  Traded = {1, 2, 3, 4}
  SectorOf <- MCSectorOf
  Figures <- MCFigures
  NoFigure = NoFigure
  NoSector = "none"
  Absent = "absent"
  Screened = {1, 2, 3}
  Metrics <- MCMetrics
  NoMetric = NoMetric
  Numbers = {2, 150}
  SpaceText = SpaceText
  SignedText = SignedText
  ReadAs <- MCReadAs
  Emptied = Emptied
  Junk = Junk
  NotNamed = NotNamed
  Retired = Retired
  MaxResults = 2
  MaxEdits = 1
  Browsers = {b1, b2}
  LowerCase <- MCLowerCase
  Passwords = {p1, p2}
  NoPassword = NoPassword
  PublicPage = "/"
  ProtectedPage = "/trade"
  SignupLimit = 1
  LoginLimit = 1
  MaxForms = 2
INVARIANT ListAnswersQuery
INVARIANT ComparisonIsRight
INVARIANT PanelIsSound
INVARIANT CalendarRowsMatchWeeks
INVARIANT SubmissionsAreSafe
INVARIANT TicketFollowsUrl
INVARIANT EndedRowsAreNotOffered
INVARIANT RangeIsOfTicker
INVARIANT AnnouncedIsShown
INVARIANT SelectionFollowsAddress
INVARIANT StarTells
INVARIANT PostedIsShown
INVARIANT ResultsSayTheirRun
INVARIANT OneAccountPerAddress
PROPERTY PressTurnsTheTable
PROPERTY ApplyKeepsRows
CHECK_DEADLOCK FALSE
