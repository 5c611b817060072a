CONSTANTS
  Julians <- MCJulians
  Days <- MCDays
  DataStart = 2450815
  DataEnd = 2453005
  HistoryTables <- MCHistoryTables
  SaleDays <- MCSaleDays
  CatalogRows = 11718
  ConcurrentSites = 2
  SaleYears = {1998, 2000, 2002}
  PickedDays = {1, 59, 60, 61, 365, 366}
  PickedNumbers = {3, 50, 2450800, 150}
  UpdateYears = {1999, 2000, 2001}
  UpdateRows = {1, 59, 61, 213, 214, 305, 306, 366}
  SalesRows = 4580
  InventoryRows = 2
  MaxInt = 31
  Mult = 3
  MaxColumn = 2
  ValidateStream = 1
  TableOf <- MCTableOf
  Seeds = {23}
  Skips = {6, 13}
  Ranges <- MCRanges
  MaxPosition = 23
  Channels <- MCChannels
  Quantities = {1, 7, 100}
  Wholesales = {101, 10000}
  Markups = {0, 33, 200}
  Discounts = {0, 57, 100}
  Coupons = {37, 100}
  Shippings = {0, 49}
  Taxes = {0, 7}
  Percents = {0, 33, 100}
  Fees = {50}
  Options <- MCOptions
  Means <- MCMeans
  PlainWords <- MCPlainWords
  Affirming = {"Y"}
  Files <- MCFiles
  ScaleIndexOf <- MCScaleIndexOf
  MaxWords = 4
  Size = 10
  Increment = 7
  Lengths = {0, 1, 6, 7, 8, 20}
  MaxText = 40
  DistNames = {"syllables", "Syllables", "colors"}
  LowerCase <- MCLowerCase
  TypeLists <- MCTypeLists
  WeightCounts = {1, 2}
  Labels <- MCLabels
  Rows <- MCRows
  MaxDistributions = 2
  MaxRows = 2
  Dialect <- MCDialect
  Templates <- MCTemplates
  NameRank <- MCNameRank
  Members <- MCMembers
  StreamCount = 2
  Versions = 1
  Qualify = FALSE
  MaxPicks = 2
  SmallTable = 6
  MaxTotal = 40
  MaxParallel = 9
  GBs <- MCGBs
  ScaledTables <- MCScaledTables
  RefreshRows = 7
  NullDraws <- MCNullDraws
  Spans <- MCSpans
  Counts = {2, 3}
  Shares = {0, 40, 100}
  StrayNumbers <- MCStrayNumbers
  Columns <- MCColumns
  Periods <- MCPeriods
  Ranks = {1, 2}
  MaxMembers = 4
  FieldValues <- MCFieldValues
  HalfLetters = 3
  SyllableLengths <- MCSyllableLengths
  WordWidth = 20
  BrandCounts <- MCBrandCounts
  ItemIndexes = {1, 7, 8}
SPECIFICATION Spec
CHECK_DEADLOCK FALSE
INVARIANTS
  TypeOK
  CalendarIsGregorian
  JoinsMatchTables
  UpdateSetFollowsSales
  SkipIsDraws
  PaymentsAddUp
  CommandLineOverFile
  TextFits
  DistributionsUsable
  EveryTemplateInEveryStream
  QueriesHold
  TableRowsHold
  LinesHold
