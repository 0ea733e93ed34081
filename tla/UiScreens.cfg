SPECIFICATION Spec
CONSTANTS
  Explored = {"search", "viewers", "uploads", "dialogs", "decisions", "entity", "properties", "session"}
  DateFields = {"dates"}
  ListFields = {"countries"}
  DefaultFacets <- Facets
  FacetValues = {"v1", "v2"}
  DefaultSize = 1
  FacetTotal = 2
  YearDays = 4
  MonthDays = 2
  ShownDays <- DaysShown
  LastDay = 9
  SearchColumns = {"caption", "dates", "countries"}
  DefaultColumns <- FirstColumns
  FoundEntities <- ResultList
  ResultPage = 2
  SearchTerms <- TermsSearched
  MaxText = 10
  SearchesAsked = 1
  Words = {"a"}
  MaxTerms = 2
  TypedTexts <- TypedText
  TableFile <- TableLines
  Separator = ","
  Separators = {",", ";"}
  TableSearches = {0, 1}
  Operators = {"equals"}
  TablePage = 1
  MaxSkipped = 1
  TableEdits = 3
  MaxQueued = 2
  Docs = {"d", "e"}
  NumPages <- DocPages
  DocHits <- PagesHit
  Turned <- PagesTurned
  Term = "term"
  FileRows <- DocRows
  RowCount <- RowsClaimed
  Chunk = 2
  Requested = 2
  MoreRows = 2
  MaxStreams = 4
  Folders = {"A", "B", "C"}
  UploadFiles = {"f", "g", "h", "i"}
  ParentOf <- UploadTree
  Root = "/"
  TypedFiles = {"f", "g", "h"}
  UploadConcurrencyLimit = 2
  Documents = {"x", "y", "z"}
  UploadRequests = 3
  Labels = {"x", "long"}
  LongLabels = {"long"}
  FirstLabel = "x"
  DialogRoles = {"u", "v"}
  FirstRights <- RightsAtFirst
  MaxRoles = 2
  MaxMade = 2
  ImportedLabels = {"file"}
  Candidates = {"x", "y"}
  Foreign = {"y"}
  OfferedJudgements = {"positive"}
  MaxDecisions = 2
  PageEntities = {"d", "m", "p", "t"}
  PageSchemata <- SchemataOfPages
  References <- ReferencesOfPages
  PageResults <- ListOfPages
  SortFields = {"date", "name"}
  PageTags = {"one", "two"}
  MaxTags = 2
  EditedEntities = {"a", "b", "l", "n"}
  SchemaOf <- EditedSchema
  PropsOf <- EditedProps
  Featured <- FeaturedProps
  Required <- RequiredProps
  Edges = {"Link"}
  TypeOf <- TypeOfProp
  Texts = {"x", "1"}
  ValidTexts = {"1"}
  Members = {"t"}
  Queries = {"a"}
  FirstValues <- ValuesAtFirst
  Created = {"n"}
  MaxValues = 2
  PropertyEdits = 2
  Focuses <- FocusedProps
  SessionTokens = {"t1", "t2"}
  SessionRoles = {"r"}
  RoleOf <- RolesOfTokens
  Locales = {"en", "de"}
  DefaultLocale = "en"
  SessionMessages = {"m1", "m2"}
  Lasting = {}
  Expiring = {"m2"}
  DismissedLimit = 1
  Sites <- Installations
  Passwords = {"", "long"}
  SessionAsked = 2
  MaxVisits = 2
  MaxPolls = 3
INVARIANTS TypeOK SearchHolds ViewersHold FormsSettle EntityScreensHold SessionHolds 
PROPERTIES SearchKeeps DeletionsHold
CHECK_DEADLOCK FALSE
