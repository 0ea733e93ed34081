SPECIFICATION Spec
CONSTANTS
  Explored = {"diagram", "autosave", "tools", "timeline", "table", "mapping"}
  DiagramThings = {"a", "b", "x"}
  Link = "l"
  Source = "a"
  Target = "b"
  Found = "x"
  ValueVertex = "v"
  InSets <- EntitySetValues
  DiagramSelected = 2
  DiagramEdits = 3
  SavedEntities = {"e1", "e2"}
  SavedEdits = 3
  SavedOpen = 3
  ToolThings = {"p", "q"}
  ToolValues = {}
  DrawnFits <- Fits
  Bounds <- SelectedAsked
  Items = {"i1", "i2"}
  MonthStarts <- Starts
  Spans <- SpanValues
  DaysMax = 2
  MonthsMax = 3
  ItemSchemata <- TimelineSchemata
  FirstSchema = "Event"
  Pool <- RowPool
  RowSchema <- SchemaOfRow
  Props = {"p"}
  Featured = {}
  RequiredColumns = {}
  Radix = 10
  MappedThings = {"P"}
  MappedLinks = {"L"}
  MappedFits <- LinkFits
  Attributes = {"n"}
  Header <- MappingHeader
  Files <- MappingFiles
  Prefills = {"P"}
  Names = {"P", "x"}
  EntitySets = {"set"}
  MappingEdits = 3
INVARIANTS TypeOK DiagramHolds ToolsHold SavingHolds TimelineHolds TableHolds MappingHolds
CHECK_DEADLOCK FALSE
