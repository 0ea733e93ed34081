------------------------------ MODULE UiEditors ------------------------------
(* The editors of the UI, each on its own page.  They share no state with   *)
(* each other: "page" says which one is open, and the variables of that     *)
(* editor are kept in the slots, so that one specification has all of them. *)
EXTENDS Naturals, Sequences, FiniteSets

CONSTANTS
  Explored,  \* the pages that are explored

  \* The network diagram, as in UiDiagram.
  DiagramThings, Link, Source, Target, Found, ValueVertex, InSets,
  DiagramSelected, DiagramEdits,

  \* Saving, as in UiAutosave.
  SavedEntities, SavedEdits, SavedOpen,

  \* The tools of a diagram, as in UiDiagramTools.
  ToolThings, ToolValues, DrawnFits, Bounds,

  \* The timeline, as in UiTimeline.
  Items, MonthStarts, Spans, DaysMax, MonthsMax, ItemSchemata, FirstSchema,

  \* The table of entities, as in UiTable.
  Pool, RowSchema, Props, Featured, RequiredColumns, Radix,

  \* The mapping editor, as in UiMapping.
  MappedThings, MappedLinks, MappedFits, Attributes, Header, Files, Prefills,
  Names, EntitySets, MappingEdits

\* A diagram has entities and links; a value's vertex is neither.
ASSUME DiagramAssumption ==
  /\ {Source, Target, Found} \subseteq DiagramThings
  /\ Link \notin DiagramThings /\ ValueVertex \notin DiagramThings
  /\ \A m \in InSets :
       /\ m \in Seq({m[i] : i \in DOMAIN m})
       /\ \A i \in DOMAIN m :
            m[i] \in [id : DiagramThings \cup {Link}, ids : SUBSET DiagramThings,
                     objects : SUBSET DiagramThings]

\* The layout is saved apart from the entities.
ASSUME SavedAssumption ==
  /\ IsFiniteSet(SavedEntities) /\ "layout" \notin SavedEntities
  /\ SavedEdits \in Nat \ {0}

\* The names of nothing, of the canvas and of a link are no vertex's.
ASSUME ToolsAssumption ==
  /\ {Link, "none", "canvas"} \cap (ToolThings \cup ToolValues) = {}
  /\ Link # "none"

\* A year has months, each of some days; a date may have no month or day.
ASSUME TimelineAssumption ==
  LET months == Len(MonthStarts) - 1
      dates == [year : Nat, month : 0..months, day : Nat]
  IN /\ IsFiniteSet(Items) /\ Spans \subseteq [start : dates, end : dates]
     /\ MonthStarts \in Seq(Nat) /\ months > 0 /\ MonthStarts[1] = 0
     /\ \A m, n \in 1..(months + 1) : m < n => MonthStarts[m] < MonthStarts[n]
     /\ {DaysMax, MonthsMax} \subseteq Nat

\* No entity is twice in the order of the rows.
ASSUME TableAssumption ==
  /\ Pool \in Seq({Pool[i] : i \in DOMAIN Pool})
  /\ \A i, j \in DOMAIN Pool : Pool[i] = Pool[j] => i = j

VARIABLES
  page,
  s1, s2, s3, s4, s5, s6, s7, s8, s9, s10, s11, s12, s13, s14, s15, s16

Diagram ==
  INSTANCE UiDiagram WITH
    Things <- DiagramThings, Link <- Link, Source <- Source, Target <- Target,
    Found <- Found, Value <- ValueVertex, InSets <- InSets,
    MaxSelected <- DiagramSelected, MaxEdits <- DiagramEdits,
    entities <- s1, layout <- s2, history <- s3, position <- s4,
    expanding <- s5, detached <- s6, unrecorded <- s7, edits <- s8,
    detachedUse <- s9

Autosave ==
  INSTANCE UiAutosave WITH
    Entities <- SavedEntities, MaxEdits <- SavedEdits, MaxOpen <- SavedOpen,
    editor <- s1, held <- s2, drawn <- s3, sent <- s4, members <- s5,
    values <- s6, saved <- s7, status <- s8, online <- s9, edits <- s10,
    failed <- s11, overtaken <- s12

Tools ==
  INSTANCE UiDiagramTools WITH
    Things <- ToolThings, Values <- ToolValues, Link <- Link,
    Fits <- DrawnFits, Bounds <- Bounds, writeable <- s1,
    hasExpand <- s2, mode <- s3, vertices <- s4, hidden <- s5, edge <- s6,
    groupings <- s7, selection <- s8, drag <- s9, menu <- s10, asked <- s11,
    tableView <- s12, searchText <- s13, settingsDialogOpen <- s14,
    dialog <- s15, removed <- s16

Timeline ==
  INSTANCE UiTimeline WITH
    Schemata <- ItemSchemata, writeable <- s1, entities <- s2,
    selectedId <- s3, renderer <- s4, zoomLevel <- s5,
    showCreateDialog <- s6, isSubmitting <- s7, form <- s8, isValid <- s9,
    pending <- s10, failed <- s11

Table ==
  INSTANCE UiTable WITH
    SchemaOf <- RowSchema, Required <- RequiredColumns, local <- s1,
    writeable <- s2, held <- s3, filled <- s4, schemata <- s5,
    activeSchema <- s6, sort <- s7, shown <- s8, rows <- s9,
    visibleProps <- s10, addedColumns <- s11,
    showTopAddRow <- s12, createdEntityIds <- s13, selection <- s14,
    lastSelected <- s15

Mapping ==
  INSTANCE UiMapping WITH
    Things <- MappedThings, Links <- MappedLinks, Fits <- MappedFits,
    MaxEdits <- MappingEdits, page <- s1, known <- s2, stored <- s3,
    imported <- s4, prefill <- s5, items <- s6, entitySet <- s7, dialog <- s8,
    file <- s9, requests <- s10, server <- s11, clean <- s12, edits <- s13

\* The queries of a file name items that they have, and no more than there are
\* colors.
ASSUME MappingAssumption ==
  \A queries \in Files :
    /\ queries \in Seq({queries[n] : n \in DOMAIN queries})
    /\ \A n \in DOMAIN queries : Mapping!Importable(queries[n])

-----------------------------------------------------------------------------
\* The slots that a page does not use keep this value.
Unused == "unused"

Unused16 == s16 = Unused
Unused15 == s15 = Unused /\ Unused16
Unused14 == s14 = Unused /\ Unused15
Unused13 == s13 = Unused /\ Unused14
Unused12 == s12 = Unused /\ Unused13
Unused11 == s11 = Unused /\ Unused12
Unused10 == s10 = Unused /\ Unused11

above9 == <<s10, s11, s12, s13, s14, s15, s16>>
above11 == <<s12, s13, s14, s15, s16>>
above12 == <<s13, s14, s15, s16>>
above13 == <<s14, s15, s16>>
above15 == <<s16>>

Init ==
  /\ page \in Explored
  /\ \/ page = "diagram" /\ Diagram!Init /\ Unused10
     \/ page = "autosave" /\ Autosave!Init /\ Unused13
     \/ page = "tools" /\ Tools!Init
     \/ page = "timeline" /\ Timeline!Init /\ Unused12
     \/ page = "table" /\ Table!Init /\ Unused16
     \/ page = "mapping" /\ Mapping!Init /\ Unused14

InDiagram ==
  page = "diagram" /\ Diagram!Next /\ UNCHANGED <<page, above9>>

InAutosave ==
  page = "autosave" /\ Autosave!Next /\ UNCHANGED <<page, above12>>

InTools ==
  page = "tools" /\ Tools!Next /\ UNCHANGED page

InTimeline ==
  page = "timeline" /\ Timeline!Next /\ UNCHANGED <<page, above11>>

InTable ==
  page = "table" /\ Table!Next /\ UNCHANGED <<page, above15>>

InMapping ==
  page = "mapping" /\ Mapping!Next /\ UNCHANGED <<page, above13>>

Next ==
  \/ InDiagram
  \/ InAutosave
  \/ InTools
  \/ InTimeline
  \/ InTable
  \/ InMapping

vars == <<page, s1, s2, s3, s4, s5, s6, s7, s8, s9, s10, s11, s12, s13,
          s14, s15, s16>>

Spec == Init /\ [][Next]_vars

-----------------------------------------------------------------------------
(* Properties *)

\* The type invariant of each page.
TypeOK ==
  /\ page = "diagram" => Diagram!TypeOK
  /\ page = "autosave" => Autosave!TypeOK
  /\ page = "tools" => Tools!TypeOK
  /\ page = "timeline" => Timeline!TypeOK
  /\ page = "table" => Table!TypeOK
  /\ page = "mapping" => Mapping!TypeOK

\* The diagram shows what it holds and, besides, only the ends that a link
\* embeds; edges have both their ends, but for references to what was removed;
\* groupings name vertices, and undo and redo replay the history
\* (NetworkDiagram.tsx, GraphLayout.ts, History.ts).
DiagramHolds ==
  page = "diagram" =>
    /\ Diagram!DrawnAsHeld /\ Diagram!EdgesConnect
    /\ Diagram!GroupingsNameVertices /\ Diagram!HistoryReplays

\* The counts in a vertex's menu are its own, no link is drawn from a vertex to
\* itself by whatever way its ends were chosen, and a drag ends with the mouse
\* button, unless the key removed what was dragged
\* (VertexMenu.tsx, EdgeCreateDialog.tsx, Canvas.tsx).
ToolsHold ==
  page = "tools" =>
    Tools!LinkEndsDiffer /\ Tools!MenuCountsMatch /\ Tools!DragEnds

\* Once the requests of a diagram or a timeline are answered and none failed,
\* the server has what the editor holds, and the screen says that it saves only
\* while a request is out (DiagramScreen, TimelineScreen).
SavingHolds ==
  page = "autosave" => Autosave!ServerFollows /\ Autosave!SavingHasRequest

\* What the tag of a diagram says (UpdateStatus.tsx:59).
SavedIsSaved == page = "autosave" => Autosave!SavedIsSaved

\* What a comment says of a diagram's history (History.ts:24).
MutationsStored == page = "diagram" => Diagram!MutationsStored

\* Every line of a diagram has a vertex at both its ends.
LinesEnd == page = "diagram" => Diagram!LinesEnd

\* The zoom level is one the chart can be drawn in, and the dialog for a new
\* item waits only for a request
\* (TimelineChart.tsx, TimelineItemCreateDialog.tsx).
TimelineHolds ==
  page = "timeline" => Timeline!ChartFits /\ Timeline!SubmittingHasRequest

\* The rows of the table are the entities it shows, and their check marks the
\* selection (TableEditor.tsx).
TableHolds ==
  page = "table" => Table!RowsShowEntities /\ Table!ChecksMatchSelection

\* A mapping refers to entities that it has, and their colours differ
\* (MappingList.js).
MappingHolds ==
  page = "mapping" => Mapping!ReferencesExist /\ Mapping!ColorsDiffer
=============================================================================
