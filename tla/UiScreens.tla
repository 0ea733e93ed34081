------------------------------ MODULE UiScreens ------------------------------
(* The other pages and dialogs of the UI, put together as the editors are    *)
(* in UiEditors: "page" says which one is open, and the variables of that    *)
(* page are kept in the slots, so that one specification has all of them.    *)
EXTENDS Naturals, Sequences, FiniteSets

CONSTANTS
  Explored,  \* the pages that are explored

  \* Searching, as in UiSearch.
  DateFields, ListFields, DefaultFacets, FacetValues, DefaultSize, FacetTotal,
  YearDays, MonthDays, ShownDays, LastDay, SearchColumns, DefaultColumns, FoundEntities,
  ResultPage, SearchTerms, MaxText, SearchesAsked, Words, MaxTerms, TypedTexts,

  \* The viewers of documents, as in UiViewers.
  TableFile, Separator, Separators, TableSearches, Operators, TablePage,
  MaxSkipped, TableEdits, MaxQueued, Docs, NumPages, DocHits, Turned, Term,
  FileRows, RowCount, Chunk, Requested, MoreRows, MaxStreams,

  \* Uploading and deleting, as in UiUploads.
  Folders, UploadFiles, ParentOf, Root, TypedFiles, UploadConcurrencyLimit,
  Documents, UploadRequests,

  \* The other dialogs, as in UiDialogs.
  Labels, LongLabels, FirstLabel, DialogRoles, FirstRights, MaxRoles, MaxMade,
  ImportedLabels,

  \* Decisions about matches, as in UiDecisions.
  Candidates, Foreign, OfferedJudgements, MaxDecisions,

  \* The page of an entity, as in UiEntityPage.
  PageEntities, PageSchemata, References, PageResults, SortFields, PageTags, MaxTags,

  \* The property editors, as in UiProperties.
  EditedEntities, SchemaOf, PropsOf, Featured, Required, Edges, TypeOf, Texts,
  ValidTexts, Members, Queries, FirstValues, Created, MaxValues, PropertyEdits, Focuses,

  \* The session, as in UiSession.
  SessionTokens, SessionRoles, RoleOf, Locales, DefaultLocale, SessionMessages, Lasting,
  Expiring, DismissedLimit, Sites, Passwords, SessionAsked, MaxVisits, MaxPolls

\* A year and a month have days.
ASSUME SearchAssumption ==
  YearDays \in Nat \ {0} /\ MonthDays \in Nat \ {0} /\ LastDay \in Nat

\* There are documents, and numbers of their rows.
ASSUME ViewersAssumption ==
  /\ Docs # {} /\ FileRows \in [Docs -> Nat] /\ RowCount \in [Docs -> Nat]
  /\ {Chunk, Requested, MoreRows} \subseteq Nat

\* Each node is in a folder or at the root, and no folders are in one another in
\* a circle: of any folders one is in none of them.  Something can be uploaded.
ASSUME UploadsAssumption ==
  /\ IsFiniteSet(Folders) /\ IsFiniteSet(UploadFiles)
  /\ Folders \cap UploadFiles = {} /\ Root \notin Folders \cup UploadFiles
  /\ ParentOf \in [Folders \cup UploadFiles -> Folders \cup {Root}]
  /\ \A S \in SUBSET Folders : S # {} => \E d \in S : ParentOf[d] \notin S
  /\ UploadConcurrencyLimit \in Nat \ {0}

\* A collection has a label, which is not "none", and finitely many may share it.
ASSUME DialogsAssumption ==
  /\ FirstLabel \in Labels /\ "none" \notin Labels
  /\ IsFiniteSet(DialogRoles)
  /\ FirstRights \in UNION {[D -> [read : BOOLEAN, write : BOOLEAN]] : D \in SUBSET DialogRoles}
  /\ MaxRoles \in Nat /\ MaxMade \in Nat

\* "none" names nobody and no language, and a site speaks some of the languages.
ASSUME SessionAssumption ==
  /\ RoleOf \in [SessionTokens -> SessionRoles]
  /\ "none" \notin SessionTokens \cup SessionRoles \cup Locales
  /\ DefaultLocale \in Locales
  /\ Sites \subseteq [single : BOOLEAN, forced : BOOLEAN, url : BOOLEAN,
                      banner : BOOLEAN, languages : SUBSET Locales]
  /\ IsFiniteSet(SessionMessages) /\ DismissedLimit \in Nat \ {0}
  /\ MaxVisits \in Nat

\* "none" names no entity, and what is listed are entities.
ASSUME EntityPageAssumption ==
  "none" \notin PageEntities /\ PageResults \in Seq(PageEntities) /\ IsFiniteSet(PageTags)

\* There are finitely many candidates.
ASSUME DecisionsAssumption == IsFiniteSet(Candidates)

\* Of an entity the server has only properties of its schema, and their values
\* are valid at first.
ASSUME PropertiesAssumption ==
  LET props == UNION {PropsOf[s] : s \in DOMAIN PropsOf}
      values == Texts \cup Members \cup EditedEntities \cup {""}
      HeldBy(list) == {list[i] : i \in DOMAIN list}
  IN /\ "none" \notin EditedEntities \cup props
     /\ "" \notin Texts \cup ValidTexts \cup Members \cup EditedEntities
     /\ SchemaOf \in [EditedEntities -> DOMAIN PropsOf]
     /\ \A s \in DOMAIN PropsOf : Featured[s] \subseteq PropsOf[s]
     /\ FirstValues \in [EditedEntities -> [props -> Seq(values)]]
     /\ \A e \in EditedEntities : \A p \in PropsOf[SchemaOf[e]] :
          LET first == FirstValues[e][p]
          IN /\ TypeOf[p] = "checked" => HeldBy(first) \subseteq ValidTexts
             /\ TypeOf[p] = "enum" => HeldBy(first) \subseteq Members
             /\ TypeOf[p] = "entity" /\ SchemaOf[e] \in Edges => Len(first) <= 1

VARIABLES
  page,
  s1, s2, s3, s4, s5, s6, s7, s8, s9, s10,
  s11, s12, s13, s14, s15, s16, s17, s18, s19

Search ==
  INSTANCE UiSearch WITH
    Values <- FacetValues, Shown <- ShownDays, Columns <- SearchColumns,
    Entities <- FoundEntities, PageSize <- ResultPage, Terms <- SearchTerms,
    MaxAsked <- SearchesAsked, Typed <- TypedTexts, panel <- s1,
    search <- s2, hash <- s3, config <- s4, layout <- s5, result <- s6,
    terms <- s7, asked <- s8, form <- s9, box <- s10

Viewers ==
  INSTANCE UiViewers WITH
    File <- TableFile, Searches <- TableSearches, PageSize <- TablePage,
    MaxEdits <- TableEdits, Hits <- DocHits, panel <- s1,
    status <- s2, shown <- s3, query <- s4, table <- s5, linking <- s6,
    inbox <- s7, outbox <- s8, edits <- s9, worker <- s10, address <- s11,
    mode <- s12, library <- s13, counts <- s14, resolving <- s15,
    resolved <- s16, pageData <- s17, rotation <- s18, stream <- s19

Uploads ==
  INSTANCE UiUploads WITH
    Files <- UploadFiles, Typed <- TypedFiles, MaxRequests <- UploadRequests,
    panel <- s1, dropped <- s2, files <- s3, checked <- s4, meta <- s5,
    trace <- s6, uploading <- s7, waiting <- s8, stored <- s9, listed <- s10,
    selection <- s11, deleteOpen <- s12, blocking <- s13, left <- s14,
    deletedEntities <- s15, folder <- s16, requests <- s17

Dialogs ==
  INSTANCE UiDialogs WITH
    Roles <- DialogRoles, Imported <- ImportedLabels, dialog <- s1,
    label <- s2, cached <- s3, rights <- s4, listed <- s5, edit <- s6,
    setEdit <- s7, create <- s8, made <- s9, setCreate <- s10, access <- s11,
    delete <- s12, xref <- s13

Decisions ==
  INSTANCE UiDecisions WITH
    Matches <- Candidates, Offered <- OfferedJudgements,
    page <- s1, lists <- s2, profileOf <- s3, known <- s4, server <- s5,
    requests <- s6, made <- s7, decided <- s8, lost <- s9, redirects <- s10

EntityPage ==
  INSTANCE UiEntityPage WITH
    Entities <- PageEntities, Schemata <- PageSchemata,
    Results <- PageResults, Fields <- SortFields, Tags <- PageTags, part <- s1, at <- s2,
    searched <- s3, hash <- s4, sort <- s5, known <- s6, status <- s7,
    tags <- s8, requests <- s9

Properties ==
  INSTANCE UiProperties WITH
    Entities <- EditedEntities, Initial <- FirstValues,
    MaxEdits <- PropertyEdits, entities <- s1, existing <- s2,
    selected <- s3, visible <- s4, currEditing <- s5, editor <- s6,
    suggested <- s7, asked <- s8, createOpen <- s9, edits <- s10, focus <- s11

Session ==
  INSTANCE UiSession WITH
    Tokens <- SessionTokens, Roles <- SessionRoles, Messages <- SessionMessages,
    MaxAsked <- SessionAsked, part <- s1, site <- s2, session <- s3,
    metadata <- s4, roles <- s5, messages <- s6, arrived <- s7, dialog <- s8,
    server <- s9, refused <- s10, requests <- s11, form <- s12, tasks <- s13,
    polling <- s14

-----------------------------------------------------------------------------
\* The slots that a page does not use keep this value.
Unused == "unused"

Unused19 == s19 = Unused
Unused18 == s18 = Unused /\ Unused19
Unused17 == s17 = Unused /\ Unused18
Unused16 == s16 = Unused /\ Unused17
Unused15 == s15 = Unused /\ Unused16
Unused14 == s14 = Unused /\ Unused15
Unused13 == s13 = Unused /\ Unused14
Unused12 == s12 = Unused /\ Unused13
Unused11 == s11 = Unused /\ Unused12
Unused10 == s10 = Unused /\ Unused11

above9 == <<s10, s11, s12, s13, s14, s15, s16, s17, s18, s19>>
above10 == <<s11, s12, s13, s14, s15, s16, s17, s18, s19>>
above11 == <<s12, s13, s14, s15, s16, s17, s18, s19>>
above13 == <<s14, s15, s16, s17, s18, s19>>
above14 == <<s15, s16, s17, s18, s19>>
above17 == <<s18, s19>>

Init ==
  /\ page \in Explored
  /\ \/ page = "search" /\ Search!Init /\ Unused11
     \/ page = "viewers" /\ Viewers!Init
     \/ page = "uploads" /\ Uploads!Init /\ Unused18
     \/ page = "dialogs" /\ Dialogs!Init /\ Unused14
     \/ page = "decisions" /\ Decisions!Init /\ Unused11
     \/ page = "entity" /\ EntityPage!Init /\ Unused10
     \/ page = "properties" /\ Properties!Init /\ Unused12
     \/ page = "session" /\ Session!Init /\ Unused15

InSearch ==
  page = "search" /\ Search!Next /\ UNCHANGED <<page, above10>>

InViewers ==
  page = "viewers" /\ Viewers!Next /\ UNCHANGED page

InUploads ==
  page = "uploads" /\ Uploads!Next /\ UNCHANGED <<page, above17>>

InDialogs ==
  page = "dialogs" /\ Dialogs!Next /\ UNCHANGED <<page, above13>>

InDecisions ==
  page = "decisions" /\ Decisions!Next /\ UNCHANGED <<page, above10>>

InEntityPage ==
  page = "entity" /\ EntityPage!Next /\ UNCHANGED <<page, above9>>

InProperties ==
  page = "properties" /\ Properties!Next /\ UNCHANGED <<page, above11>>

InSession ==
  page = "session" /\ Session!Next /\ UNCHANGED <<page, above14>>

Next ==
  \/ InSearch
  \/ InViewers
  \/ InUploads
  \/ InDialogs
  \/ InDecisions
  \/ InEntityPage
  \/ InProperties
  \/ InSession

vars == <<page, s1, s2, s3, s4, s5, s6, s7, s8, s9, s10, s11, s12, s13,
          s14, s15, s16, s17, s18, s19>>

Spec == Init /\ [][Next]_vars

-----------------------------------------------------------------------------
(* Properties *)

\* The type invariant of each page.
TypeOK ==
  /\ page = "search" => Search!TypeOK
  /\ page = "viewers" => Viewers!TypeOK
  /\ page = "uploads" => Uploads!TypeOK
  /\ page = "dialogs" => Dialogs!TypeOK
  /\ page = "decisions" => Decisions!TypeOK
  /\ page = "entity" => EntityPage!TypeOK
  /\ page = "properties" => Properties!TypeOK
  /\ page = "session" => Session!TypeOK

\* A range of dates has both its ends, in order (QueryTags.jsx, DateFacet.jsx).
SearchHolds == page = "search" => Search!RangesWhole

\* Removing a term keeps the others, and the advanced form survives a search
\* (EntitySearchDiscovery.tsx, AdvancedSearch/util.js).
SearchKeeps ==
  [][page = "search" => Search!KeepsOthers /\ Search!KeepsForm]_vars

\* A comment says that a new query closes the preview (FacetedLayout.jsx:105).
PreviewFollowsQuery == [][page = "search" => Search!ClosesPreview]_vars

\* The viewers of tables and of PDF documents show what was asked for last, and
\* all of it (CSVExplorer.jsx, sqlWorker.js, PdfViewer.jsx, TableViewer.jsx).
ViewersHold == page = "viewers" => Viewers!ViewersFollow

\* As many rows are skipped as the toolbar says, also after another setting is
\* changed (CSVExplorer.jsx:251, sqlWorker.js:153).
SkippedAsShown == [][page = "viewers" => Viewers!GoesOnSkipping]_vars

\* Uploads arrive or are listed with their errors, and a dialog is blocked while
\* it waits for an answer and not longer (DocumentUploadDialog.jsx, dialogs/).
FormsSettle ==
  /\ page = "uploads" => Uploads!UploadsArrive
  /\ page = "dialogs" => Dialogs!BlockedWhileWaiting

\* Deleting several documents stops at the first error, and a collection is
\* deleted only by its present name (EntityDeleteDialog.jsx, DeleteDialog.tsx).
DeletionsHold ==
  [][/\ page = "uploads" => Uploads!StopsAtError
     /\ page = "dialogs" => Dialogs!Confirms]_vars

\* Decisions settle, and the page of an entity shows what belongs to it
\* (EntityDecisionHotkeys.jsx, EntityScreen.jsx, EntityViews.jsx).
EntityScreensHold ==
  /\ page = "decisions" => Decisions!DecisionsSettle
  /\ page = "entity" => EntityPage!PageHolds

\* A comment says which view a preview opens with (selectors.js:477).
PreviewHasText == page = "entity" => EntityPage!PreviewHasText

\* The session the page shows is the one it has a token for (App.jsx, store.js).
SessionHolds == page = "session" => Session!SessionHolds

\* What the property editors have saved is valid (PropertyEditor.tsx).
PropertiesHold == page = "properties" => Properties!EntitiesStayValid

\* A comment says that duplicates are removed (TextEdit.tsx:85).
ValuesDistinct == page = "properties" => Properties!ValuesDistinct

\* A comment says what of the messages is kept in the browser (store.js:30).
OnlyDismissedPersists == page = "session" => Session!OnlyDismissedPersists
=============================================================================
