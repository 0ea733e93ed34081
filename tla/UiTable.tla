------------------------------ MODULE UiTable -------------------------------
(***************************************************************************)
(* The spreadsheet of entities (react-ftm/components/EntityTable): one tab *)
(* per schema in a network diagram, or the search results of one schema in *)
(* an investigation or a list (components/EntityTable).  The table keeps   *)
(* rows of its own and brings them up to date when its properties change:  *)
(* componentDidUpdate is a part of every action here.                      *)
(*                                                                         *)
(* A property of an entity is filled or not; the order of the entities is  *)
(* that of Pool, but for the sorting.  A diagram that is empty when its    *)
(* table is opened, without a tab, is left out.                            *)
(***************************************************************************)
EXTENDS Naturals, Sequences, FiniteSets, UiLists

CONSTANTS
  Pool,      \* the entities there can be, in order
  SchemaOf,  \* entity -> schema
  Props,     \* the editable properties, of every schema
  Featured,  \* those that always have a column
  Required,  \* those that may not be cleared
  Radix      \* 10, that row numbers are written in

VARIABLES
  local,       \* in a diagram; otherwise the table shows search results
  writeable,
  held,        \* the entities of the diagram, or of the result
  filled,      \* entity -> its properties with values
  schemata,    \* tabs
  activeSchema,
  sort,        \* field and direction
  shown,       \* the entities the table was last given
  rows,        \* entityRows: an entity and its check mark
  visibleProps,
  addedColumns,
  showTopAddRow,
  createdEntityIds,
  selection,
  lastSelected

tab == <<schemata, activeSchema, sort>>
columns == <<visibleProps, addedColumns>>
vars == <<local, writeable, held, filled, tab, shown, rows, columns,
          showTopAddRow, createdEntityIds, selection, lastSelected>>

Entities == ToSet(Pool)
AllSchemata == {SchemaOf[e] : e \in Entities}
None == "none"
Unsorted == [field |-> None, direction |-> None]

-----------------------------------------------------------------------------
(* What the table is given *)

\* getSchemata: those of the entities when the table is opened.
SchemataOf(S) == {SchemaOf[e] : e \in S}

InTab(S, schema) == {e \in S : SchemaOf[e] = schema}

\* getEntities
Arrange(S, schema, s, f) ==
  LET all == Filtered(Pool, InTab(S, schema))
      with == Filtered(all, {e \in S : s.field \in f[e]})
      without == Filtered(all, {e \in S : s.field \notin f[e]})
  IN CASE s.direction = "asc" -> with \o without
       [] s.direction = "desc" -> without \o with
       [] OTHER -> all

\* getVisibleProperties
VisibleProperties(S, f, added) ==
  Featured \cup Required \cup added \cup UNION {f[e] : e \in S}

\* getEntityRow, getCheckboxCell
Row(e, sel) == [entity |-> e, isSelected |-> e \in sel]
Rows(es, sel) == [i \in DOMAIN es |-> Row(es[i], sel)]

RowEntities == {rows[i].entity : i \in DOMAIN rows}

-----------------------------------------------------------------------------
(* componentDidUpdate *)

RegenerateKeepsCreated(es, sel) ==
  /\ rows' = Rows(es, sel)
  /\ showTopAddRow' = FALSE
  /\ UNCHANGED createdEntityIds

RegenerateTable(es, sel) ==
  /\ rows' = Rows(es, sel)
  /\ showTopAddRow' = FALSE
  /\ createdEntityIds' = {}

ReflectAddedSelection(rs, sel) ==
  [i \in DOMAIN rs |-> [rs[i] EXCEPT !.isSelected = @ \/ rs[i].entity \in sel]]

ReflectUpdatedSelection(rs, sel) ==
  [i \in DOMAIN rs |-> Row(rs[i].entity, sel)]

\* Entities that were created here have their row.  An entity with a property
\* that has no column yet makes the table start over.
AppendAdditionalEntities(es, sel, created) ==
  LET new == Filtered(es, ToSet(es) \ (ToSet(shown) \cup created))
      visible == VisibleProperties(ToSet(new), filled', addedColumns)
  IN IF new # << >> /\ ~(visible \subseteq visibleProps)
     THEN /\ visibleProps' = visibleProps \cup visible
          /\ RegenerateTable(es, sel)
     ELSE /\ rows' = rows \o Rows(new, sel)
          /\ createdEntityIds' = created
          /\ UNCHANGED <<visibleProps, showTopAddRow>>

\* New entities, a new selection, or both: then the new selection waits.  The
\* number of entities is all that is compared.
DidUpdate(es, sel) ==
  \/ /\ Len(es) < Len(shown)
     /\ RegenerateTable(es, sel)
     /\ UNCHANGED visibleProps
  \/ /\ Len(es) > Len(shown)
     /\ AppendAdditionalEntities(es, sel, createdEntityIds)
  \/ /\ Len(es) = Len(shown)
     /\ rows' = IF writeable /\ (local \/ sel # selection)
                THEN ReflectUpdatedSelection(rows, sel) ELSE rows
     /\ UNCHANGED <<visibleProps, showTopAddRow, createdEntityIds>>

\* The table gets what is held; a diagram makes a new array of the selection
\* whenever it is drawn.
Render(sel) ==
  /\ shown' = Arrange(held', activeSchema, sort, filled')
  /\ selection' = sel
  /\ DidUpdate(shown', sel)

\* A table that is mounted reads everything anew.
Mount(schema) ==
  LET es == Arrange(held, schema, sort', filled)
  IN /\ shown' = es
     /\ visibleProps' = VisibleProperties(ToSet(es), filled, {})
     /\ addedColumns' = {}
     /\ RegenerateTable(es, selection')

-----------------------------------------------------------------------------
(* Tabs, columns and sorting *)

SetActiveSchema(schema) ==
  /\ schema \in schemata \ {activeSchema}
  /\ activeSchema' = schema /\ sort' = Unsorted
  /\ selection' = IF local THEN selection ELSE {}
  /\ lastSelected' = None
  /\ Mount(schema)
  /\ UNCHANGED <<local, writeable, held, filled, schemata>>

AddSchema(schema) ==
  /\ local /\ writeable /\ schema \notin schemata
  /\ schemata' = schemata \cup {schema}
  /\ activeSchema' = schema /\ sort' = Unsorted
  /\ lastSelected' = None
  /\ UNCHANGED selection
  /\ Mount(schema)
  /\ UNCHANGED <<local, writeable, held, filled>>

\* Ascending, descending, not at all.  A new order is a new query where the
\* table shows results: nothing, or what is left of an older answer.
NextSort(field) ==
  CASE sort.field # field -> [field |-> field, direction |-> "asc"]
    [] sort.field = field /\ sort.direction = "asc" ->
         [field |-> field, direction |-> "desc"]
    [] OTHER -> Unsorted

SortColumn(field) ==
  /\ field \in visibleProps
  /\ sort' = NextSort(field)
  /\ held' \in IF local THEN {held} ELSE SUBSET Entities
  /\ shown' = Arrange(held', activeSchema, sort', filled)
  /\ RegenerateTable(shown', selection)
  /\ UNCHANGED <<local, writeable, filled, schemata, activeSchema, columns,
                 selection, lastSelected>>

\* The last cell of the header row offers them.
NonVisibleProperties == IF writeable THEN Props \ visibleProps ELSE {}

AddColumn(prop) ==
  /\ prop \in NonVisibleProperties
  /\ addedColumns' = addedColumns \cup {prop}
  /\ visibleProps' = visibleProps \cup {prop}
  /\ RegenerateTable(shown, selection)
  /\ UNCHANGED <<local, writeable, held, filled, tab, shown, selection,
                 lastSelected>>

ToggleTopAddRow ==
  /\ writeable
  /\ showTopAddRow' = ~showTopAddRow
  /\ UNCHANGED <<local, writeable, held, filled, tab, shown, rows, columns,
                 createdEntityIds, selection, lastSelected>>

-----------------------------------------------------------------------------
(* The check marks *)

\* Row numbers are sorted as text.
Before(m, n) ==
  CASE m < Radix /\ n >= Radix -> m <= n \div Radix
    [] m >= Radix /\ n < Radix -> m \div Radix < n
    [] OTHER -> m <= n

FindEntityRange(i, j) ==
  LET start == IF Before(i, j) THEN i ELSE j
      end == IF Before(i, j) THEN j ELSE i
  IN {rows[k].entity : k \in start..end}

RowNumber(e) == CHOOSE i \in DOMAIN rows : rows[i].entity = e

\* With the shift key, everything from the row that was clicked before.
Clicked(i, shift) ==
  IF shift /\ lastSelected \in RowEntities
  THEN FindEntityRange(i, RowNumber(lastSelected))
  ELSE {rows[i].entity}

UpdateSelection(S, value) ==
  IF value THEN selection \cup S ELSE selection \ S

Check(i, shift) ==
  /\ writeable /\ i \in DOMAIN rows
  /\ lastSelected' = rows[i].entity
  /\ UNCHANGED <<held, filled>>
  /\ Render(UpdateSelection(Clicked(i, shift), ~rows[i].isSelected))
  /\ UNCHANGED <<local, writeable, tab, addedColumns>>

\* The dialogs of the action bar are about the selected entities that are
\* still in the result; they clear the selection when they have succeeded.
SelectedEntities == selection \cap held

FinishAction ==
  /\ ~local /\ selection # {}
  /\ \/ Cardinality(selection) \in 1..2 /\ SelectedEntities # {}  \* a link
     \/ SelectedEntities # {}  \* deleted, or added to a set
  /\ UNCHANGED <<held, filled>>
  /\ Render({})
  /\ UNCHANGED <<local, writeable, tab, addedColumns, lastSelected>>

-----------------------------------------------------------------------------
(* Cells *)

\* handleExistingRow: a value that is not valid is not taken.
EditCell(i, prop) ==
  /\ writeable /\ i \in DOMAIN rows /\ prop \in visibleProps
  /\ LET e == rows[i].entity
     IN \/ filled' = [filled EXCEPT ![e] = @ \cup {prop}]
        \/ prop \notin Required /\ filled' = [filled EXCEPT ![e] = @ \ {prop}]
  /\ IF local THEN held' = held \cup {rows[i].entity} ELSE UNCHANGED held
  /\ Render(selection)
  /\ UNCHANGED <<local, writeable, tab, addedColumns, lastSelected>>

\* A row to be filled, at the bottom or above the others.
AddRowShown(top) == writeable /\ (top => showTopAddRow)

\* handleNewRow: the entity is made whatever becomes of its values.  A diagram
\* holds it at once and selects it; a result follows later.
FillAddRow(e, top, values) ==
  /\ AddRowShown(top) /\ SchemaOf[e] = activeSchema
  /\ e \notin held \cup RowEntities
  /\ values \subseteq visibleProps
  /\ filled' = [filled EXCEPT ![e] = values]
  /\ held' = IF local THEN held \cup {e} ELSE held
  /\ LET row == Row(e, selection)
     IN rows' = IF top THEN <<row>> \o rows ELSE Append(rows, row)
  /\ createdEntityIds' = createdEntityIds \cup {e}
  /\ showTopAddRow' = (showTopAddRow /\ ~top)
  /\ shown' = Arrange(held', activeSchema, sort, filled')
  /\ selection' = IF local THEN {e} ELSE selection
  /\ UNCHANGED <<local, writeable, tab, columns, lastSelected>>

-----------------------------------------------------------------------------
(* What happens around the table *)

\* The history of a diagram brings entities back, with values they once had,
\* or takes them away; so does the rest of the diagram.
Appear(S, values) ==
  /\ local /\ S # {} /\ S \cap held = {}
  /\ held' = held \cup S
  /\ filled' = [e \in Entities |-> IF e \in S THEN values ELSE filled[e]]
  /\ Render(selection)
  /\ UNCHANGED <<local, writeable, tab, addedColumns, lastSelected>>

Disappear(S) ==
  /\ local /\ S # {} /\ S \subseteq held
  /\ held' = held \ S
  /\ filled' = [e \in Entities |-> IF e \in S THEN Required ELSE filled[e]]
  /\ Render(selection \ S)
  /\ UNCHANGED <<local, writeable, tab, addedColumns, lastSelected>>

\* The diagram is drawn again, as when a request has been answered.
DrawAgain ==
  /\ local
  /\ UNCHANGED <<held, filled>>
  /\ Render(selection)
  /\ UNCHANGED <<local, writeable, tab, addedColumns, lastSelected>>

\* Another query, the next page, or the answer after a mutation.
ShowResult ==
  /\ ~local
  /\ held' \in SUBSET InTab(Entities, activeSchema)
  /\ UNCHANGED filled
  /\ Render(selection)
  /\ UNCHANGED <<local, writeable, tab, addedColumns, lastSelected>>

-----------------------------------------------------------------------------

NewTabs ==
  /\ activeSchema \in AllSchemata
  /\ local => activeSchema \in SchemataOf(held)
  /\ ~local => SchemataOf(held) \subseteq {activeSchema}
  /\ schemata = IF local THEN SchemataOf(held) ELSE AllSchemata
  /\ sort = Unsorted

NothingSelected == selection = {} /\ lastSelected = None

Init ==
  /\ local \in BOOLEAN /\ writeable \in BOOLEAN
  /\ held \in SUBSET Entities
  /\ filled = [e \in Entities |-> Required]
  /\ NewTabs /\ NothingSelected
  /\ shown = Arrange(held, activeSchema, sort, filled)
  /\ visibleProps = VisibleProperties(ToSet(shown), filled, {})
  /\ addedColumns = {}
  /\ rows = Rows(shown, {})
  /\ showTopAddRow = FALSE /\ createdEntityIds = {}

Next ==
  \/ \E schema \in AllSchemata : SetActiveSchema(schema) \/ AddSchema(schema)
  \/ \E prop \in Props :
       \/ SortColumn(prop) \/ AddColumn(prop)
       \/ \E i \in 1..Len(Pool) : EditCell(i, prop)
  \/ ToggleTopAddRow
  \/ \E i \in 1..Len(Pool), shift \in BOOLEAN : Check(i, shift)
  \/ FinishAction
  \/ \E e \in Entities, top \in BOOLEAN, values \in SUBSET Props :
       FillAddRow(e, top, values)
  \/ \E S \in SUBSET Entities :
       \/ \E values \in SUBSET Props : Appear(S, values)
       \/ Disappear(S)
  \/ DrawAgain \/ ShowResult

Spec == Init /\ [][Next]_vars

-----------------------------------------------------------------------------
(* Properties *)

\* The type invariant (TableEditor.tsx:72).
TypeOK ==
  /\ held \subseteq Entities /\ filled \in [Entities -> SUBSET Props]
  /\ schemata \subseteq AllSchemata /\ activeSchema \in AllSchemata
  /\ shown \in Seq(Entities)
  /\ rows \in Seq([entity : Entities, isSelected : BOOLEAN])
  /\ visibleProps \subseteq Props /\ addedColumns \subseteq visibleProps
  /\ createdEntityIds \subseteq Entities /\ selection \subseteq Entities
  /\ showTopAddRow \in BOOLEAN /\ lastSelected \in Entities \cup {None}

\* In a diagram every entity of the tab has one row and nothing else has,
\* whatever is created in the table, undone, done again, and undone from
\* elsewhere (TableEditor.tsx:165).
RowsShowEntities ==
  local => /\ RowEntities = ToSet(shown)
           /\ Len(rows) = Cardinality(RowEntities)

\* Where the table shows results a check mark is set exactly on the selected
\* entities, also those that scrolled in later (TableEditor.tsx:195).
ChecksMatchSelection ==
  ~local /\ writeable =>
    \A i \in DOMAIN rows : rows[i].isSelected = (rows[i].entity \in selection)
-----------------------------------------------------------------------------
(* An inductive invariant from which they follow *)

Tab == InTab(held, activeSchema)

\* The table shows what it holds as it is sorted.
ShownArranged ==
  /\ held \subseteq Entities
  /\ shown = Arrange(held, activeSchema, sort, filled)

\* In a diagram, also before it compares: one row for each entity of the tab.
\* What was created here is still there, or the table has started over.
RowsOfTab ==
  local => /\ rows \in Seq([entity : Tab, isSelected : BOOLEAN])
           /\ Tab \subseteq RowEntities
           /\ \A i, j \in DOMAIN rows : rows[i].entity = rows[j].entity => i = j
           /\ createdEntityIds \subseteq Tab

\* What the new selection waits for never comes along with it.
RowsMarked ==
  ~local /\ writeable =>
    /\ rows \in Seq([entity : Entities, isSelected : BOOLEAN])
    /\ ChecksMatchSelection

Inv == ShownArranged /\ RowsOfTab /\ RowsMarked
=============================================================================
