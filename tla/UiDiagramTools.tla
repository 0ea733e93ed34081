--------------------------- MODULE UiDiagramTools ---------------------------
(***************************************************************************)
(* The tools around a network diagram                                      *)
(* (ui/src/react-ftm/components/NetworkDiagram): the interaction mode,     *)
(* dragging, the selection, the toolbar, the menu of a vertex with its     *)
(* late counts, the sidebar and the dialogs.  What an edit does to the     *)
(* entities, the layout and the history is in UiDiagram.                   *)
(*                                                                         *)
(* Positions are left out: an area or a search may hold any vertices.      *)
(***************************************************************************)
EXTENDS Naturals, Sequences, FiniteSets, UiLists

CONSTANTS
  Things,       \* vertices of entities
  Values,       \* vertices of property values
  Link,         \* the link that the dialog draws, an entity without a vertex
  Fits,         \* <<type, source, target>> that EdgeType.match admits
  Bounds        \* the lengths the selection may have while that many counts
                \* are awaited: records of selected and asked

VARIABLES
  writeable,  \* the reader may edit the diagram
  hasExpand,  \* entityManager.hasExpand
  mode,       \* interactionMode
  vertices,   \* layout.vertices
  hidden,     \* those with their hidden flag set
  edge,       \* the ends of Link, << >> if it is not there
  groupings,  \* layout.groupings, without the selected area
  selection,  \* layout.selection: a vertex may be in it twice or be gone
  drag,       \* what the pressed mouse button holds
  menu,       \* vertexMenuSettings
  asked,      \* vertices whose counts are awaited, with onlyShowExpand
  tableView, searchText, settingsDialogOpen,
  dialog,     \* the link dialog's source, target and type
  removed     \* the vertex that was dragged has been removed

vars == <<writeable, hasExpand, mode, vertices, hidden, edge, groupings,
          selection, drag, menu, asked, tableView, searchText,
          settingsDialogOpen, dialog, removed>>

layout == <<vertices, hidden, edge, groupings>>
panels == <<tableView, searchText, settingsDialogOpen>>
fixed == <<writeable, hasExpand>>

Modes == {"SELECT", "ITEM_DRAG", "PAN", "EDGE_DRAW", "EDGE_CREATE",
          "GROUPING_CREATE", "VERTEX_CREATE"}

Bounded(ids, counts) ==
  \E b \in Bounds : Len(ids) <= b.selected /\ Cardinality(counts) <= b.asked

None == "none"
Closed == [source |-> None, target |-> None, type |-> None]
Menu(x, only, results) == [vertex |-> x, only |-> only, results |-> results]
NoMenu == Menu(None, FALSE, None)

-----------------------------------------------------------------------------
(* The layout and its selection *)

VerticesIn(ids) == SelectSeq(ids, LAMBDA x : x \in vertices)
SelectedVertices == VerticesIn(selection)

Visible == vertices \ hidden

ShownGrouping(g) == Cardinality(g \cap vertices) >= 2

DrawnLink == edge # << >> /\ ToSet(edge) \subseteq Visible

\* getSelectedEntityIds: vertices before edges, each entity once.
EntitiesIn(ids) ==
  (Things \cap vertices \cap ToSet(ids))
    \cup (IF edge # << >> THEN {Link} \cap ToSet(ids) ELSE {})

SelectedEntities == EntitiesIn(selection)

FirstOf(ids, S) ==
  LET first == {x \in S : \E i \in DOMAIN ids :
                  ids[i] = x /\ \A j \in 1..(i - 1) : ids[j] \notin S}
  IN IF first = {} THEN None ELSE CHOOSE x \in first : TRUE

FirstEntity(ids, S) ==
  FirstOf(ids, IF S \cap Things = {} THEN S ELSE S \cap Things)

\* The link dialog opens with the first two of them.
OpenLink(ids) ==
  LET ends == EntitiesIn(ids)
      source == FirstEntity(ids, ends)
  IN [Closed EXCEPT !.source = source,
                    !.target = FirstEntity(ids, ends \ {source})]

SelectedGroupings ==
  {g \in groupings : g \subseteq ToSet(SelectedVertices)}

\* selectElement: additional only adds, forceVal says in or out.
SelectElement(ids, additional, forceVal) ==
  CASE forceVal = "out" ->
         SelectSeq(selection, LAMBDA x : x \notin ToSet(ids))
    [] forceVal # "out" /\ ~additional -> ids
    [] forceVal # "out" /\ additional
         /\ (forceVal = "in" \/ ~(ToSet(ids) \subseteq ToSet(selection))) ->
         selection \o ids
    [] OTHER -> selection

Select(ids, additional) ==
  /\ selection' = SelectElement(ids, additional, "either")
  /\ Bounded(selection', asked)

\* removeSelection: entities go, with their links; values are hidden, and a
\* grouping that keeps fewer than two members goes.  The selection stays.
RemoveSelected ==
  LET gone == ToSet(SelectedVertices)
  IN /\ vertices' = vertices \ (gone \cap Things)
     /\ hidden' = hidden \cup (gone \cap Values)
     /\ edge' = IF ToSet(edge) \cap gone # {} \/ Link \in ToSet(selection)
                THEN << >> ELSE edge
     /\ groupings' = {g \in {h \ gone : h \in groupings} : Cardinality(g) >= 2}
     /\ IF drag \in gone \cap Things
        THEN drag' = None /\ removed' = TRUE
        ELSE UNCHANGED <<drag, removed>>
     /\ UNCHANGED selection

-----------------------------------------------------------------------------
(* What is on the screen *)

MenuShown == writeable /\ menu # NoMenu /\ mode # "EDGE_DRAW"

\* A dialog covers everything else.
DialogShown ==
  writeable /\ (\/ mode \in {"VERTEX_CREATE", "GROUPING_CREATE", "EDGE_CREATE"}
                \/ settingsDialogOpen)

\* A press outside of the menu closes it, if it is rendered by then.
PressedOutside ==
  menu' = IF writeable /\ mode' # "EDGE_DRAW" THEN NoMenu ELSE menu

\* allowPointerEvents
AllowPointerEvents(x) ==
  /\ x \in Visible /\ ~DialogShown
  /\ mode # "ITEM_DRAG"
  /\ ~(mode = "EDGE_DRAW" /\ x \in Values)

Tools == {"delete", "add_vertex", "add_edge", "expand", "group", "ungroup",
          "select", "pan", "sidebar", "table", "settings"}

WriteableOnly == Tools \ {"select", "pan", "sidebar", "table"}

\* The buttons of the toolbar that are there and not disabled.
Enabled ==
  LET n == Len(SelectedVertices)
      Disabled ==
        {tool \in Tools :
           \/ tool = "delete" /\ selection = << >>
           \/ tool = "add_edge" /\ n \notin {1, 2}
           \/ tool = "expand" /\ ~(hasExpand /\ n = 1)
           \/ tool = "group" /\ n < 2
           \/ tool = "ungroup" /\ SelectedGroupings = {}
           \/ tool = "select" /\ mode # "PAN"
           \/ tool = "pan" /\ mode = "PAN"
           \/ tool = "sidebar" /\ ~tableView
           \/ tool = "table" /\ tableView}
  IN IF DialogShown THEN {}
     ELSE (IF writeable THEN Tools ELSE Tools \ WriteableOnly) \ Disabled

\* What the sidebar shows, when it is there.
SidebarContents ==
  LET n == Cardinality(SelectedEntities)
  IN CASE tableView \/ vertices = {} -> "closed"
       [] ~tableView /\ searchText /\ n = 0 -> "nothing found"
       [] n = 1 -> "entity"
       [] n > 1 /\ ~searchText
            /\ \E g \in SelectedGroupings :
                 SelectedGroupings = {g} /\ Cardinality(g) = n -> "grouping"
       [] OTHER -> "list"

\* The entities a sidebar lists, each of which can be clicked.
Listed ==
  CASE SidebarContents \in {"grouping", "list"} /\ SelectedEntities # {} ->
         SelectedEntities
    [] SidebarContents = "list" /\ SelectedEntities = {} ->
         vertices \cap Things
    [] OTHER -> {}

-----------------------------------------------------------------------------
(* The mouse *)

\* A press on a vertex, on its circle (which a move then drags) or its label.
\* In EDGE_DRAW it ends the link: on a selected vertex without one.
PressVertex(x, shift) ==
  /\ AllowPointerEvents(x) /\ drag = None
  /\ IF mode = "EDGE_DRAW" /\ x \in ToSet(selection)
     THEN mode' = "SELECT" /\ UNCHANGED <<selection, dialog, searchText>>
     ELSE IF mode = "EDGE_DRAW"
          THEN /\ Select(<<x>>, TRUE)
               /\ mode' = "EDGE_CREATE"
               /\ dialog' = OpenLink(selection')
               /\ searchText' = FALSE
          ELSE /\ Select(<<x>>, shift)
               /\ searchText' = FALSE
               /\ UNCHANGED <<mode, dialog>>
  /\ drag' \in {None, IF writeable THEN x ELSE None}
  /\ UNCHANGED <<fixed, layout, asked, tableView, settingsDialogOpen, removed>>
  /\ PressedOutside

\* A grouping is pressed: all of its members are selected.
PressGrouping(g, shift) ==
  /\ drag = None /\ ~DialogShown /\ ShownGrouping(g)
  /\ Select(SetToSeq(g \cap vertices), shift)
  /\ searchText' = FALSE
  /\ drag' = IF writeable THEN "grouping" ELSE None
  /\ UNCHANGED <<fixed, mode, layout, asked, tableView, settingsDialogOpen,
                 dialog, removed>>
  /\ PressedOutside

PressEdge(shift) ==
  /\ drag = None /\ ~DialogShown /\ DrawnLink
  /\ Select(<<Link>>, shift)
  /\ searchText' = FALSE
  /\ UNCHANGED <<fixed, mode, layout, drag, asked, tableView,
                 settingsDialogOpen, dialog, removed>>
  /\ PressedOutside

PressCanvas ==
  /\ drag = None /\ ~DialogShown
  /\ mode' = IF mode = "EDGE_DRAW" THEN "SELECT" ELSE mode
  /\ selection' = << >>
  /\ drag' = "canvas"
  /\ UNCHANGED <<fixed, layout, asked, panels, dialog, removed>>
  /\ PressedOutside

DragVertex == drag \in Things \cup Values /\ mode' = "ITEM_DRAG"
DragGrouping == drag = "grouping" /\ mode' = "ITEM_DRAG"

\* Every move of a drag takes the mode, whatever it is by then.
DragMove ==
  /\ DragVertex \/ DragGrouping
  /\ dialog' = Closed
  /\ UNCHANGED <<fixed, layout, selection, drag, menu, asked, panels, removed>>

ReleaseKeepsMode ==
  /\ drag' = None
  /\ UNCHANGED <<mode, selection, searchText>>

\* The button is released: a drag ends, or the canvas selects an area.
Release ==
  /\ drag' = None
  /\ mode' = IF drag # "canvas" /\ mode = "ITEM_DRAG" THEN "SELECT" ELSE mode
  /\ IF drag = "canvas" /\ mode = "SELECT"
     THEN /\ \E area \in SUBSET Visible : selection' = SetToSeq(area)
          /\ Bounded(selection', asked)
          /\ searchText' = FALSE
     ELSE UNCHANGED <<selection, searchText>>

ReleaseDrag ==
  /\ drag # None
  /\ Release
  /\ UNCHANGED <<fixed, layout, menu, asked, tableView, settingsDialogOpen,
                 dialog, removed>>

\* Only a writeable diagram listens to double clicks.
Listens(x) == writeable /\ AllowPointerEvents(x)

DoubleClickVertex(x) ==
  /\ Listens(x) /\ drag = None
  /\ x \in Things /\ ~hasExpand
  /\ mode' = "EDGE_DRAW"
  /\ UNCHANGED <<fixed, layout, selection, drag, menu, asked, panels, dialog,
                 removed>>

DoubleClickCanvas ==
  /\ writeable /\ drag = None /\ ~DialogShown
  /\ mode' = "VERTEX_CREATE"
  /\ UNCHANGED <<fixed, layout, selection, drag, menu, asked, panels, dialog,
                 removed>>

-----------------------------------------------------------------------------
(* The menu of a vertex *)

\* showVertexMenu, by a double click or by the toolbar's expand button.
ShowVertexMenu(x, only) ==
  /\ writeable /\ hasExpand /\ drag = None /\ x \in Things
  /\ IF only THEN "expand" \in Enabled /\ SelectedVertices[1] = x
     ELSE AllowPointerEvents(x)
  /\ Bounded(selection, asked \cup {<<x, only>>})
  /\ menu' = Menu(x, only, None)
  /\ asked' = asked \cup {<<x, only>>}
  /\ UNCHANGED <<fixed, mode, layout, selection, drag, panels, dialog, removed>>

AnswerForTheMenu(x, only) ==
  menu' = IF menu = NoMenu THEN NoMenu ELSE [menu EXCEPT !.results = x]

\* The counts arrive: the menu that is open by then becomes the one that
\* asked for them.
Answer(x, only) ==
  menu' = IF menu = NoMenu THEN NoMenu ELSE Menu(x, only, x)

CountsArrive ==
  \E request \in asked :
    /\ asked' = asked \ {request}
    /\ Answer(request[1], request[2])
    /\ UNCHANGED <<fixed, mode, layout, selection, drag, panels, dialog,
                   removed>>

\* The menu's entries: a link, or an expansion, which closes it.
MenuAddLink ==
  /\ MenuShown /\ ~menu.only /\ ~DialogShown
  /\ mode' = "EDGE_DRAW"
  /\ UNCHANGED <<fixed, layout, selection, drag, menu, asked, panels, dialog,
                 removed>>

MenuExpand ==
  /\ MenuShown /\ menu.results # None /\ ~DialogShown
  /\ menu' = NoMenu
  /\ vertices' = vertices \cup {menu.vertex}
  /\ UNCHANGED <<fixed, mode, hidden, edge, groupings, selection, drag, asked,
                 panels, dialog, removed>>

-----------------------------------------------------------------------------
(* The keyboard and the toolbar *)

\* The canvas listens in a read-only diagram, too.
KeyBackspace ==
  /\ ~DialogShown
  /\ RemoveSelected
  /\ UNCHANGED <<fixed, mode, menu, asked, panels, dialog>>

KeySpace ==
  /\ ~DialogShown
  /\ mode' \in {"PAN", "SELECT"}
  /\ UNCHANGED <<fixed, layout, selection, drag, menu, asked, panels, dialog,
                 removed>>

\* onSetInteractionMode; a link dialog opens with the selected entities.
ToolMode(tool, m) ==
  /\ tool \in Enabled /\ drag = None
  /\ mode' = m
  /\ dialog' = IF m # "EDGE_CREATE" THEN dialog
               ELSE OpenLink(selection)
  /\ UNCHANGED <<fixed, layout, selection, drag, asked, panels, removed>>
  /\ PressedOutside

ToolDelete ==
  /\ "delete" \in Enabled /\ drag = None
  /\ RemoveSelected
  /\ menu' = NoMenu
  /\ UNCHANGED <<fixed, mode, asked, panels, dialog>>

ToolUngroup ==
  /\ "ungroup" \in Enabled /\ drag = None
  /\ groupings' = groupings \ SelectedGroupings
  /\ menu' = NoMenu
  /\ UNCHANGED <<fixed, mode, vertices, hidden, edge, selection, drag, asked,
                 panels, dialog, removed>>

ToggleTableView ==
  /\ Enabled \cap {"sidebar", "table"} # {} /\ drag = None
  /\ tableView' = ~tableView
  /\ UNCHANGED <<fixed, mode, layout, selection, drag, menu, asked, searchText,
                 settingsDialogOpen, dialog, removed>>

ToggleSettings ==
  /\ settingsDialogOpen \/ ("settings" \in Enabled /\ drag = None)
  /\ settingsDialogOpen' = ~settingsDialogOpen
  /\ UNCHANGED <<fixed, mode, layout, selection, drag, menu, asked, tableView,
                 searchText, dialog, removed>>

\* onChangeSearch: what matches is selected, nothing for an empty text.
ChangeSearch ==
  /\ IF searchText'
     THEN \E found \in SUBSET Visible : selection' = SetToSeq(found)
     ELSE selection' = << >>
  /\ Bounded(selection', asked)

\* Typed, or cleared by the button in the field.
TypeSearch ==
  /\ vertices # {} /\ ~DialogShown /\ drag = None
  /\ searchText' \in BOOLEAN
  /\ ChangeSearch
  /\ UNCHANGED <<fixed, mode, layout, drag, menu, asked, tableView,
                 settingsDialogOpen, dialog, removed>>

\* The sidebar's list and the table's rows select, the table row by row.
SelectListed ==
  /\ ~DialogShown /\ drag = None
  /\ \/ \E x \in Listed \cap vertices : Select(<<x>>, FALSE)
     \/ /\ tableView
        /\ \E x \in Things \cap Visible, value \in {"in", "out"} :
             /\ selection' = SelectElement(<<x>>, TRUE, value)
             /\ Bounded(selection', asked)
  /\ searchText' = FALSE
  /\ UNCHANGED <<fixed, mode, layout, drag, menu, asked, tableView,
                 settingsDialogOpen, dialog, removed>>

-----------------------------------------------------------------------------
(* The dialogs *)

CloseDialog ==
  /\ writeable /\ mode \in {"VERTEX_CREATE", "GROUPING_CREATE", "EDGE_CREATE"}
  /\ mode' = "SELECT" /\ dialog' = Closed
  /\ UNCHANGED <<fixed, layout, selection, drag, menu, asked, panels, removed>>

\* EntityCreateDialog: the new vertex is selected, the search cleared.
SubmitVertex(x) ==
  /\ writeable /\ mode = "VERTEX_CREATE"
  /\ vertices' = vertices \cup {x}
  /\ selection' = <<x>>
  /\ searchText' = FALSE
  /\ mode' = "SELECT"
  /\ UNCHANGED <<fixed, hidden, edge, groupings, drag, menu, asked, tableView,
                 settingsDialogOpen, dialog, removed>>

\* GroupingCreateDialog: the visible vertices of the selection.
SubmitGrouping ==
  /\ writeable /\ mode = "GROUPING_CREATE"
  /\ groupings' = groupings \cup {ToSet(SelectedVertices) \ hidden}
  /\ selection' = << >>
  /\ mode' = "SELECT"
  /\ UNCHANGED <<fixed, vertices, hidden, edge, drag, menu, asked, panels,
                 dialog, removed>>

SelectEndKeepsOther(field, other, e) ==
  dialog' = [dialog EXCEPT ![field] = e, !.type = None]

\* onSelectSource, onSelectTarget: one entity cannot be both ends.
SelectEnd(field, other, e) ==
  dialog' = [dialog EXCEPT
    ![field] = e,
    ![other] = IF dialog[other] = e THEN None ELSE dialog[other],
    !.type = None]

Match(type, source, target) == <<type, source, target>> \in Fits

\* onChangeType: a type that fits only the other way round turns the ends.
ChangeType(type) ==
  LET s == dialog.source   t == dialog.target
  IN /\ Match(type, s, t) \/ Match(type, t, s)
     /\ dialog' = IF Match(type, s, t)
                  THEN [dialog EXCEPT !.type = type]
                  ELSE [source |-> t, target |-> s, type |-> type]

ReverseEnds ==
  /\ Match(dialog.type, dialog.target, dialog.source)
  /\ dialog' = [dialog EXCEPT !.source = dialog.target,
                              !.target = dialog.source]

EditLink ==
  /\ writeable /\ mode = "EDGE_CREATE"
  /\ \/ \E e \in Things : SelectEnd("source", "target", e)
                          \/ SelectEnd("target", "source", e)
     \/ \E fit \in Fits : ChangeType(fit[1])
     \/ ReverseEnds
  /\ UNCHANGED <<fixed, mode, layout, selection, drag, menu, asked, panels,
                 removed>>

\* Nothing is drawn if an end has no vertex; the dialog closes all the same.
SubmitLink ==
  /\ writeable /\ mode = "EDGE_CREATE"
  /\ Match(dialog.type, dialog.source, dialog.target)
  /\ IF {dialog.source, dialog.target} \subseteq vertices
     THEN /\ edge' = <<dialog.source, dialog.target>>
          /\ selection' = <<Link>>
          /\ searchText' = FALSE
     ELSE UNCHANGED <<edge, selection, searchText>>
  /\ mode' = "SELECT" /\ dialog' = Closed
  /\ UNCHANGED <<fixed, vertices, hidden, groupings, drag, menu, asked,
                 tableView, settingsDialogOpen, removed>>

-----------------------------------------------------------------------------

Init ==
  /\ writeable \in BOOLEAN /\ hasExpand \in BOOLEAN
  /\ mode = IF writeable THEN "SELECT" ELSE "PAN"
  /\ vertices = Things \cup Values
  /\ hidden = {} /\ edge = << >> /\ groupings = {}
  /\ selection = << >> /\ drag = None /\ removed = FALSE
  /\ menu = NoMenu /\ asked = {}
  /\ tableView = FALSE /\ searchText = FALSE /\ settingsDialogOpen = FALSE
  /\ dialog = Closed

Next ==
  \/ \E x \in vertices, shift \in BOOLEAN : PressVertex(x, shift)
  \/ \E g \in groupings, shift \in BOOLEAN : PressGrouping(g, shift)
  \/ \E shift \in BOOLEAN : PressEdge(shift)
  \/ PressCanvas \/ DragMove \/ ReleaseDrag
  \/ \E x \in vertices : DoubleClickVertex(x)
  \/ DoubleClickCanvas
  \/ \E x \in vertices, only \in BOOLEAN : ShowVertexMenu(x, only)
  \/ CountsArrive \/ MenuAddLink \/ MenuExpand
  \/ KeyBackspace \/ KeySpace
  \/ ToolMode("add_vertex", "VERTEX_CREATE")
  \/ ToolMode("add_edge", "EDGE_CREATE")
  \/ ToolMode("group", "GROUPING_CREATE")
  \/ ToolMode("select", "SELECT") \/ ToolMode("pan", "PAN")
  \/ ToolDelete \/ ToolUngroup \/ ToggleTableView \/ ToggleSettings
  \/ TypeSearch \/ SelectListed
  \/ CloseDialog \/ \E x \in Things : SubmitVertex(x)
  \/ SubmitGrouping \/ EditLink \/ SubmitLink

Spec == Init /\ [][Next]_vars

-----------------------------------------------------------------------------
(* Properties *)

\* The type invariant (NetworkDiagram.tsx:105).
TypeOK ==
  /\ mode \in Modes
  /\ vertices \subseteq Things \cup Values /\ hidden \subseteq Values
  /\ ToSet(selection) \subseteq Things \cup Values \cup {Link}
  /\ drag \in Things \cup Values \cup {None, "canvas", "grouping"}
  /\ \A g \in groupings : g \subseteq Things \cup Values
  /\ {tableView, searchText, settingsDialogOpen, removed} \subseteq BOOLEAN

\* The counts in the menu of a vertex are that vertex's, although the menu may
\* be closed and opened for another vertex while they are awaited
\* (NetworkDiagram.tsx:328).
MenuCountsMatch ==
  menu # NoMenu => menu.results \in {None, menu.vertex}

\* A link never leads from an entity to itself, by whatever way its ends were
\* selected, chosen, turned and changed (EdgeCreateDialog.tsx:99).
LinkEndsDiffer ==
  /\ edge # << >> => edge[1] # edge[2]
  /\ mode = "EDGE_CREATE" /\ dialog.source # None =>
       dialog.source # dialog.target

\* Vertices react to the mouse again after a drag: a diagram in ITEM_DRAG has
\* a drag that will end it, unless the key removed the vertex that was dragged
\* (VertexRenderer.tsx:86).
DragEnds == mode = "ITEM_DRAG" => drag # None \/ removed

-----------------------------------------------------------------------------
(* An inductive invariant from which they follow *)

Ends == Things \cup {Link, None}

TypesKept ==
  /\ vertices \subseteq Things \cup Values
  /\ dialog \in [source : Ends, target : Ends,
                 type : {None} \cup {fit[1] : fit \in Fits}]
  /\ asked \subseteq Things \X BOOLEAN
  /\ mode \in Modes

\* One entity is not both ends, whether the dialog is open or not.
EndsDiffer == dialog.source = dialog.target => dialog.source = None

EdgeDiffers == edge # << >> => edge[1] # edge[2]

MenuOfThing == menu # NoMenu => menu.vertex \in Things

\* A press on the canvas does not end the drag of an item.
ItemDragged == mode = "ITEM_DRAG" => drag \notin {None, "canvas"} \/ removed

Inv ==
  /\ TypesKept /\ EndsDiffer /\ EdgeDiffers
  /\ MenuOfThing /\ MenuCountsMatch /\ ItemDragged
=============================================================================
