----------------------------- MODULE UiDiagram -----------------------------
(***************************************************************************)
(* The network diagram editor (ui/src/react-ftm/components/NetworkDiagram, *)
(* ui/src/components/Diagram): the entity manager, the layout generated    *)
(* from it, the undo history, and the expansions that are answered late.   *)
(* Saving the changes is UiAutosave's part.                                *)
(*                                                                         *)
(* Positions, colours and captions are left out; which vertices an edit    *)
(* works on is chosen freely, as the user may select anything first.       *)
(***************************************************************************)
EXTENDS Integers, FiniteSets, UiLists

CONSTANTS
  Things,       \* entities drawn as vertices
  Link,         \* an entity drawn as an edge
  Source, Target,  \* the link's ends; Source may also refer to Target directly
  Found,        \* what an expansion finds; also the next entity created
  Value,        \* the vertex of a property value that all things share
  InSets,       \* what the diagram's entity set may hold, in order
  MaxSelected,  \* bound on the elements selected
  MaxEdits      \* bound on the edits, undo and redo included

VARIABLES
  entities,    \* entityManager.entities: a Map, in order of insertion
  layout,      \* the GraphLayout that is shown
  history,     \* history.stack, with the ids held at the time (auxiliary)
  position,    \* history.state, counted from 1
  expanding,   \* an expansion is awaited: "no", "shown" or "detached"
  detached,    \* the layout the expansion captured, once it is not shown
  unrecorded,  \* entities created outside the history
  edits,       \* number of edits
  detachedUse  \* an expansion was drawn into a layout that undo replaced

vars == <<entities, layout, history, position, expanding, detached,
          unrecorded, edits, detachedUse>>

Ids == Things \cup {Link}

-----------------------------------------------------------------------------
(* common/EntityManager.ts.  An entity refers to others, a link to its ends, *)
(* and Source perhaps to Target: by their ids, or by objects that it embeds, *)
(* as the server sends them and the editor sets them.                        *)

Held(m) == {m[i].id : i \in DOMAIN m}

HasEntity(m, id) == id \in Held(m)

GetEntities(m, ids) == Filtered(m, {e \in ToSet(m) : e.id \in ids})

DeleteEntities(m, ids) == Filtered(m, {e \in ToSet(m) : e.id \notin ids})

\* Map.set, for one after the other: an entity that is there already keeps its
\* place.  None is twice in es.
AddEntities(m, es) ==
  [i \in DOMAIN m |->
     IF HasEntity(es, m[i].id) THEN es[CHOOSE j \in DOMAIN es : es[j].id = m[i].id]
     ELSE m[i]]
  \o DeleteEntities(es, Held(m))

AddEntity(m, e) == AddEntities(m, <<e>>)

NoChanges == [created |-> << >>, updated |-> << >>, deleted |-> << >>]

ApplyForwardsOnly(m, changes, factor) == AddEntities(m, changes.created)

Updated(changes, factor) ==
  [i \in DOMAIN changes.updated |->
     IF factor > 0 THEN changes.updated[i].next ELSE changes.updated[i].prev]

\* Going back undoes: what was created is deleted, and the other way round.
ApplyEntityChanges(m, changes, factor) ==
  LET m1 == IF factor > 0 THEN AddEntities(m, changes.created)
            ELSE DeleteEntities(m, Held(changes.created))
      m2 == AddEntities(m1, Updated(changes, factor))
  IN IF factor > 0 THEN DeleteEntities(m2, Held(changes.deleted))
     ELSE AddEntities(m2, changes.deleted)

-----------------------------------------------------------------------------
(* layout/GraphLayout.ts *)

\* Edge.fromEntity and Edge.fromValue
EntityEdge == [entity |-> Link, isEntity |-> TRUE, ends |-> {Source, Target}]
ValueEdge(id, end) ==
  [entity |-> id, isEntity |-> FALSE, ends |-> {id, end}]

\* A value's vertex shows only while it connects at least two others.
IsHidden(l, v) ==
  \/ v \in l.hidden
  \/ v = Value /\ Cardinality({e \in l.edges : Value \in e.ends}) <= 1

VisibleVertices(l) == {v \in l.vertices : ~IsHidden(l, v)}

\* An id has to be the id of an entity that is held; an object has not.
Resolves(m, e, id) == id \in e.objects \/ (id \in e.ids /\ HasEntity(m, id))

\* The ends of the link that are drawn, the target's after the source's.
LinkEnds(m) ==
  LET Drawn(e) == IF ~Resolves(m, e, Source) THEN {}
                  ELSE {Source} \cup (IF Resolves(m, e, Target) THEN {Target} ELSE {})
  IN UNION {Drawn(e) : e \in {e \in ToSet(m) : e.id = Link}}

\* The entities whose vertex addVertex has seen before entity i's turn: the
\* things before it and the ends of the link before it.
DrawnBefore(m, i) ==
  ({m[j].id : j \in 1..(i - 1)} \cap Things)
  \cup (IF \E j \in 1..(i - 1) : m[j].id = Link THEN LinkEnds(m) ELSE {})

\* A reference is drawn only if its target has a vertex by then: one added
\* earlier in this pass, or one left over from the last layout.
DrawsReference(l, m) ==
  \E i \in DOMAIN m :
    /\ m[i].id = Source /\ "entity" \in l.settings
    /\ Resolves(m, m[i], Target)
    /\ Target \in l.vertices \cup DrawnBefore(m, i)

\* Vertices and edges that no entity asks for any more are thrown away, also
\* the vertex of a left-over target whose reference is drawn.
Generate(l, m) ==
  LET things == {m[i].id : i \in DOMAIN m} \cap Things
      values == IF "value" \in l.settings /\ things # {} THEN {Value} ELSE {}
      drawn == things \cup LinkEnds(m) \cup values
  IN [l EXCEPT
        !.vertices = drawn,
        !.hidden = @ \cap drawn,
        !.edges = (IF LinkEnds(m) = {Source, Target} THEN {EntityEdge} ELSE {})
          \cup (IF DrawsReference(l, m) THEN {ValueEdge(Source, Target)} ELSE {})
          \cup {ValueEdge(id, Value) : id \in IF values = {} THEN {} ELSE things}]

\* A grouping is keyed by the vertices it was made from.
IsGroupingSelected(l, g, sel) == l.groupings[g] \subseteq sel \cap l.vertices

KeepGroupings(l, keep) ==
  [l EXCEPT !.groupings = [g \in keep |-> l.groupings[g]]]

\* Selected groupings inside another grouping go, as the loop over a snapshot
\* of all groupings decides it: two with the same members go together.
RemoveSubgroups(l, sel) ==
  KeepGroupings(l, {g \in DOMAIN l.groupings :
    ~(/\ IsGroupingSelected(l, g, sel)
      /\ \E h \in DOMAIN l.groupings :
           h # g /\ l.groupings[g] \subseteq l.groupings[h])})

AddGrouping(l, sel) ==
  RemoveSubgroups([l EXCEPT !.groupings =
    [g \in DOMAIN @ \cup {sel} |-> IF g = sel THEN sel ELSE @[g]]], sel)

\* The ids removeSelection returns: of every vertex and every entity edge at
\* it, and of the edges.  A link that is named twice is deleted once.
IdsToRemove(l, vs, es) ==
  (vs \ {Value})
    \cup {f.entity : f \in {e \in l.edges : e.isEntity /\ e.ends \cap (vs \ {Value}) # {}}}
    \cup {f.entity : f \in {e \in es : e.isEntity}}

\* Value vertices are only hidden.  Groupings lose the vertices, and go when
\* fewer than two are left.
RemoveFromLayout(l, vs) ==
  LET left(g) == l.groupings[g] \ vs
      kept == {g \in DOMAIN l.groupings :
                 vs = {} \/ Cardinality(left(g)) >= 2}
  IN [KeepGroupings(l, kept) EXCEPT
        !.hidden = @ \cup (vs \cap {Value}),
        !.groupings = [g \in kept |-> left(g)]]

\* Dropped vertices join the groupings they are dropped on.
DropInto(l, vs, targets) ==
  RemoveSubgroups([l EXCEPT !.groupings =
    [g \in DOMAIN @ |-> IF g \in targets THEN @[g] \cup vs ELSE @[g]]], vs)

-----------------------------------------------------------------------------
(* History.ts *)

PushCountsFirst(m, l, changes) ==
  <<Append(SubSeq(history, 1, position), [layout |-> l, changes |-> changes, held |-> Held(m)]),
    Len(history) + 1>>

\* A new edit drops what could have been redone.
Push(m, l, changes) ==
  <<Append(SubSeq(history, 1, position), [layout |-> l, changes |-> changes, held |-> Held(m)]),
    position + 1>>

CanGoTo(factor) == position + factor \in DOMAIN history

\* Back applies the changes of the entry that is left, forward those of the
\* entry that is entered.
ChangesOf(factor) ==
  IF factor > 0 THEN history[position + factor].changes
  ELSE history[position].changes

\* NetworkDiagram.updateLayout for a change that goes into the history.
Record(m, l, changes) ==
  /\ edits < MaxEdits /\ edits' = edits + 1
  /\ entities' = m
  /\ layout' = l
  /\ history' = Push(m, l, changes)[1]
  /\ position' = Push(m, l, changes)[2]

-----------------------------------------------------------------------------
(* NetworkDiagram.tsx, toolbox/Sidebar.tsx *)

Thing(id) == [id |-> id, ids |-> {}, objects |-> {}]

\* onVertexCreate: a new entity is created, drawn, recorded and saved.
CreateVertex ==
  LET m == AddEntity(entities, Thing(Found))
  IN /\ ~HasEntity(entities, Found)
     /\ Record(m, Generate(layout, m),
               [NoChanges EXCEPT !.created = <<Thing(Found)>>])
     /\ UNCHANGED <<expanding, detached, unrecorded, detachedUse>>

\* onEdgeCreate for a schema: a link between two entities that are held and
\* drawn, with their ids.
CreateLink ==
  LET link == [Thing(Link) EXCEPT !.ids = {Source, Target}]
      m == AddEntity(entities, link)
  IN /\ {Source, Target} \subseteq Held(entities) \cap layout.vertices
     /\ ~HasEntity(entities, Link)
     /\ Record(m, Generate(layout, m), [NoChanges EXCEPT !.created = <<link>>])
     /\ UNCHANGED <<expanding, detached, unrecorded, detachedUse>>

\* onEdgeCreate for a property and Sidebar.onEntityChanged: the source's
\* reference is set to an entity that is held, as an object, or cleared.
EditSource ==
  /\ HasEntity(entities, Source)
  /\ LET old == GetEntities(entities, {Source})[1]
     IN \E new \in {Thing(Source)}
                  \cup IF HasEntity(entities, Target)
                       THEN {[old EXCEPT !.objects = {Target}]} ELSE {} :
          LET m == AddEntity(entities, new)
          IN /\ new # old
             /\ Record(m, Generate(layout, m),
                  [NoChanges EXCEPT !.updated = <<[prev |-> old, next |-> new,
                                                   id |-> Source]>>])
  /\ UNCHANGED <<expanding, detached, unrecorded, detachedUse>>

\* removeSelection.
RemoveSelection(vs, es) ==
  LET ids == IdsToRemove(layout, vs, es)
      gone == GetEntities(entities, ids)
      m == DeleteEntities(entities, ids)
  IN /\ vs # {} \/ es # {}
     /\ Record(m, Generate(RemoveFromLayout(layout, vs), m),
               [NoChanges EXCEPT !.deleted = gone])
     /\ UNCHANGED <<expanding, detached, unrecorded, detachedUse>>

\* What only changes the layout: a new grouping, groupings that go, vertices
\* dropped on a grouping, a member taken out in the sidebar.
Regroup(vs) ==
  /\ \/ vs # {} /\ Record(entities, AddGrouping(layout, vs), NoChanges)
     \/ /\ \E g \in DOMAIN layout.groupings : IsGroupingSelected(layout, g, vs)
        /\ Record(entities,
             KeepGroupings(layout, {g \in DOMAIN layout.groupings :
                                      ~IsGroupingSelected(layout, g, vs)}),
             NoChanges)
     \/ \E targets \in SUBSET DOMAIN layout.groupings :
          /\ vs # {}
          /\ Record(entities, DropInto(layout, vs, targets), NoChanges)
     \/ \E g \in DOMAIN layout.groupings, v \in vs \cap Things :
          /\ vs = {v}
          /\ Record(entities, [layout EXCEPT !.groupings[g] = @ \ {v}],
                    NoChanges)
  /\ UNCHANGED <<expanding, detached, unrecorded, detachedUse>>

\* Colours, sizes and the positions a layout tool computes are not modelled:
\* for them the recorded layout is the same as before.
Restyle ==
  /\ Record(entities, layout, NoChanges)
  /\ UNCHANGED <<expanding, detached, unrecorded, detachedUse>>

\* toggleSettingsDialog with new settings.
ChangeSettings(types) ==
  LET l == Generate([layout EXCEPT !.settings = types], entities)
  IN /\ types # layout.settings
     /\ Record(entities, l, NoChanges)
     /\ UNCHANGED <<expanding, detached, unrecorded, detachedUse>>

\* expandVertex up to the await: the layout on the screen is captured.
StartExpand ==
  /\ expanding = "no"
  /\ layout.vertices \cap Things # {}
  /\ expanding' = "shown" /\ detached' = layout
  /\ UNCHANGED <<entities, layout, history, position, unrecorded, edits,
                 detachedUse>>

\* expandVertex after the await: the results are drawn into the captured
\* layout, which replaces the one on the screen, and recorded without the
\* entities that were created.
FinishExpand(results) ==
  LET m == AddEntities(entities, results)
      l == IF expanding = "shown" THEN layout ELSE detached
  IN /\ expanding # "no"
     /\ Record(m, Generate(l, m), NoChanges)
     /\ expanding' = "no" /\ detached' = layout'
     /\ unrecorded' = unrecorded \cup {results[i].id : i \in DOMAIN results}
     /\ detachedUse' = (detachedUse \/ expanding = "detached")

\* navigateHistory: a new GraphLayout is made from the entry; an expansion
\* that is awaited keeps the old one.
NavigateHistory(factor) ==
  /\ CanGoTo(factor)
  /\ entities' = ApplyEntityChanges(entities, ChangesOf(factor), factor)
  /\ position' = position + factor
  /\ layout' = history[position + factor].layout
  /\ edits < MaxEdits /\ edits' = edits + 1
  /\ expanding' = IF expanding = "no" THEN "no" ELSE "detached"
  /\ detached' = CASE expanding = "no" -> layout'
                   [] expanding = "shown" -> layout
                   [] expanding = "detached" -> detached
  /\ UNCHANGED <<history, unrecorded, detachedUse>>

NewLayout == [vertices |-> {}, hidden |-> {}, edges |-> {},
              groupings |-> [g \in {} |-> {}], settings |-> {"entity"}]

NewHistory(m, l) == <<[layout |-> l, changes |-> NoChanges, held |-> Held(m)]>>

\* DiagramEditor's constructor: the stored layout, of which only the vertices
\* matter here, is completed with what the entity set holds.
Init ==
  /\ entities \in InSets
  /\ \E stored \in SUBSET Things :
       layout = Generate([NewLayout EXCEPT !.vertices = stored], entities)
  /\ history = NewHistory(entities, layout)
  /\ position = 1
  /\ expanding = "no" /\ detached = layout
  /\ unrecorded = {} /\ edits = 0 /\ detachedUse = FALSE

Selections ==
  {vs \in SUBSET VisibleVertices(layout) : Cardinality(vs) <= MaxSelected}

Next ==
  \/ CreateVertex \/ CreateLink \/ EditSource \/ Restyle
  \/ \E vs \in Selections, es \in {{}, layout.edges} : RemoveSelection(vs, es)
  \/ \E vs \in Selections : Regroup(vs)
  \/ \E types \in SUBSET {"entity", "value"} : ChangeSettings(types)
  \/ StartExpand
  \/ \E results \in {<<Thing(Found)>>, << >>} : FinishExpand(results)
  \/ NavigateHistory(-1) \/ NavigateHistory(1)

Spec == Init /\ [][Next]_vars

-----------------------------------------------------------------------------
(* Properties *)

\* What links bring with them when the diagram opens.
Embedded ==
  UNION {UNION {m[i].objects : i \in {i \in DOMAIN m : m[i].id = Link}} : m \in InSets}

Entity ==
  {e \in [id : Ids, ids : SUBSET Things, objects : SUBSET Things] :
     e.id = Link => e.objects \subseteq Embedded}

Layout(l) ==
  /\ l.vertices \subseteq Things \cup {Value} /\ l.hidden \subseteq l.vertices
  /\ l.settings \subseteq {"entity", "value"}
  /\ \A g \in DOMAIN l.groupings : l.groupings[g] \subseteq Things \cup {Value}

\* The type invariant of the editor's state (EntityManager.ts:40,
\* GraphLayout.ts:25, History.ts:13).
TypeOK ==
  /\ entities \in Seq(Entity) /\ Layout(layout) /\ Layout(detached)
  /\ position \in DOMAIN history
  /\ \A i \in DOMAIN history : Layout(history[i].layout)
  /\ expanding \in {"no", "shown", "detached"}
  /\ unrecorded \subseteq Things /\ edits \in 0..MaxEdits
  /\ detachedUse \in BOOLEAN

ThingsIn(l) == l.vertices \cap Things
Brought(held) == IF Link \in held THEN Embedded ELSE {}

\* A layout shows the things that are held, and without an entity only the
\* ends that a link which is held brings with it, but for the things of u.
Shows(l, held, u) ==
  /\ (held \cap Things) \ u \subseteq ThingsIn(l)
  /\ ThingsIn(l) \ u \subseteq held \cup Brought(held)

\* However edits, undo, redo and late expansions mix, the diagram shows the
\* entities it holds, except those an expansion created without recording it
\* (NetworkDiagram.tsx:215 and 340): nothing is lost from the picture, and
\* nothing else is drawn without an entity but the ends that a link embeds
\* (GraphLayout.ts:120 and 136).
DrawnAsHeld == Shows(layout, Held(entities), unrecorded)

\* The same of all that is drawn.  A redo can delete what an expansion found
\* again, and the next one draw it: the expansion is stored without it.
DrawnIsHeld == ThingsIn(layout) \subseteq Held(entities)

\* A line has a vertex at both its ends, unless it is a reference to a thing
\* that is not held any more.
Connects(e, l, held, u) ==
  \A v \in e.ends \ l.vertices : ~e.isEntity /\ v \notin held \ u

\* Every line ends in two vertices that are there, but for a reference to a
\* thing that was removed: the reference embeds it, and is drawn to the vertex
\* that is thrown away right after (GraphLayout.ts:171 and 196).
EdgesConnect ==
  \A e \in layout.edges : Connects(e, layout, Held(entities), unrecorded)

\* Without the exception.
LinesEnd == \A e \in layout.edges : e.ends \subseteq layout.vertices

\* A grouping names vertices of the layout, but for the value vertices that
\* settings take away, the ends of a link that embeds them and those drawn
\* without an entity, until an expansion writes into a layout that undo
\* replaced (GraphLayout.ts:418, NetworkDiagram.tsx:340).
GroupsDrawn(l) ==
  \A g \in DOMAIN l.groupings :
    l.groupings[g] \subseteq l.vertices \cup {Value} \cup Embedded \cup unrecorded

GroupingsNameVertices == ~detachedUse => GroupsDrawn(layout)

\* The entity mutations between two neighbouring entries are stored with the
\* later one, so that undo and redo can replay them, but for the entities of
\* expansions, which are stored with none (History.ts:24, NetworkDiagram.tsx:384).
HistoryReplays ==
  \A k \in 2..Len(history) :
    LET c == history[k].changes
    IN history[k].held \ unrecorded
         = ((history[k - 1].held \cup Held(c.created)) \ Held(c.deleted)) \ unrecorded

\* The same without the exception: "entity mutations are stored alongside their
\* resulting layout" (History.ts:24).
MutationsStored ==
  \A k \in 2..Len(history) :
    LET c == history[k].changes
    IN history[k].held = (history[k - 1].held \cup Held(c.created)) \ Held(c.deleted)

-----------------------------------------------------------------------------
(* The inductive invariant: what undo and redo need to know of each entry of *)
(* the history, but for the entities no entry recorded.                      *)

Change == {u \in [prev : Entity, next : Entity, id : Ids] :
             u.prev.id = u.id /\ u.next.id = u.id}
Changes == [created : Seq(Entity), updated : Seq(Change), deleted : Seq(Entity)]

IsLayout(l) ==
  /\ DOMAIN l = DOMAIN NewLayout
  /\ l.vertices \subseteq Things \cup {Value}
  /\ \A e \in l.edges : e.isEntity => e.entity = Link

\* What an entry's layout shows is what was held.
EntryShows(e) ==
  /\ Shows(e.layout, e.held, unrecorded)
  /\ \A f \in e.layout.edges : Connects(f, e.layout, e.held, unrecorded)
  /\ ~detachedUse => GroupsDrawn(e.layout)

\* What an entry creates was not there before it; what it deletes or updates was.
ChangesFit ==
  \A k \in 2..Len(history) :
    LET c == history[k].changes
        before == history[k - 1].held
    IN /\ Held(c.created) \cap before \subseteq unrecorded
       /\ Held(c.deleted) \cup Held(c.updated) \subseteq before \cup unrecorded

HistoryTypes ==
  /\ entities \in Seq(Entity) /\ position \in DOMAIN history
  /\ history \in Seq([layout : {history[i].layout : i \in DOMAIN history},
                      changes : Changes,
                      held : {history[i].held : i \in DOMAIN history}])
  /\ \A i \in DOMAIN history : IsLayout(history[i].layout)
  /\ expanding \in {"no", "shown", "detached"}
  /\ DOMAIN detached = DOMAIN NewLayout
  /\ unrecorded \subseteq Things

Inv ==
  /\ HistoryTypes
  /\ layout = history[position].layout
  /\ Held(entities) \ unrecorded = history[position].held \ unrecorded
  /\ \A i \in DOMAIN history : EntryShows(history[i])
  /\ HistoryReplays
  /\ ChangesFit
=============================================================================
