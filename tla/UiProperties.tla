---------------------------- MODULE UiProperties ----------------------------
(***************************************************************************)
(* The viewer beside a diagram or a timeline: the properties of the        *)
(* selected entity, the editor that one of them is opened in, and the      *)
(* three kinds of input an editor has: text, members of a list, entities.  *)
(*                                                                         *)
(* The mouse is pressed before it is clicked: an editor that is open is    *)
(* submitted first, and then what was clicked happens.                     *)
(***************************************************************************)
EXTENDS UiLists

CONSTANTS
  Entities,
  SchemaOf,   \* entity -> schema
  PropsOf,    \* schema -> its properties
  Featured,   \* schema -> the properties that are shown when empty
  Required,   \* schema -> the properties that must have a value
  Edges,      \* schemata that are drawn as edges
  TypeOf,     \* property -> "text", "checked", "enum" or "entity"
  Texts,      \* what is typed
  ValidTexts, \* what the type of a checked property accepts
  Members,    \* the values of an enumeration
  Queries,    \* what is typed to look for an entity
  Initial,    \* entity -> property -> values it has at first
  Created,    \* the entities that can be made while editing another
  MaxValues,
  MaxEdits,   \* how often something is saved
  Focuses     \* sets of properties: one is chosen at first

VARIABLES
  entities,    \* entity -> property -> values
  existing,
  selected,
  visible,     \* properties the viewer shows
  currEditing,
  editor,      \* [values, error, multi, typed] of the open editor
  suggested,   \* [pending, results] of an input for entities
  asked,       \* what this input has asked suggestions for
  createOpen,  \* the dialog for a new entity, over the editor
  edits,
  focus        \* the properties that are clicked

vars == <<entities, existing, selected, visible, currEditing, editor,
          suggested, asked, createOpen, edits, focus>>

None == "none"
Empty == ""
Props == UNION {PropsOf[s] : s \in DOMAIN PropsOf}
Schema(e) == SchemaOf[e]
Values == Texts \cup Members \cup Entities \cup {Empty}

-----------------------------------------------------------------------------
(* Validation *)

IsEmpty(values) == values = <<>> \/ values = <<Empty>>

\* A faulty variant: only a list without values is missing.
AcceptsBlank(schema, p, values) ==
  IF values = <<>> THEN p \notin Required[schema]
  ELSE TypeOf[p] = "checked" => ToSet(values) \subseteq ValidTexts

\* No message: the values may be saved.
Validate(schema, p, values) ==
  IF IsEmpty(values) THEN p \notin Required[schema]
  ELSE /\ TypeOf[p] = "checked" => ToSet(values) \subseteq ValidTexts
       /\ TypeOf[p] = "enum" => ToSet(values) \subseteq Members

-----------------------------------------------------------------------------
(* The viewer.  It is made when there is something selected, and kept when *)
(* something else is: the editor is told from others by its property only. *)

VisibleProperties(es, e) ==
  Featured[Schema(e)] \cup {p \in PropsOf[Schema(e)] : es[e][p] # <<>>}

Editing == selected # None /\ currEditing \in visible

\* An entity that cannot be found is an empty value from now on.
Resolved(es, p, values) ==
  IF TypeOf[p] = "entity"
  THEN [i \in DOMAIN values |-> IF values[i] \in existing THEN values[i] ELSE Empty]
  ELSE values

NoEditor == [values |-> <<>>, error |-> FALSE, multi |-> FALSE, typed |-> Empty]

FreshEditor(es, e, p) == [NoEditor EXCEPT !.values = Resolved(es, p, es[e][p])]

NoSuggestions == [pending |-> FALSE, results |-> {}]

\* Nothing is open: the viewer shows e, or is gone.
Close ==
  /\ currEditing' = None /\ editor' = NoEditor
  /\ suggested' = NoSuggestions /\ asked' = {} /\ createOpen' = FALSE

\* The editor of p is opened on the entity that is selected.
Open(es, p) ==
  /\ currEditing' = p /\ editor' = FreshEditor(es, selected, p)
  /\ createOpen' = FALSE
  /\ IF TypeOf[p] = "entity"
     THEN suggested' = [NoSuggestions EXCEPT !.pending = TRUE] /\ asked' = {Empty}
     ELSE suggested' = NoSuggestions /\ asked' = {}

-----------------------------------------------------------------------------
(* Submission.  What was typed beside the values is added by a press of    *)
(* the mouse only, and as it is.                                           *)

Accepted(values) == Validate(Schema(selected), currEditing, values)
Saved(values) == [entities EXCEPT ![selected][currEditing] = values]

\* Saves and closes, or shows the message.
OnSubmit(values) ==
  /\ Editing
  /\ IF Accepted(values)
     THEN /\ entities' = Saved(values)
          /\ visible' = VisibleProperties(entities', selected)
          /\ Close
     ELSE /\ editor' = [editor EXCEPT !.values = values, !.error = TRUE]
          /\ UNCHANGED <<entities, visible, currEditing, suggested, asked, createOpen>>
  /\ UNCHANGED <<existing, selected>>

\* Values that are submitted with the tabulator or by the form.
SubmitShown == OnSubmit(editor.values)

Pressed ==
  IF TypeOf[currEditing] \in {"text", "checked"} /\ editor.typed # Empty
  THEN Append(editor.values, editor.typed) ELSE editor.values

\* Pressed again and again, it is added again and again: a bound.
CanPress == ~createOpen /\ (Editing => Len(Pressed) <= MaxValues)

\* What the press leaves: the entities, and whether an editor is still open.
PressedEntities == IF Editing /\ Accepted(Pressed) THEN Saved(Pressed) ELSE entities
StaysOpen == Editing /\ ~Accepted(Pressed)

\* Pressed anywhere else on the page.
PressOutside ==
  /\ Editing /\ CanPress
  /\ OnSubmit(Pressed)

\* Another entity, or none, is selected.  An editor that was not accepted stays
\* open if the other entity shows the property, too, with the same values.
Select(e) ==
  /\ e # selected /\ e \in existing \cup {None} /\ CanPress
  /\ entities' = PressedEntities
  /\ selected' = e
  /\ IF e = None THEN visible' = {} /\ Close
     ELSE /\ visible' = VisibleProperties(entities', e)
          /\ IF StaysOpen /\ currEditing \in visible'
             THEN /\ editor' = [editor EXCEPT !.values = Pressed, !.error = TRUE]
                  /\ UNCHANGED <<currEditing, suggested, asked, createOpen>>
             ELSE Close
  /\ UNCHANGED existing

\* A property is clicked that is not being edited.
ToggleEditing(p) ==
  /\ selected # None /\ p \in visible \cap focus /\ p # currEditing /\ CanPress
  /\ entities' = PressedEntities
  /\ Open(entities', p)
  /\ visible' = VisibleProperties(entities', selected) \cup visible
  /\ UNCHANGED <<existing, selected>>

\* The list of the others, and a property that is chosen from it.
AvailableProperties ==
  IF selected = None THEN {} ELSE PropsOf[Schema(selected)] \ visible

OnNewPropertySelected(p) ==
  /\ p \in AvailableProperties \cap focus /\ CanPress
  /\ entities' = PressedEntities
  /\ visible' = VisibleProperties(entities', selected) \cup visible \cup {p}
  /\ Close
  /\ UNCHANGED <<existing, selected>>

-----------------------------------------------------------------------------
(* Text: one field, or one for each value. *)

IsText == Editing /\ TypeOf[currEditing] \in {"text", "checked"}
ShowsMulti == editor.multi \/ Len(editor.values) > 1

Change(values) ==
  /\ editor' = [editor EXCEPT !.values = values,
                  !.multi = @ /\ Len(values) > 1]
  /\ UNCHANGED <<entities, existing, selected, visible, currEditing, suggested,
                 asked, createOpen>>

Type(text) ==
  /\ IsText /\ ~ShowsMulti
  /\ Change(IF text = Empty THEN <<>> ELSE <<text>>)

TriggerMultiEdit ==
  /\ IsText /\ ~ShowsMulti /\ editor.values # <<>> /\ editor.values # <<Empty>>
  /\ editor' = [editor EXCEPT !.multi = TRUE]
  /\ UNCHANGED <<entities, existing, selected, visible, currEditing, suggested,
                 asked, createOpen>>

TypeTag(text) ==
  /\ IsText /\ ShowsMulti
  /\ editor' = [editor EXCEPT !.typed = text]
  /\ UNCHANGED <<entities, existing, selected, visible, currEditing, suggested,
                 asked, createOpen>>

\* A tag becomes a value, if it is not one: the field is not emptied.
AddTag ==
  /\ IsText /\ ShowsMulti /\ editor.typed # Empty /\ Len(editor.values) < MaxValues
  /\ Change(IF editor.typed \in ToSet(editor.values) THEN editor.values
            ELSE Append(editor.values, editor.typed))

RemoveTag(i) ==
  /\ IsText /\ ShowsMulti /\ i \in DOMAIN editor.values
  /\ Change(RemoveAt(editor.values, i))

-----------------------------------------------------------------------------
(* Members of an enumeration, and entities: every choice is submitted. *)

AddMember(m) ==
  /\ Editing /\ TypeOf[currEditing] = "enum" /\ Len(editor.values) < MaxValues
  /\ OnSubmit(Append(editor.values, m))

RemoveMember(m) ==
  /\ Editing /\ TypeOf[currEditing] = "enum" /\ m \in ToSet(editor.values)
  /\ OnSubmit(Filtered(editor.values, Values \ {m}))

IsEntity == Editing /\ TypeOf[currEditing] = "entity"
AllowMultiple == Schema(selected) \notin Edges

\* A faulty variant: an edge is given another end, too.
AddedToAll(e) == Append(editor.values, e)

WithEntity(e) == IF AllowMultiple THEN Append(editor.values, e) ELSE <<e>>

Offered == suggested.results \ (ToSet(editor.values) \cup {selected})

SelectEntity(e) ==
  /\ IsEntity /\ ~suggested.pending /\ e \in Offered /\ ~createOpen
  /\ Len(editor.values) < MaxValues
  /\ OnSubmit(WithEntity(e))

\* The tags of the values that were found have an id; the others share none.
RemoveEntity(e) ==
  /\ IsEntity /\ AllowMultiple /\ e \in ToSet(editor.values) /\ ~createOpen
  /\ OnSubmit(Filtered(editor.values, Values \ {e}))

OnQueryChange(query) ==
  /\ IsEntity /\ ~createOpen
  /\ suggested' = [pending |-> TRUE, results |-> {}]
  /\ asked' = asked \cup {query}
  /\ UNCHANGED <<entities, existing, selected, visible, currEditing, editor, createOpen>>

Matches(query) ==
  {e \in existing : Schema(e) \notin Edges /\ (query = Empty \/ query = e)}

\* An answer is shown whatever was asked for last; after the input has gone it
\* goes nowhere.
Suggest(query) ==
  /\ query \in asked /\ asked' = asked \ {query}
  /\ suggested' = [pending |-> FALSE, results |-> Matches(query)]
  /\ UNCHANGED <<entities, existing, selected, visible, currEditing, editor, createOpen>>

OpenCreate ==
  /\ IsEntity /\ ~createOpen
  /\ createOpen' = TRUE
  /\ UNCHANGED <<entities, existing, selected, visible, currEditing, editor, suggested, asked>>

CloseCreate ==
  /\ createOpen /\ createOpen' = FALSE
  /\ UNCHANGED <<entities, existing, selected, visible, currEditing, editor, suggested, asked>>

\* The new entity is a value at once, and remains if that is not accepted.
OnCreateNewEntity(e) ==
  /\ IsEntity /\ createOpen /\ e \in Created \ existing
  /\ Len(editor.values) < MaxValues
  /\ existing' = existing \cup {e}
  /\ entities' = Saved(WithEntity(e))
  /\ visible' = VisibleProperties(entities', selected)
  /\ Close
  /\ UNCHANGED selected

\* An entity is deleted elsewhere, and not from the values of others.
Delete(e) ==
  /\ ~Editing /\ \E p \in focus : TypeOf[p] = "entity"
  /\ e \in existing \ {selected}
  /\ existing' = existing \ {e}
  /\ UNCHANGED <<entities, selected, visible, currEditing, editor, suggested,
                 asked, createOpen>>

-----------------------------------------------------------------------------

Init ==
  /\ entities = Initial /\ existing = Entities \ Created
  /\ selected = None /\ visible = {} /\ currEditing = None /\ editor = NoEditor
  /\ suggested = NoSuggestions /\ asked = {} /\ createOpen = FALSE
  /\ edits = 0 /\ focus \in Focuses

Steps ==
  \/ \E e \in Entities \cup {None} : Select(e)
  \/ \E p \in Props : ToggleEditing(p) \/ OnNewPropertySelected(p)
  \/ SubmitShown \/ PressOutside
  \/ \E text \in Texts \cup {Empty} : Type(text) \/ TypeTag(text)
  \/ TriggerMultiEdit \/ AddTag
  \/ \E i \in 1..MaxValues : RemoveTag(i)
  \/ \E m \in Members : AddMember(m) \/ RemoveMember(m)
  \/ \E e \in Entities :
       SelectEntity(e) \/ RemoveEntity(e) \/ OnCreateNewEntity(e) \/ Delete(e)
  \/ \E query \in Queries : OnQueryChange(query)
  \/ \E query \in asked : Suggest(query)
  \/ OpenCreate \/ CloseCreate

Next ==
  /\ Steps
  /\ edits' = IF entities' = entities THEN edits ELSE edits + 1
  /\ edits' <= MaxEdits
  /\ UNCHANGED focus

Spec == Init /\ [][Next]_vars

-----------------------------------------------------------------------------
(* Properties *)

\* The type invariant (PropertyEditor.tsx:31).
TypeOK ==
  /\ \A e \in Entities, p \in Props : ToSet(entities[e][p]) \subseteq Values
  /\ selected \in existing \cup {None} /\ visible \subseteq Props
  /\ currEditing \in Props \cup {None}
  /\ ToSet(editor.values) \subseteq Values /\ editor.typed \in Values
  /\ suggested.results \subseteq Entities /\ asked \subseteq Queries \cup {Empty}

\* Values that an entity may have once something was saved.
Valid(e, p, values) ==
  /\ p \in Required[Schema(e)] /\ ~IsEmpty(Initial[e][p]) => ~IsEmpty(values)
  /\ TypeOf[p] = "checked" => ToSet(values) \subseteq ValidTexts
  /\ TypeOf[p] = "enum" => ToSet(values) \subseteq Members
  /\ TypeOf[p] = "entity" /\ Schema(e) \in Edges => Len(values) <= 1

\* Whatever is edited, and in an editor that was opened on another entity, too,
\* an entity keeps the values it must have, values of checked types are valid,
\* and an edge has one end on each side (validate.ts:72, PropertyEditor.tsx:164).
EntitiesStayValid ==
  \A e \in Entities : \A p \in PropsOf[Schema(e)] : Valid(e, p, entities[e][p])

\* A comment of the text input says that it removes duplicates
\* (TextEdit.tsx:85).
ValuesDistinct ==
  \A e \in Entities, p \in Props :
    TypeOf[p] = "text" => AllDiffer(entities[e][p])

-----------------------------------------------------------------------------
(* An inductive invariant from which they follow *)

TypesKept ==
  /\ entities \in [Entities -> [Props -> Seq(Values)]]
  /\ existing \subseteq Entities /\ selected \in existing \cup {None}
  /\ editor \in [values : Seq(Values), error : BOOLEAN, multi : BOOLEAN,
                 typed : Texts \cup {Empty}]
  /\ suggested \in [pending : BOOLEAN, results : SUBSET Entities]
  /\ asked \subseteq Queries \cup {Empty}

\* Only properties of its schema are shown and edited of an entity.
OfItsSchema ==
  /\ visible \subseteq Props
  /\ selected # None => visible \subseteq PropsOf[Schema(selected)]
  /\ currEditing # None =>
       selected # None /\ currEditing \in PropsOf[Schema(selected)]

\* What an editor never holds, accepted or not, whoever it was opened for.
Editable(e, p, values) ==
  /\ TypeOf[p] \in {"checked", "enum"} => Empty \notin ToSet(values)
  /\ TypeOf[p] = "entity" /\ Schema(e) \in Edges => Len(values) <= 1

EditorFits ==
  currEditing # None => Editable(selected, currEditing, editor.values)

Inv == TypesKept /\ EntitiesStayValid /\ OfItsSchema /\ EditorFits
=============================================================================
