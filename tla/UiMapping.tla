----------------------------- MODULE UiMapping -----------------------------
(***************************************************************************)
(* The mapping editor of a table (components/MappingEditor, the page       *)
(* Entity/EntityMappingMode and the import dialog).  The editor keeps a    *)
(* MappingList, built from the query of the mapping in the store; the      *)
(* items of the list hold the very objects of that query, so that an edit  *)
(* of their keys and properties changes the store too (at).                *)
(*                                                                         *)
(* The files that can be imported are given by Files; the server answers   *)
(* a request with the query it was sent.  Labels, icons and the order of   *)
(* the menus are left out, and so is a list of more items than there are   *)
(* colors: MaxItems is a bound.                                            *)
(***************************************************************************)
EXTENDS Naturals, Sequences, FiniteSets, TLC, UiLists

CONSTANTS
  Things, Links,  \* the schemata, which have an edge or have not
  Fits,           \* <<l, end, t>>: a t can be the source or target of an l
  Attributes,     \* the properties of every schema that hold no entity
  Header,         \* the column labels of the table, in order
  Files,          \* the queries an imported file may hold
  Prefills,       \* the schemata a link to the page may name
  Names,          \* ids the user may type
  EntitySets,
  MaxEdits

VARIABLES
  page,      \* "away", "loading", "open", or "broken" by an endless recursion
  known,     \* the store has loaded the mapping, or failed to
  stored,    \* existingMapping: does it have an id, and its query
  imported,  \* importedMappingData
  prefill,   \* the schema in the page's address
  items,     \* the MappingList
  entitySet,
  dialog,    \* of MappingManageMenu, or to import
  file,      \* what that has read, and the query selected
  requests,
  server,    \* what it keeps of this table
  clean,     \* no list was made of a query that edits had changed in the store
  edits

data == <<known, stored, imported, prefill>>
editor == <<items, entitySet, dialog>>
vars == <<page, data, editor, file, requests, server, clean, edits>>

None == "none"
Ends == {"source", "target"}
MaxItems == 11
Colors == 0..(MaxItems - 1)
Columns == ToSet(Header)
Schemata == Things \cup Links
Properties(schema) == Attributes \cup (IF schema \in Links THEN Ends ELSE {})
Value(kind, of) == [kind |-> kind, of |-> of]
NoValue == Value(None, None)
NoMapping == [id |-> FALSE, query |-> <<>>]
NoFile == [queries |-> <<>>, index |-> 0]
NoProps(schema) == [p \in Properties(schema) |-> NoValue]

-----------------------------------------------------------------------------
(* MappingList *)

Ids(list) == {list[i].id : i \in DOMAIN list}
At(list, id) == CHOOSE i \in DOMAIN list : list[i].id = id
Get(list, id) == list[At(list, id)]

\* mappingItems.set: an item of that id is replaced where it stands.
Put(list, item) ==
  IF item.id \in Ids(list) THEN [list EXCEPT ![At(list, item.id)] = item] ELSE Append(list, item)

\* A faulty variant: how many there are, not the first that is free.
AssignColorByCount(list) == Len(list)

\* assignColor: the first that no item has.
AssignColor(list) ==
  CHOOSE c \in Colors : /\ c \notin {list[i].color : i \in DOMAIN list}
                        /\ \A d \in 0..(c - 1) : d \in {list[i].color : i \in DOMAIN list}

\* The constructor, item by item.  shared: the query is that of the store.
Load(query, shared) ==
  LET list[n \in 0..Len(query)] ==
        IF n = 0 THEN <<>>
        ELSE LET q == query[n]
             IN Append(list[n - 1],
                       [id |-> q.id, schema |-> q.schema, keys |-> q.keys, props |-> q.props,
                        color |-> AssignColor(list[n - 1]), at |-> IF shared THEN q.id ELSE None])
  IN list[Len(query)]

SchemaCount(list, schema) == Cardinality({i \in DOMAIN list : list[i].schema = schema})

AssignId(list, schema) ==
  LET n == SchemaCount(list, schema) IN IF n = 0 THEN schema ELSE schema \o ToString(n + 1)

AddedMapping(list, schema) ==
  Put(list, [id |-> AssignId(list, schema), schema |-> schema, keys |-> {}, props |-> NoProps(schema),
             color |-> AssignColor(list), at |-> None])

\* applyToEntityRefs, with the value that takes the place of the reference.
ApplyToEntityRefs(list, id, value) ==
  [i \in DOMAIN list |->
     [list[i] EXCEPT !.props = [p \in DOMAIN @ |-> IF @[p] = Value("entity", id) THEN value ELSE @[p]]]]

Without(list, id) == Filtered(list, {m \in ToSet(list) : m.id # id})

\* A faulty variant: the references to it stay.
RemovedButReferred(list, id) == Without(list, id)

\* removeMapping
RemovedMapping(list, id) ==
  ApplyToEntityRefs(Without(list, id), id, NoValue)

\* changeId: the item is the same object under its old and its new key until
\* the old key is deleted.
ChangedId(list, old, new) ==
  IF old = new THEN list
  ELSE LET renamed == [Get(list, old) EXCEPT !.id = new]
       IN ApplyToEntityRefs(Without(Put(list, renamed), old), old, Value("entity", new))

\* What the ends of an edge name.
EdgeRefs(list, id) ==
  IF id \in Ids(list) /\ Get(list, id).schema \in Links
    THEN {Get(list, id).props[e].of : e \in Ends} \cap Ids(list) ELSE {}

\* getMappingKeys: its own, and for an edge those of its ends.
Gathered(list, id) ==
  LET R[n \in 0..Len(list)] ==
        IF n = 0 THEN {id} ELSE R[n - 1] \cup UNION {EdgeRefs(list, x) : x \in R[n - 1]}
  IN R[Len(list)]
MappingKeys(list, id) == UNION {Get(list, x).keys : x \in Gathered(list, id) \cap Ids(list)}

\* The recursion never ends once an edge has come to refer to itself.
Endless(list) == \E x \in Ids(list) : \E y \in EdgeRefs(list, x) : x \in Gathered(list, y)

\* getColumnAssignments: the last item that has the column.
ColumnAssignments(list, c) ==
  LET Has(i) == {p \in Attributes : list[i].props[p] = Value("column", c)}
      S == {i \in DOMAIN list : Has(i) # {}}
  IN IF S = {} THEN {}
     ELSE LET i == CHOOSE j \in S : \A k \in S : k <= j IN {list[i].id} \X Has(i)

\* validate
Complete(list, m) ==
  /\ MappingKeys(list, m.id) # {}
  /\ m.schema \in Links => \A e \in Ends : m.props[e] # NoValue
Validate(list) == \A i \in DOMAIN list : Complete(list, list[i])

\* toApiFormat: the keys an edge was given by its ends become its own.
ToApiFormat(list) ==
  [i \in DOMAIN list |-> [id |-> list[i].id, schema |-> list[i].schema, props |-> list[i].props,
                          keys |-> MappingKeys(list, list[i].id)]]

-----------------------------------------------------------------------------
(* The page *)

\* mappingData
MappingData(imp, st) ==
  CASE imp.id -> [from |-> "file", query |-> imp.query]
    [] ~imp.id /\ st.id -> [from |-> "store", query |-> st.query]
    [] ~imp.id /\ ~st.id /\ prefill # None ->
         [from |-> "address",
          query |-> <<[id |-> prefill, schema |-> prefill, keys |-> {}, props |-> NoProps(prefill)]>>]
    [] OTHER -> [from |-> None, query |-> <<>>]

Init ==
  /\ page = "away" /\ known = FALSE
  /\ stored = NoMapping /\ imported = NoMapping /\ prefill \in Prefills \cup {None}
  /\ items = <<>> /\ entitySet = None /\ dialog = None /\ file = NoFile
  /\ requests = {} /\ server = NoMapping /\ clean = TRUE /\ edits = 0

\* The page shows a list, unless its keys cannot be told.
Show(list) ==
  /\ items' = list
  /\ page' = IF Endless(list) THEN "broken" ELSE "open"

\* loadFromMappingData.  An address is taken apart anew each time.
LoadFromMappingData(imp, st, otherwise) ==
  LET d == MappingData(imp, st)
  IN /\ Show(IF d.from = None THEN otherwise ELSE Load(d.query, d.from = "store"))
     /\ clean' = (clean /\ (d.from = "store" => st.query = server'.query))

NewEditor == entitySet' = None /\ dialog' = None

\* The editor's constructor and componentDidMount.
MountEditor(st) == LoadFromMappingData(imported, st, <<>>) /\ NewEditor

\* EntityMappingMode: componentDidMount.  What the store has may be outdated.
Mount ==
  /\ page = "away"
  /\ imported' = NoMapping
  /\ UNCHANGED <<known, stored, prefill, file, server, edits>>
  /\ \/ /\ known /\ UNCHANGED requests
        /\ MountEditor(stored)
     \/ /\ page' = "loading"
        /\ requests' = requests \cup {[kind |-> "fetch", query |-> <<>>, set |-> None]}
        /\ UNCHANGED <<editor, clean>>

\* What the page keeps is gone; requests go on.
Leave ==
  /\ page # "away"
  /\ page' = "away" /\ items' = <<>> /\ NewEditor /\ file' = NoFile
  /\ imported' = NoMapping
  /\ IF page = "broken"  \* the whole application is loaded again
       THEN known' = FALSE /\ stored' = NoMapping /\ requests' = {}
       ELSE UNCHANGED <<known, stored, requests>>
  /\ UNCHANGED <<prefill, server, clean, edits>>

-----------------------------------------------------------------------------
(* Editing *)

\* What the edits of the items' own objects make of the store's query.
Written(list) ==
  [stored EXCEPT !.query =
     [i \in DOMAIN @ |->
        LET S == {j \in DOMAIN list : list[j].at = @[i].id}
        IN IF S = {} THEN @[i]
           ELSE LET m == list[CHOOSE j \in S : TRUE] IN [@[i] EXCEPT !.keys = m.keys, !.props = m.props]]]

Edit(list) ==
  /\ page = "open" /\ dialog = None /\ edits < MaxEdits
  /\ Show(list)
  /\ stored' = Written(list)
  /\ edits' = edits + 1
  /\ UNCHANGED <<known, imported, prefill, entitySet, dialog, file, requests, server, clean>>

\* Schema.Select
AddMapping(schema) == Len(items) < MaxItems /\ Edit(AddedMapping(items, schema))

RemoveMapping(id) == id \in Ids(items) /\ Edit(RemovedMapping(items, id))

\* MappingLabel: the name is not compared with the others.
ChangeId(id, name) == id \in Ids(items) \ {name} /\ Edit(ChangedId(items, id, name))

\* renderKeySelect: an edge's gathered keys are not offered, nor removable.
AddKey(id, key) ==
  /\ id \in Ids(items) /\ key # "" /\ key \notin MappingKeys(items, id)
  /\ Edit([items EXCEPT ![At(items, id)].keys = @ \cup {key}])
RemoveKey(id, key) ==
  /\ id \in Ids(items) /\ key \in Get(items, id).keys
  /\ Edit([items EXCEPT ![At(items, id)].keys = @ \ {key}])

AddedProperty(list, id, p, value) == [list EXCEPT ![At(list, id)].props[p] = value]

\* renderEntitySelect
SelectEntity(id, end, of) ==
  /\ {id, of} \subseteq Ids(items)
  /\ <<Get(items, id).schema, end, Get(items, of).schema>> \in Fits
  /\ Edit(AddedProperty(items, id, end, Value("entity", of)))

\* checkColumnValidity
Assignable(c) == c # "" /\ Cardinality({i \in DOMAIN Header : Header[i] = c}) = 1

\* onItemSelect, where the column has a property already: that is removed
\* last, and another one of the same item takes its place.
SelectProperty(c, id, p) ==
  LET before == ColumnAssignments(items, c)
      added == AddedProperty(items, id, p, Value("column", c))
  IN /\ Assignable(c) /\ id \in Ids(items) /\ p \in Attributes
     /\ \/ before = {} /\ Edit(added)
        \/ \E b \in before : b[1] = id /\ Edit(AddedProperty(added, id, b[2], NoValue))

\* The cross of a column's header, and that of a property of MappingVerify.
RemoveProperty(id, p) ==
  /\ id \in Ids(items) /\ p \in Properties(Get(items, id).schema)
  /\ Get(items, id).props[p] # NoValue
  /\ Edit(AddedProperty(items, id, p, NoValue))

\* renderLiteralSelect: one that has no value yet
AddLiteral(id, p) ==
  /\ id \in Ids(items) /\ p \in Attributes /\ Get(items, id).props[p] = NoValue
  /\ Edit(AddedProperty(items, id, p, Value("literal", "")))
\* renderLiteralEdit
EditLiteral(id, p) ==
  /\ id \in Ids(items) /\ p \in Attributes /\ Get(items, id).props[p] = Value("literal", "")
  /\ Edit(AddedProperty(items, id, p, Value("literal", "text")))

SelectEntitySet(set) ==
  /\ page = "open" /\ dialog = None /\ items # <<>> /\ set # entitySet
  /\ edits < MaxEdits /\ edits' = edits + 1
  /\ entitySet' = set
  /\ UNCHANGED <<page, data, items, dialog, file, requests, server, clean>>

-----------------------------------------------------------------------------
(* Importing, saving and deleting *)

\* MappingManageMenu and showImport: the dialogs there are buttons for.
Offered ==
  IF stored.id THEN {"flush", "delete"} \cup (IF items = <<>> THEN {} ELSE {"save"})
  ELSE {"create"} \cup (IF imported.id THEN {} ELSE {"import"})

ToggleDialog ==
  /\ page = "open"
  /\ IF dialog = None THEN edits < MaxEdits /\ dialog' \in Offered ELSE dialog' = None
  /\ file' = NoFile
  /\ UNCHANGED <<page, data, items, entitySet, requests, server, clean, edits>>

\* MappingImportDialog
ImportOpen == page = "open" /\ dialog = "import"
SelectedQuery == file.queries[file.index]

\* onImport: a single query is selected at once.
OpenFile(queries) ==
  /\ ImportOpen
  /\ file' = [queries |-> queries, index |-> IF Len(queries) = 1 THEN 1 ELSE 0]
  /\ UNCHANGED <<page, data, editor, requests, server, clean, edits>>
SelectQuery(n) ==
  /\ ImportOpen /\ n \in DOMAIN file.queries
  /\ file' = [file EXCEPT !.index = n]
  /\ UNCHANGED <<page, data, editor, requests, server, clean, edits>>

\* processImportedMappings
Processed(query) ==
  [i \in DOMAIN query |->
     [query[i] EXCEPT !.keys = @ \cap Columns,
                      !.props = [p \in DOMAIN @ |->
                        IF @[p].kind = "column" /\ @[p].of \notin Columns THEN NoValue ELSE @[p]]]]

\* onSubmit, onImport
Import ==
  /\ ImportOpen /\ file.index # 0
  /\ imported' = [id |-> TRUE, query |-> Processed(SelectedQuery)]
  /\ dialog' = None /\ file' = NoFile /\ edits' = edits + 1
  /\ UNCHANGED <<known, stored, prefill, entitySet, requests, server>>
  /\ LoadFromMappingData(imported', stored, items)

\* mapStateToProps makes a new object of the address for every state of the
\* store: the list is made again.
StoreChanges ==
  IF MappingData(imported, stored).from = "address"
    THEN LoadFromMappingData(imported, stored, items)
    ELSE UNCHANGED <<page, items, clean>>

FormatMappings(kind) == [kind |-> kind, query |-> ToApiFormat(items), set |-> entitySet]

\* onCreate, onSave: what is wrong is shown, and the dialog closes anyway.
Submit ==
  /\ page = "open" /\ dialog \in {"create", "save"}
  /\ dialog' = None /\ edits' = edits + 1
  /\ UNCHANGED <<data, entitySet, file, server>>
  /\ IF Validate(items)
       THEN /\ requests' = requests \cup {FormatMappings(dialog)}
            /\ StoreChanges
       ELSE UNCHANGED <<requests, page, items, clean>>

\* onFlush, onDelete: nothing waits for the answer.
Order ==
  /\ page = "open" /\ dialog \in {"flush", "delete"}
  /\ dialog' = None /\ edits' = edits + 1
  /\ requests' = requests \cup {[kind |-> dialog, query |-> <<>>, set |-> None]}
  /\ UNCHANGED <<page, data, items, entitySet, file, server, clean>>

\* Another part of the application changes the store.
OtherChange ==
  /\ page = "open" /\ StoreChanges
  /\ UNCHANGED <<data, entitySet, dialog, file, requests, server, edits>>

\* The reducers of entityMappings, and the page that is given the new state.
\* A new query is a new list: edits made since it was sent are lost.
Answer(r) ==
  /\ r \in requests /\ requests' = requests \ {r}
  /\ UNCHANGED <<imported, prefill, file, edits>>
  /\ server' = CASE r.kind \in {"create", "save"} -> [id |-> TRUE, query |-> r.query]
                 [] r.kind = "delete" -> NoMapping
                 [] OTHER -> server
  /\ stored' = IF r.kind = "flush" THEN stored ELSE server'
  /\ known' = (IF r.kind \in {"flush", "delete"} THEN known ELSE TRUE)
  /\ CASE page = "loading" /\ r.kind = "fetch" -> MountEditor(stored')
       [] page = "open" /\ r.kind # "flush" ->
            LoadFromMappingData(imported, stored', items) /\ UNCHANGED <<entitySet, dialog>>
       [] page = "open" /\ r.kind = "flush" -> StoreChanges /\ UNCHANGED <<entitySet, dialog>>
       [] OTHER -> UNCHANGED <<page, editor, clean>>

\* A failed fetch shows an empty editor that offers to create a mapping.
Fail(r) ==
  /\ r \in requests /\ requests' = requests \ {r}
  /\ known' = (IF r.kind = "fetch" THEN TRUE ELSE known)
  /\ UNCHANGED <<stored, imported, prefill, file, server, edits>>
  /\ IF page = "loading" /\ r.kind = "fetch" THEN MountEditor(stored)
     ELSE IF page = "open" THEN StoreChanges /\ UNCHANGED <<entitySet, dialog>>
     ELSE UNCHANGED <<page, editor, clean>>

Next ==
  \/ Mount \/ Leave \/ ToggleDialog \/ Import \/ Submit \/ Order \/ OtherChange
  \/ \E schema \in Schemata : AddMapping(schema)
  \/ \E set \in EntitySets \cup {None} : SelectEntitySet(set)
  \/ \E queries \in Files : OpenFile(queries)
  \/ \E n \in DOMAIN file.queries : SelectQuery(n)
  \/ \E r \in requests : Answer(r) \/ Fail(r)
  \/ \E id \in Ids(items) :
       \/ RemoveMapping(id)
       \/ \E name \in Names : ChangeId(id, name)
       \/ \E key \in Columns : AddKey(id, key) \/ RemoveKey(id, key)
       \/ \E end \in Ends, of \in Ids(items) : SelectEntity(id, end, of)
       \/ \E p \in Attributes : AddLiteral(id, p) \/ EditLiteral(id, p)
       \/ \E p \in Attributes, c \in Columns : SelectProperty(c, id, p)
       \/ \E p \in Attributes \cup Ends : RemoveProperty(id, p)

Spec == Init /\ [][Next]_vars

-----------------------------------------------------------------------------
(* Properties *)

\* The lists, requests and flags have their types, and an id is in the list
\* once (mappingItems is a Map).
TypeOK ==
  /\ page \in {"away", "loading", "open", "broken"} /\ known \in BOOLEAN
  /\ \A i \in DOMAIN items :
       /\ items[i].schema \in Schemata /\ items[i].color \in Colors /\ items[i].keys \subseteq Columns
       /\ \A j \in DOMAIN items \ {i} : items[j].id # items[i].id
  /\ entitySet \in EntitySets \cup {None}
  /\ dialog \in {None, "create", "save", "flush", "delete", "import"}
  /\ \A r \in requests : r.kind \in {"fetch", "create", "save", "flush", "delete"}

\* What an item refers to is in the list (MappingList.js:183): an item that is
\* removed takes the references to it along, one that is renamed is followed.
\* But for a list made of a query that unsaved edits have changed in the store.
ReferencesExist ==
  clean => \A i \in DOMAIN items : \A p \in DOMAIN items[i].props :
             items[i].props[p].kind = "entity" => items[i].props[p].of \in Ids(items)

\* Two items are told apart by their colors (assignColor, MappingList.js:43),
\* whatever was added, removed and renamed before.
ColorsDiffer ==
  \A i, j \in DOMAIN items : i # j => items[i].color # items[j].color
-----------------------------------------------------------------------------
(* An inductive invariant from which the last two follow *)

\* What a query or a list refers to is in it.
Closed(list) ==
  \A i \in DOMAIN list : \A p \in DOMAIN list[i].props :
    LET value == list[i].props[p]
    IN /\ value = Value(value.kind, value.of)
       /\ value.kind = "entity" => value.of \in Ids(list)

IsItem(m) ==
  m = [id |-> m.id, schema |-> m.schema, keys |-> m.keys, props |-> m.props,
       color |-> m.color, at |-> m.at]

Colored(list) ==
  /\ list \in Seq(ToSet(list)) /\ Len(list) <= MaxItems
  /\ \A i \in DOMAIN list : IsItem(list[i]) /\ list[i].color \in Colors
  /\ \A i, j \in DOMAIN list : i # j => list[i].color # list[j].color

\* A query that lists are made of.
Short(query) == query \in Seq(ToSet(query)) /\ Len(query) <= MaxItems

\* A query as the files have them.
Importable(query) ==
  /\ Short(query) /\ Closed(query)
  /\ \A i \in DOMAIN query :
       query[i] = [id |-> query[i].id, schema |-> query[i].schema,
                   keys |-> query[i].keys, props |-> query[i].props]

QueriesShort ==
  /\ \A m \in {stored, imported, server} : m = [id |-> m.id, query |-> m.query] /\ Short(m.query)
  /\ \A r \in requests : Short(r.query)

FileKnown ==
  /\ file.queries \in Files \cup {<<>>}
  /\ file.index = 0 \/ file.index \in DOMAIN file.queries

\* What was sent while no outdated list was edited is closed, and so is what
\* the server made of it.
QueriesClosed ==
  /\ Closed(imported.query)
  /\ clean => /\ Closed(items) /\ Closed(server.query)
              /\ \A r \in requests : Closed(r.query)

Inv == Colored(items) /\ QueriesShort /\ FileKnown /\ QueriesClosed
=============================================================================
