---------------------------- MODULE UiEntityPage ----------------------------
(***************************************************************************)
(* An entity, on a page of its own or in the preview beside a list.        *)
(*                                                                         *)
(* Two parts of the program have to agree about it without knowing each    *)
(* other: the loader asks for what a schema calls for, the views draw the  *)
(* tabs that schema calls for.  Which tab is open, which entity is         *)
(* previewed and which term is looked for in it stands in the address, and *)
(* every part of the page rewrites that.  The tags of an entity are asked  *)
(* for, made and deleted by a component that has no place in the store.    *)
(***************************************************************************)
EXTENDS UiLists

CONSTANTS
  Entities,
  Schemata,    \* entity -> names its schema answers to in isA, and the marks
               \* "matchable", "writeable", "translated" and "damaged"
  References,  \* entity -> properties that point at it, in order
  Results,     \* the entities of the list or thread, in order
  Fields,      \* that a table of references can be sorted by
  Tags,        \* names of tags
  MaxTags      \* requests for tags under way, and tags of an entity

VARIABLES
  part,      \* "page", "preview" or "tags"
  at,        \* the entity of the page
  searched,  \* does the address have a search term?
  hash,      \* [mode, preview, previewMode, term, expand]
  sort,      \* [field, direction] of the table of references
  known,     \* has the store the schema of the entity that is shown?
  status,    \* what is loaded of it -> "new", "asked" or "answered"
  tags,      \* [shown, loading, deleting, creating, typed]
  requests   \* [kind, entity, tag] of the tags under way

pageVars == <<at, searched, hash, sort, known, status>>
vars == <<part, pageVars, tags, requests>>

None == "none"
Parts == {"entity", "tags", "references", "similar", "more", "screening", "mentions",
          "thread", "nearby", "children"}

Shown == IF part = "preview" THEN hash.preview ELSE at
IsPreview == part = "preview"

\* What a page and its views start with.
NewHash ==
  [mode |-> None, preview |-> None, previewMode |-> None, term |-> FALSE, expand |-> None]
DefaultSort == [field |-> "dates", direction |-> "desc"]

IsA(e, name) == name \in Schemata[e]
IsAny(e, names) == names \cap Schemata[e] # {}

-----------------------------------------------------------------------------
(* What is loaded *)

\* A faulty variant: threads are for pages only.
WantedWithoutThread(e) ==
  {"entity", "tags", "references"} \cup
  IF ~known THEN {}
  ELSE (IF IsA(e, "matchable") /\ ~IsPreview THEN {"similar"} ELSE {}) \cup
       (IF IsA(e, "Document") /\ ~IsPreview THEN {"more", "screening"} ELSE {}) \cup
       (IF IsA(e, "LegalEntity") /\ ~IsPreview THEN {"mentions"} ELSE {}) \cup
       (IF IsAny(e, {"Email", "Message"}) /\ ~IsPreview THEN {"thread"} ELSE {}) \cup
       (IF IsA(e, "Address") /\ ~IsPreview THEN {"nearby"} ELSE {}) \cup
       (IF IsA(e, "Folder") THEN {"children"} ELSE {})

\* The loader's conditions.
Wanted(e) ==
  {"entity", "tags", "references"} \cup
  IF ~known THEN {}
  ELSE (IF IsA(e, "matchable") /\ ~IsPreview THEN {"similar"} ELSE {}) \cup
       (IF IsA(e, "Document") /\ ~IsPreview THEN {"more", "screening"} ELSE {}) \cup
       (IF IsA(e, "LegalEntity") /\ ~IsPreview THEN {"mentions"} ELSE {}) \cup
       (IF IsAny(e, {"Email", "Message"}) THEN {"thread"} ELSE {}) \cup
       (IF IsA(e, "Address") /\ ~IsPreview THEN {"nearby"} ELSE {}) \cup
       (IF IsA(e, "Folder") THEN {"children"} ELSE {})

\* The results the loader is handed.
Unasked == {w \in Parts : status[w] = "new"}

Missing == IF Shown = None THEN {} ELSE Wanted(Shown) \cap Unasked

\* On every update of the page everything that is missing is asked for.
FetchIfNeeded ==
  /\ Missing # {}
  /\ status' = [w \in Parts |-> IF w \in Missing THEN "asked" ELSE status[w]]
  /\ UNCHANGED <<at, searched, hash, sort, known>>

\* An answer, or an error: neither is asked for again.
Answered ==
  /\ \E w \in Parts :
       /\ status[w] = "asked"
       /\ status' = [status EXCEPT ![w] = "answered"]
       /\ \/ UNCHANGED known
          \/ w = "entity" /\ ~known /\ known' = TRUE
  /\ UNCHANGED <<at, searched, hash, sort>>

\* Something was changed: all that has been answered is out of date.
Outdated ==
  /\ \E w \in Parts : status[w] = "answered"
  /\ status' = [w \in Parts |-> IF status[w] = "answered" THEN "new" ELSE status[w]]
  /\ UNCHANGED <<at, searched, hash, sort, known>>

Unloaded == [w \in Parts |-> "new"]

-----------------------------------------------------------------------------
(* The tabs, each with what it shows *)

TextOnly(e) == IsAny(e, {"Pages", "Image"})
HasText(e) == TextOnly(e) \/ IsAny(e, {"Video", "Audio"})
HasViewer(e) == IsAny(e, {"Pages", "Email", "Image", "HyperText", "Table", "PlainText"})
HasView(e) == IsA(e, "Document") /\ (HasViewer(e) \/ (~IsA(e, "Folder") /\ ~TextOnly(e)))

Tab(id, needs) == [id |-> id, needs |-> needs]

\* Those of the documents themselves.
DocumentTabs(e) ==
  (IF IsPreview THEN {Tab("info", "entity")} ELSE {}) \cup
  (IF HasView(e) THEN {Tab("view", "entity")} ELSE {}) \cup
  (IF ~IsPreview /\ IsA(e, "Table") THEN {Tab("csv-explorer", "entity")} ELSE {}) \cup
  (IF HasText(e) THEN {Tab("text", "entity")} ELSE {}) \cup
  (IF IsA(e, "translated") THEN {Tab("translation", "entity")} ELSE {}) \cup
  (IF IsA(e, "Folder") THEN {Tab("browse", "children")} ELSE {})

\* One for every property that points at the entity, with what has it.
ReferenceTabs(e) == {Tab(property, "references") : property \in ToSet(References[e])}

\* Those of the entities it has to do with.
RelatedTabs(e) ==
  ReferenceTabs(e) \cup
  (IF IsAny(e, {"Email", "Message"}) THEN {Tab("thread", "thread")} ELSE {}) \cup
  (IF IsA(e, "Document") /\ ~IsA(e, "damaged") THEN {Tab("tags", "tags")} ELSE {}) \cup
  (IF IsA(e, "Table") /\ IsA(e, "writeable") THEN {Tab("mapping", "entity")} ELSE {})

\* Those of a page only.
PageTabs(e) ==
  IF IsPreview THEN {}
  ELSE (IF IsA(e, "Address") THEN {Tab("nearby", "nearby")} ELSE {}) \cup
       (IF IsA(e, "matchable") THEN {Tab("similar", "similar")} ELSE {}) \cup
       (IF IsA(e, "LegalEntity") THEN {Tab("mentions", "mentions")} ELSE {}) \cup
       (IF IsA(e, "Document")
        THEN {Tab("more-like-this", "more"), Tab("screening", "screening")} ELSE {})

\* None until the schema and the references are there.
DrawnTabs ==
  IF Shown = None \/ ~known \/ status["references"] # "answered" THEN {}
  ELSE DocumentTabs(Shown) \cup RelatedTabs(Shown) \cup PageTabs(Shown)

\* The tab that is open when the address names none.
DefaultView(e) ==
  CASE ~known -> IF IsPreview THEN "info" ELSE "similar"
    [] IsPreview /\ IsA(e, "Document") /\ hash.term /\ searched -> "text"
    [] IsAny(e, {"Email", "HyperText", "Image", "Pages", "Table"}) -> "view"
    [] IsA(e, "Folder") -> "browse"
    [] IsA(e, "Document") -> "view"
    [] IsPreview -> "info"
    [] status["references"] = "answered" /\ References[e] # <<>> -> Head(References[e])
    [] OTHER -> "similar"

ActiveMode ==
  LET mode == IF IsPreview THEN hash.previewMode ELSE hash.mode IN
  IF mode # None THEN mode ELSE DefaultView(Shown)

HandleTabChange ==
  /\ \E tab \in DrawnTabs :
       /\ tab.id # ActiveMode
       /\ hash' = IF IsPreview THEN [hash EXCEPT !.previewMode = tab.id]
                  ELSE [hash EXCEPT !.mode = tab.id]
  /\ UNCHANGED <<at, searched, sort, known, status>>

-----------------------------------------------------------------------------
(* The table of references *)

OnReferences == part = "page" /\ known /\ ActiveMode \in ToSet(References[at])

SortColumn ==
  /\ OnReferences
  /\ \E f \in Fields :
       sort' = IF sort.field # f THEN [field |-> f, direction |-> "asc"]
               ELSE [sort EXCEPT !.direction = IF @ = "asc" THEN "desc" ELSE "asc"]
  /\ UNCHANGED <<at, searched, hash, known, status>>

OnExpand ==
  /\ OnReferences
  /\ \E e \in Entities :
       hash' = [hash EXCEPT !.expand = IF @ = e THEN None ELSE e]
  /\ UNCHANGED <<at, searched, sort, known, status>>

-----------------------------------------------------------------------------
(* The preview *)

\* A faulty variant: closed by clicking its result again it keeps the term.
ToggledKeepsTerm(e) ==
  LET opening == hash.preview # e IN
  [hash EXCEPT !.previewMode = None, !.preview = IF opening THEN e ELSE None,
               !.term = IF opening /\ IsA(e, "Pages") THEN searched ELSE @]

\* Clicking an entity opens its preview, or closes it.  With a document the
\* term is taken over; with another entity it stays as it was.
Toggled(e) ==
  LET opening == hash.preview # e IN
  [hash EXCEPT !.previewMode = None, !.preview = IF opening THEN e ELSE None,
               !.term = CASE opening /\ IsA(e, "Pages") -> searched
                          [] opening -> @
                          [] OTHER -> FALSE]

Closed == [hash EXCEPT !.previewMode = None, !.preview = None, !.term = FALSE]

PreviewIndex == IF hash.preview = None THEN 0 ELSE IndexOf(Results, hash.preview)

HasList == part = "preview" \/ (part = "page" /\ known /\ ActiveMode = "thread")

ClickResult == HasList /\ \E e \in ToSet(Results) : hash' = Toggled(e)

ShowNextPreview ==
  /\ HasList /\ PreviewIndex # 0 /\ PreviewIndex < Len(Results)
  /\ hash' = Toggled(Results[PreviewIndex + 1])

ShowPreviousPreview ==
  /\ HasList /\ PreviewIndex > 1
  /\ hash' = Toggled(Results[PreviewIndex - 1])

ClosePreview == HasList /\ hash.preview # None /\ hash' = Closed

\* Another entity in the preview is another entity to load; its schema is
\* known, for it stood in the list.
Preview ==
  /\ ClickResult \/ ShowNextPreview \/ ShowPreviousPreview \/ ClosePreview
  /\ status' = IF IsPreview THEN Unloaded ELSE status
  /\ UNCHANGED <<at, searched, sort, known>>

\* Another page; the store may have its entity from a list.
OpenPage ==
  /\ part = "page"
  /\ \E e \in Entities \ {at}, schema \in BOOLEAN :
       /\ at' = e /\ known' = schema
  /\ hash' = NewHash
  /\ sort' = DefaultSort
  /\ status' = Unloaded
  /\ UNCHANGED searched

-----------------------------------------------------------------------------
(* Tags *)

NewTags ==
  [shown |-> <<>>, loading |-> part = "tags", deleting |-> {}, creating |-> FALSE,
   typed |-> None]

Send(kind, tag) == requests' = requests \cup {[kind |-> kind, entity |-> at, tag |-> tag]}
Busy == Cardinality(requests) >= MaxTags

\* Another page under the same address pattern keeps the component and its
\* state, asks for the tags of the new entity and forgets no request.
OpenTagged ==
  /\ ~Busy
  /\ \E e \in Entities \ {at} :
       /\ at' = e
       /\ requests' = requests \cup {[kind |-> "fetch", entity |-> e, tag |-> None]}
  /\ tags' = [tags EXCEPT !.loading = TRUE]

TypeTag ==
  /\ ~tags.loading /\ ~tags.creating
  /\ \E t \in (Tags \cup {None}) \ {tags.typed} : tags' = [tags EXCEPT !.typed = t]
  /\ UNCHANGED <<at, requests>>

HandleTagCreate ==
  /\ ~tags.loading /\ ~tags.creating /\ tags.typed # None /\ ~Busy
  /\ Len(tags.shown) < MaxTags
  /\ Send("create", tags.typed)
  /\ tags' = [tags EXCEPT !.creating = TRUE]
  /\ UNCHANGED at

HandleTagDelete ==
  /\ ~tags.loading /\ ~Busy
  /\ \E t \in ToSet(tags.shown) \ tags.deleting :
       /\ Send("delete", t)
       /\ tags' = [tags EXCEPT !.deleting = @ \cup {t}]
  /\ UNCHANGED at

\* Each answer, whatever entity is shown by now, and each error.
TagsFetched(r) ==
  \/ \E held \in SUBSET Tags : tags' = [tags EXCEPT !.shown = SetToSeq(held), !.loading = FALSE]
  \/ tags' = [tags EXCEPT !.shown = <<>>, !.loading = FALSE]

TagCreated(r) ==
  \/ tags' = [tags EXCEPT !.shown = Append(@, r.tag), !.typed = None, !.creating = FALSE]
  \/ tags' = [tags EXCEPT !.creating = FALSE]

Without(r) == Filtered(tags.shown, Tags \ {r.tag})

\* A faulty variant: an error leaves the tag marked.
TagDeletedOnly(r) ==
  \/ tags' = [tags EXCEPT !.shown = Without(r), !.deleting = @ \ {r.tag}]
  \/ UNCHANGED tags

TagDeleted(r) ==
  \/ tags' = [tags EXCEPT !.shown = Without(r), !.deleting = @ \ {r.tag}]
  \/ tags' = [tags EXCEPT !.deleting = @ \ {r.tag}]

TagsAnswered ==
  \E r \in requests :
    /\ requests' = requests \ {r}
    /\ \/ r.kind = "fetch" /\ TagsFetched(r)
       \/ r.kind = "create" /\ TagCreated(r)
       \/ r.kind = "delete" /\ TagDeleted(r)
    /\ UNCHANGED at

TagSteps ==
  /\ OpenTagged \/ TypeTag \/ HandleTagCreate \/ HandleTagDelete \/ TagsAnswered
  /\ UNCHANGED <<searched, hash, sort, known, status>>

-----------------------------------------------------------------------------

Init ==
  /\ part \in {"page", "preview", "tags"}
  /\ at \in IF part = "preview" THEN {None} ELSE Entities
  /\ searched \in IF part = "preview" THEN BOOLEAN ELSE {FALSE}
  /\ hash = NewHash
  /\ sort = DefaultSort
  /\ known \in IF part = "page" THEN BOOLEAN ELSE {TRUE}
  /\ status = Unloaded
  /\ tags = NewTags
  /\ requests = IF part = "tags" THEN {[kind |-> "fetch", entity |-> at, tag |-> None]}
                ELSE {}

Views ==
  /\ \/ FetchIfNeeded \/ Answered \/ Outdated \/ HandleTabChange \/ SortColumn \/ OnExpand
     \/ Preview \/ OpenPage
  /\ UNCHANGED <<tags, requests>>

Steps ==
  \/ part \in {"page", "preview"} /\ Views
  \/ part = "tags" /\ TagSteps

Next == Steps /\ UNCHANGED part

Spec == Init /\ [][Next]_vars

-----------------------------------------------------------------------------

TypeOK ==
  /\ {at, hash.preview, hash.expand} \subseteq Entities \cup {None}
  /\ status \in [Parts -> {"new", "asked", "answered"}]
  /\ sort.field \in Fields \cup {"dates"}
  /\ ToSet(tags.shown) \cup tags.deleting \subseteq Tags
  /\ \A r \in requests : r.entity \in Entities

\* Every tab that is drawn has what it shows, or it has been asked for, or
\* the loader will ask for it: EntityViews.jsx draws no tab that
\* EntityContextLoader.jsx does not load, on a page or in a preview.
TabsAreLoaded ==
  \A tab \in DrawnTabs : status[tab.needs] # "new" \/ tab.needs \in Missing

\* A term stands in the address only while something is previewed
\* (togglePreview.js).
TermHasPreview == hash.term => hash.preview # None

\* What is marked as being loaded, made or deleted is on its way: nothing
\* keeps turning once all requests have been answered (EntityTags.tsx).
TagsSettle ==
  /\ tags.loading => \E r \in requests : r.kind = "fetch"
  /\ tags.creating => \E r \in requests : r.kind = "create"
  /\ \A t \in tags.deleting : \E r \in requests : r.kind = "delete" /\ r.tag = t

PageHolds == TabsAreLoaded /\ TermHasPreview /\ TagsSettle

\* An inductive invariant from which TermHasPreview and TagsSettle follow;
\* TabsAreLoaded does from the status having every part.
Modes ==
  {None, "info", "view", "csv-explorer", "text", "translation", "browse", "thread", "tags",
   "mapping", "nearby", "similar", "mentions", "more-like-this", "screening"}
    \cup UNION {ToSet(References[e]) : e \in Entities}

Hashes ==
  [mode : Modes, preview : Entities \cup {None}, previewMode : Modes, term : BOOLEAN,
   expand : Entities \cup {None}]

TypesKept ==
  /\ at \in Entities \cup {None} /\ (part # "preview" => at # None)
  /\ hash \in Hashes /\ searched \in BOOLEAN
  /\ sort \in [field : Fields \cup {"dates"}, direction : {"asc", "desc"}]
  /\ status \in [Parts -> {"new", "asked", "answered"}]
  /\ tags \in [shown : Seq(Tags), loading : BOOLEAN, deleting : SUBSET Tags,
              creating : BOOLEAN, typed : Tags \cup {None}]
  /\ requests \subseteq [kind : {"fetch", "create", "delete"}, entity : Entities,
                        tag : Tags \cup {None}]
  /\ \A r \in requests : r.kind = "create" => r.tag \in Tags

Inv == TypesKept /\ TermHasPreview /\ TagsSettle

\* In a preview with a search query, the text of documents is what is shown
\* first: there is a tab of that name (selectors.js, EntityViews.jsx).
PreviewHasText ==
  IsPreview /\ DrawnTabs # {} => \E tab \in DrawnTabs : tab.id = ActiveMode
=============================================================================
