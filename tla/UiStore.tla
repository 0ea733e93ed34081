------------------------------ MODULE UiStore ------------------------------
(***************************************************************************)
(* The result store of the browser application (ui/src/reducers,           *)
(* ui/src/actions, ui/src/selectors.js).  One query result and one table   *)
(* of objects (a slice of the Redux state) are followed while views fetch  *)
(* pages, users change the server's data, and answers arrive late, out of  *)
(* order, or as errors.  Which slice and which query are followed is       *)
(* chosen in Init, so that one instance covers every reducer.              *)
(***************************************************************************)
EXTENDS Naturals, Sequences, FiniteSets

CONSTANTS
  Slots,        \* requests that can be in flight at the same time
  Undefined,    \* the id of a payload that has no id property
  Id,           \* the object the first row of the query result shows
  PageSize,     \* the query's limit
  Total,        \* rows the query matches on the server
  MaxVersion,   \* bound on the changes made on the server
  Followed      \* the query actions the instance follows

ASSUME StoreAssumption ==
  /\ Undefined # Id
  /\ PageSize \in Nat \ {0} /\ Total \in Nat /\ MaxVersion \in Nat
  /\ IsFiniteSet(Slots)

VARIABLES
  slice,      \* the slice of the state the run follows
  query,      \* the query action whose result the run follows
  result,     \* state.results[query.toKey()]
  objects,    \* state[slice]
  mutation,   \* state.mutation: the time stamps "global" and "bookmarks"
  clock,      \* the browser's clock; only mutations need it to advance
  requests,   \* the requests in flight, by slot
  server,     \* version of the server's data
  acked,      \* newest server version of a mutation the UI has seen succeed
  lostUpdate  \* the object's last update failed

vars == <<slice, query, result, objects, mutation, clock, requests, server,
          acked, lostUpdate>>

Never == 0   \* an undefined time stamp; the clock starts at 1
Free == [type |-> "none", phase |-> "free", id |-> Undefined, offset |-> 0,
         version |-> 0]

-----------------------------------------------------------------------------
(* reducers/util.js: the flags of a stored object or result *)

Absent == [present |-> FALSE, isPending |-> FALSE, isError |-> FALSE,
           shouldLoad |-> FALSE, loadedAt |-> Never, shallow |-> TRUE]

LoadState(o) ==
  [o EXCEPT !.isPending = TRUE, !.shouldLoad = TRUE, !.isError = FALSE]

LoadStartForgets(o) == [isPending |-> TRUE, shouldLoad |-> FALSE]

LoadStart(o) ==
  [o EXCEPT !.present = TRUE, !.isPending = TRUE, !.shouldLoad = FALSE,
            !.isError = FALSE, !.loadedAt = Never]

LoadErrorStaysPending(o) ==
  [o EXCEPT !.present = TRUE, !.shouldLoad = FALSE, !.isError = TRUE]

LoadError(o) ==
  [o EXCEPT !.present = TRUE, !.isPending = FALSE, !.shouldLoad = FALSE,
            !.isError = TRUE, !.loadedAt = Never]

LoadComplete(o, now) ==
  [o EXCEPT !.present = TRUE, !.isPending = FALSE, !.shouldLoad = FALSE,
            !.isError = FALSE, !.loadedAt = now]

ObjectLoadStart(t, id) == [t EXCEPT ![id] = LoadStart(@)]

ObjectLoadError(t, id) == [t EXCEPT ![id] = LoadError(@)]

\* The answer is spread over the old entry: what it leaves out is kept.
ObjectLoadComplete(t, id, shallow, now) ==
  [t EXCEPT ![id] = [LoadComplete(@, now) EXCEPT !.shallow = shallow]]

ObjectDelete(t, id) == [t EXCEPT ![id] = Absent]

\* Every row of a page becomes an object; only the first row is followed.
ResultObjects(t, rows, now) ==
  IF \E i \in DOMAIN rows : rows[i].index = 1
  THEN ObjectLoadComplete(t, Id, TRUE, now) ELSE t

MergeAnyPage(previous, current) ==
  IF ~previous.loaded \/ current.offset = 0 THEN current
  ELSE [current EXCEPT !.rows = previous.rows \o current.rows]

\* A page is appended only when it follows the last one; any other is dropped.
MergeResults(previous, current) ==
  CASE ~previous.loaded \/ current.offset = 0 -> current
    [] previous.loaded /\ current.offset # 0
         /\ current.offset = PageSize + previous.offset ->
         [current EXCEPT !.rows = previous.rows \o current.rows]
    [] OTHER -> previous

-----------------------------------------------------------------------------
(* actions/*.js: what the requests of each file do to the server's data *)

CollectionActions ==
  [reads |-> {"fetchCollection", "fetchCollectionPermissions",
              "fetchCollectionDiscovery"},
   writes |-> {"createCollection", "updateCollection", "deleteCollection",
               "updateCollectionPermissions", "triggerCollectionCancel"},
   queries |-> {"queryCollections", "queryCollectionXref"}]

EntityActions ==
  [reads |-> {"fetchEntity", "fetchEntityTags"},
   writes |-> {"createEntity", "updateEntity", "deleteEntity"},
   queries |-> {"queryEntities", "querySimilar", "queryMoreLikeThis",
                "queryThread", "queryNearby", "queryPercolate",
                "queryMentions", "queryEntityExpand"}]

\* entitySetAddEntity is named CREATE_ENTITY and so raises createEntity's
\* events; its START payload has no id either.
EntitySetActions ==
  [reads |-> {"fetchEntitySet"},
   writes |-> {"createEntitySetMutate", "createEntitySetNoMutate",
               "updateEntitySet", "deleteEntitySet", "createEntity",
               "updateEntitySetItemMutate", "updateEntitySetItemNoMutate"},
   queries |-> {"queryEntitySets", "queryEntitySetEntities",
                "queryEntitySetItems"}]

EntityMappingActions ==
  [reads |-> {"fetchEntityMapping"},
   writes |-> {"createEntityMapping", "updateEntityMapping",
               "deleteEntityMapping", "flushEntityMapping"},
   queries |-> {"queryMappings"}]

ProfileActions ==
  [reads |-> {"fetchProfile", "fetchProfileTags"},
   writes |-> {"pairwiseJudgement"}, queries |-> {"queryProfileExpand"}]

RoleActions ==
  [reads |-> {"fetchRole"}, writes |-> {"updateRole"},
   queries |-> {"queryRoles"}]

AlertActions ==
  [reads |-> {}, writes |-> {"createAlert", "deleteAlert"},
   queries |-> {"queryAlerts"}]

BookmarkActions ==
  [reads |-> {}, writes |-> {"createBookmark", "deleteBookmark"},
   queries |-> {"queryBookmarks"}]

NotificationActions ==
  [reads |-> {}, writes |-> {}, queries |-> {"queryNotifications"}]

ActionFiles ==
  {CollectionActions, EntityActions, EntitySetActions, EntityMappingActions,
   ProfileActions, RoleActions, AlertActions, BookmarkActions,
   NotificationActions}

Writes == UNION {f.writes : f \in ActionFiles}
Reads == UNION {f.reads : f \in ActionFiles}
Queries == UNION {f.queries : f \in ActionFiles}

\* The id the START and ERROR handlers destructure from the action's payload.
StartId(type) ==
  IF type \in {"createEntity", "createCollection",
               "fetchCollectionPermissions", "updateCollectionPermissions"}
  THEN Undefined ELSE Id

\* createCollection reads the id off the response, not off its data.
CompleteId(type) == IF type = "createCollection" THEN Undefined ELSE Id

-----------------------------------------------------------------------------
(* reducers/*.js: how a slice reacts to an event *)

\* An event is [type, phase, offset, rows]; "h" names the actions a slice
\* handles in all three phases, on success only, by deletion, and by query.
\* The entry under the key "undefined" is shown nowhere and not followed.
Reduce(t, e, h, now) ==
  CASE e.phase = "START" /\ e.type \in h.loads /\ StartId(e.type) = Id ->
       ObjectLoadStart(t, Id)
  [] e.phase = "ERROR" /\ e.type \in h.loads \ h.noError
       /\ StartId(e.type) = Id ->
       ObjectLoadError(t, Id)
  [] e.phase = "COMPLETE" /\ e.type \in h.loads \cup h.saves
       /\ CompleteId(e.type) = Id ->
       ObjectLoadComplete(t, Id, e.type \notin Reads, now)
  [] e.phase = "COMPLETE" /\ e.type \in h.deletes ->
       ObjectDelete(t, Id)
  [] e.phase = "COMPLETE" /\ e.type \in h.queries ->
       ResultObjects(t, e.rows, now)
  [] OTHER -> t

Handlers(loads, saves, deletes, queries) ==
  [loads |-> loads, noError |-> {}, saves |-> saves, deletes |-> deletes,
   queries |-> queries]

\* A nested object replaces the entry: nothing of the old one is kept.
NestedEntityObjects(t, rows, now) ==
  ResultObjects([t EXCEPT ![Id] =
    IF \E i \in DOMAIN rows : rows[i].index = 1 THEN Absent ELSE @], rows, now)

\* Only the profile id, or the bookmarked flag, changes; an entry that was
\* never loaded comes into being without any flag.
UpdateEntityProfile(t) == [t EXCEPT ![Id].present = TRUE]

\* updateEntity has no ERROR handler: the entity stays pending.
EntitiesReducer(t, e, now) ==
  CASE e.phase = "START" /\ e.type \in {"createBookmark", "deleteBookmark"} ->
         UpdateEntityProfile(t)
    [] e.phase = "COMPLETE" /\ e.type = "pairwiseJudgement" ->
         UpdateEntityProfile(t)
    [] e.phase = "COMPLETE" /\ e.type \in {"querySimilar", "queryNearby",
              "queryCollectionXref", "queryEntitySetItems"} ->
         NestedEntityObjects(t, e.rows, now)
    [] OTHER ->
         Reduce(t, e,
           [Handlers({"fetchEntity", "createEntity", "updateEntity"}, {},
              {"deleteEntity"},
              {"queryEntities", "queryMoreLikeThis", "queryPercolate",
               "queryMentions", "queryThread", "queryEntitySetEntities"})
            EXCEPT !.noError = {"updateEntity"}], now)

CollectionsReducer(t, e, now) ==
  Reduce(t, e, Handlers({"fetchCollection"},
    {"updateCollection", "createCollection"}, {"deleteCollection"},
    {"queryCollections"}), now)

CollectionPermissionsReducer(t, e, now) ==
  Reduce(t, e, Handlers({"fetchCollectionPermissions"},
    {"updateCollectionPermissions"}, {}, {}), now)

CollectionDiscoveryReducer(t, e, now) ==
  Reduce(t, e, Handlers({"fetchCollectionDiscovery"}, {}, {}, {}), now)

EntitySetsReducer(t, e, now) ==
  Reduce(t, e, Handlers({"fetchEntitySet", "fetchProfile"},
    {"createEntitySetMutate", "createEntitySetNoMutate", "updateEntitySet"},
    {"deleteEntitySet"}, {"queryEntitySets"}), now)

EntitySetItemsReducer(t, e, now) ==
  Reduce(t, e, Handlers({},
    {"updateEntitySetItemMutate", "updateEntitySetItemNoMutate"}, {},
    {"queryEntitySetItems"}), now)

EntityMappingsReducer(t, e, now) ==
  Reduce(t, e, Handlers({"fetchEntityMapping"},
    {"createEntityMapping", "updateEntityMapping"}, {"deleteEntityMapping"},
    {"queryMappings"}), now)

EntityTagsReducer(t, e, now) ==
  Reduce(t, e, Handlers({"fetchEntityTags", "fetchProfileTags"}, {}, {}, {}),
         now)

RolesReducer(t, e, now) ==
  Reduce(t, e, Handlers({"fetchRole"}, {"updateRole"}, {}, {"queryRoles"}),
         now)

RowsReducer(t, e, type, now) == Reduce(t, e, Handlers({}, {}, {}, {type}), now)

RootReducer(s, t, e, now) ==
  CASE s = "entities" -> EntitiesReducer(t, e, now)
    [] s = "collections" -> CollectionsReducer(t, e, now)
    [] s = "collectionPermissions" -> CollectionPermissionsReducer(t, e, now)
    [] s = "collectionDiscovery" -> CollectionDiscoveryReducer(t, e, now)
    [] s = "entitySets" -> EntitySetsReducer(t, e, now)
    [] s = "entitySetItems" -> EntitySetItemsReducer(t, e, now)
    [] s = "entityMappings" -> EntityMappingsReducer(t, e, now)
    [] s = "entityTags" -> EntityTagsReducer(t, e, now)
    [] s = "roles" -> RolesReducer(t, e, now)
    [] s = "notifications" -> RowsReducer(t, e, "queryNotifications", now)
    [] s = "bookmarks" -> RowsReducer(t, e, "queryBookmarks", now)

\* Rows the results slice stores whole; of all others it stores the ids only.
FullQueries == {"querySimilar", "queryNearby", "queryEntityExpand",
                "queryProfileExpand", "queryCollectionXref", "queryAlerts"}

\* state.results: every query action has the three handlers.
ResultsReducer(r, e, now) ==
  CASE e.type # query -> r
    [] e.type = query /\ e.phase = "START" ->
         [r EXCEPT !.flags = LoadStart(@)]
    [] e.type = query /\ e.phase = "ERROR" ->
         [r EXCEPT !.flags = LoadError(@)]
    [] e.type = query /\ e.phase = "COMPLETE" ->
         [page |-> MergeResults(r.page,
                     [loaded |-> TRUE, offset |-> e.offset, rows |-> e.rows]),
          flags |-> LoadComplete(r.flags, now)]

\* The actions after which everything loaded before counts as outdated.
GlobalMutations ==
  {"createCollection", "updateCollection", "deleteCollection",
   "createEntityMapping", "updateEntityMapping", "deleteEntityMapping",
   "triggerCollectionCancel", "updateCollectionPermissions", "createEntity",
   "createEntitySetMutate", "updateEntitySetItemMutate", "deleteEntity",
   "deleteEntitySet", "updateRole", "createAlert", "deleteAlert"}

\* update() without a state also forgets the "bookmarks" time stamp.
MutationReducer(m, e, now) ==
  CASE e.phase = "COMPLETE" /\ e.type \in GlobalMutations ->
         [global |-> now, bookmarks |-> Never]
    [] e.phase = "COMPLETE" /\ e.type \in BookmarkActions.writes ->
         [m EXCEPT !.bookmarks = now]
    [] OTHER -> m

-----------------------------------------------------------------------------
(* selectors.js *)

SelectTimestamp(m, key) ==
  IF key = "bookmarks" /\ m.bookmarks # Never THEN m.bookmarks ELSE m.global

SelectObjectInclusive(o, m, key) ==
  LET isLoadable == ~o.isError /\ ~o.isPending
  IN IF ~o.present THEN LoadState(Absent)
     ELSE [o EXCEPT !.shouldLoad = @ \/
             (isLoadable /\ o.loadedAt # Never /\ o.loadedAt <= m.global)]

SelectObject(o, m, key) ==
  LET isLoadable == ~o.isError /\ ~o.isPending
      outdated == /\ isLoadable /\ o.loadedAt # Never
                  /\ \/ o.loadedAt < m.global
                     \/ o.loadedAt < SelectTimestamp(m, key)
  IN IF ~o.present THEN LoadState(Absent)
     ELSE [o EXCEPT !.shouldLoad = @ \/ outdated]

ShouldLoadDeep(o, m) ==
  LET sel == SelectObject(o, m, "global")
  IN sel.shouldLoad \/ (~o.isError /\ ~o.isPending /\ o.shallow)

MutationKey(type) == IF type = "queryBookmarks" THEN "bookmarks" ELSE "global"

SelectResult(r, m) == SelectObject(r.flags, m, MutationKey(query))

\* expand() drops the rows whose object is gone from the store.
ShownRows(r, t) ==
  {i \in DOMAIN r.page.rows :
     query \in FullQueries \/ t[Id].present \/ r.page.rows[i].index # 1}

-----------------------------------------------------------------------------
(* components/common/QueryInfiniteLoad.jsx *)

CanLoadMore(r, t) ==
  /\ r.page.offset + PageSize < Total
  /\ ~r.flags.isPending /\ ~r.flags.isError
  /\ ShownRows(r, t) # {} /\ Cardinality(ShownRows(r, t)) < Total

-----------------------------------------------------------------------------
(* What the run follows *)

\* The slices, with the actions that touch each of them.
SliceActions(s) ==
  CASE s = "entities" ->
         {"fetchEntity", "createBookmark", "pairwiseJudgement"}
         \cup EntityActions.writes
    [] s = "collections" ->
         {"fetchCollection", "createCollection", "updateCollection",
          "deleteCollection", "triggerCollectionCancel"}
    [] s = "collectionPermissions" ->
         {"fetchCollectionPermissions", "updateCollectionPermissions"}
    [] s = "collectionDiscovery" -> {"fetchCollectionDiscovery"}
    [] s = "entitySets" ->
         {"fetchEntitySet", "fetchProfile"} \cup EntitySetActions.writes
    [] s = "entitySetItems" ->
         {"updateEntitySetItemMutate", "updateEntitySetItemNoMutate"}
    [] s = "entityMappings" ->
         EntityMappingActions.reads \cup EntityMappingActions.writes
    [] s = "entityTags" -> {"fetchEntityTags", "fetchProfileTags"}
    [] s = "roles" -> {"fetchRole", "updateRole"}
    [] s = "notifications" -> {"createAlert", "deleteAlert"}
    [] s = "bookmarks" -> BookmarkActions.writes

\* The queries whose rows end in a slice.
SliceQueries(s) ==
  CASE s = "entities" ->
         {"queryEntities", "querySimilar", "queryMoreLikeThis", "queryThread",
          "queryNearby", "queryPercolate", "queryMentions",
          "queryEntitySetEntities", "queryCollectionXref",
          "queryEntityExpand", "queryProfileExpand"}
    [] s = "entitySetItems" -> {"queryEntitySetItems"}
    [] s = "collections" -> {"queryCollections"}
    [] s = "collectionPermissions" -> {"queryCollections"}
    [] s = "collectionDiscovery" -> {"queryCollections"}
    [] s = "entitySets" -> {"queryEntitySets"}
    [] s = "entityMappings" -> {"queryMappings"}
    [] s = "entityTags" -> {"querySimilar"}
    [] s = "roles" -> {"queryRoles"}
    [] s = "notifications" -> {"queryNotifications", "queryAlerts"}
    [] s = "bookmarks" -> {"queryBookmarks"}

Slices ==
  {"entities", "collections", "collectionPermissions", "collectionDiscovery",
   "entitySets", "entitySetItems", "entityMappings", "entityTags", "roles",
   "notifications", "bookmarks"}

InitialMutation == [global |-> 1, bookmarks |-> Never]

Init ==
  /\ slice \in Slices
  /\ query \in SliceQueries(slice) \cap Followed
  /\ result = [page |-> [loaded |-> FALSE, offset |-> 0, rows |-> << >>],
               flags |-> Absent]
  /\ objects = [i \in {Id} |-> Absent]
  /\ mutation = InitialMutation
  /\ clock = 1
  /\ requests = [s \in Slots |-> Free]
  /\ server = 0 /\ acked = 0
  /\ lostUpdate = FALSE

-----------------------------------------------------------------------------
(* actions/asyncActionCreator.js: an action's three events *)

Event(type, phase, offset, rows) ==
  [type |-> type, phase |-> phase, offset |-> offset, rows |-> rows]

Dispatch(e, now) ==
  /\ objects' = RootReducer(slice, objects, e, now)
  /\ result' = ResultsReducer(result, e, now)
  /\ mutation' = MutationReducer(mutation, e, now)

FreeSlots == {s \in Slots : requests[s] = Free}

\* dispatch START and send: "n" views may do so in the same commit, each from
\* the props it was rendered with.
Send(type, offset, used) ==
  /\ used # {} /\ used \subseteq FreeSlots
  /\ Dispatch(Event(type, "START", offset, << >>), clock)
  /\ requests' = [s \in Slots |-> IF s \in used
       THEN [Free EXCEPT !.type = type, !.phase = "sent", !.offset = offset,
                         !.id = StartId(type)]
       ELSE requests[s]]
  /\ lostUpdate' = (lostUpdate /\ type \notin {"fetchEntity", "updateEntity"})

\* fetchIfNeeded of the views that show the result.
FetchResult(used) ==
  /\ SelectResult(result, mutation).shouldLoad
  /\ Send(query, 0, used)
  /\ UNCHANGED <<slice, query, clock, server, acked>>

\* getMoreResults: the way point scrolls into view, or the button is pressed.
GetMoreResults(s) ==
  /\ CanLoadMore(result, objects)
  /\ Send(query, result.page.offset + PageSize, {s})
  /\ UNCHANGED <<slice, query, clock, server, acked>>

\* fetchIfNeeded of the views that show the object.
FetchObject(type, used) ==
  /\ type \in SliceActions(slice) \cap Reads
  /\ IF slice = "entities" /\ type = "fetchEntity"
     THEN ShouldLoadDeep(objects[Id], mutation)
     ELSE SelectObject(objects[Id], mutation, "global").shouldLoad
  /\ Send(type, 0, used)
  /\ UNCHANGED <<slice, query, clock, server, acked>>

\* The user saves or deletes something.
Submit(type, s) ==
  /\ type \in SliceActions(slice) \cap Writes
  /\ Send(type, 0, {s})
  /\ UNCHANGED <<slice, query, clock, server, acked>>

\* The server handles a request; the answer carries the data of that moment.
Serve(s) ==
  /\ requests[s].phase = "sent"
  /\ requests[s].type \in Writes => server < MaxVersion
  /\ server' = IF requests[s].type \in Writes THEN server + 1 ELSE server
  /\ requests' = [requests EXCEPT ![s].phase = "served",
                                  ![s].version = server']
  /\ UNCHANGED <<slice, query, result, objects, mutation, clock, acked,
                 lostUpdate>>

Rows(offset, version) ==
  LET n == IF offset >= Total THEN 0
           ELSE IF Total - offset < PageSize THEN Total - offset ELSE PageSize
  IN [i \in 1..n |-> [index |-> offset + i, version |-> version]]

\* The answer arrives: COMPLETE.  A mutation may fall into the same
\* millisecond as what came before it.
Complete(s, now) ==
  LET r == requests[s]
      rows == IF r.type \in Queries THEN Rows(r.offset, r.version) ELSE << >>
  IN /\ r.phase = "served"
     /\ now \in IF r.type \in Writes THEN {clock, clock + 1} ELSE {clock}
     /\ Dispatch(Event(r.type, "COMPLETE", r.offset, rows), now)
     /\ clock' = now
     /\ acked' = IF r.type \in GlobalMutations /\ r.version > acked
                 THEN r.version ELSE acked
     /\ requests' = [requests EXCEPT ![s] = Free]
     /\ lostUpdate' = (lostUpdate /\ objects'[Id].isPending)
     /\ UNCHANGED <<slice, query, server>>

\* The request or its answer is lost, or the server refuses: ERROR.
Fail(s) ==
  LET r == requests[s]
  IN /\ r # Free
     /\ Dispatch(Event(r.type, "ERROR", r.offset, << >>), clock)
     /\ requests' = [requests EXCEPT ![s] = Free]
     /\ lostUpdate' = ((lostUpdate \/ r.type = "updateEntity")
                         /\ objects'[Id].isPending)
     /\ UNCHANGED <<slice, query, clock, server, acked>>

Answer(s) ==
  Serve(s) \/ Fail(s) \/ \E now \in {clock, clock + 1} : Complete(s, now)

Next ==
  \/ \E used \in SUBSET Slots : FetchResult(used)
  \/ \E s \in Slots : GetMoreResults(s)
  \/ \E type \in Reads, used \in SUBSET Slots : FetchObject(type, used)
  \/ \E type \in Writes, s \in Slots : Submit(type, s)
  \/ \E s \in Slots : Answer(s)

Spec == Init /\ [][Next]_vars

\* Every request is answered or times out, and React commits what changed
\* (strongly fair because the slots, which the user's requests may keep
\* taking, are a bound of this model and not of the browser).
Fairness ==
  /\ \A s \in Slots : WF_vars(Answer(s))
  /\ SF_vars(\E used \in SUBSET Slots : FetchResult(used))

FairSpec == Spec /\ Fairness

-----------------------------------------------------------------------------
(* Properties *)

Flags == [present : BOOLEAN, isPending : BOOLEAN, isError : BOOLEAN,
          shouldLoad : BOOLEAN, loadedAt : Nat, shallow : BOOLEAN]

\* The type invariant: what reducers/util.js stores for a result and for an
\* object, and the requests actions/asyncActionCreator.js has in flight.
TypeOK ==
  /\ slice \in Slices /\ query \in Queries
  /\ result \in [page : [loaded : BOOLEAN, offset : Nat,
                         rows : Seq([index : Nat, version : Nat])],
                 flags : Flags]
  /\ objects \in [{Id} -> Flags]
  /\ mutation \in [global : Nat, bookmarks : Nat]
  /\ requests \in [Slots -> [type : {"none"} \cup Queries \cup Reads \cup Writes,
                             phase : {"free", "sent", "served"},
                             id : {Id, Undefined},
                             offset : Nat, version : Nat]]
  /\ clock \in Nat /\ server \in Nat /\ acked \in Nat
  /\ lostUpdate \in BOOLEAN

\* Whatever order the pages of a query arrive in, the list mergeResults keeps
\* has neither a gap nor a row twice, and the offset from which the next page
\* is computed agrees with the rows shown (reducers/util.js:5).
PagesContiguous ==
  result.page.loaded =>
    /\ \A i \in DOMAIN result.page.rows : result.page.rows[i].index = i
    /\ Len(result.page.rows) =
         IF Total < result.page.offset + PageSize
         THEN Total ELSE result.page.offset + PageSize

Loads == {"fetchEntity", "updateEntity", "fetchCollection",
          "fetchCollectionDiscovery", "fetchEntitySet", "fetchProfile",
          "fetchEntityMapping", "fetchEntityTags", "fetchProfileTags",
          "fetchRole"}

\* A spinner stands for a request: what the store shows as pending has a
\* request in flight that will end it.  The one exception is an entity whose
\* update failed (reducers/entities.js handles no ERROR of updateEntity).
PendingHasRequest ==
  /\ result.flags.isPending => \E s \in Slots : requests[s].type = query
  /\ objects[Id].isPending =>
       lostUpdate \/ \E s \in Slots : requests[s].type \in Loads

\* What the comment at reducers/mutation.js:45 promises: once an operation
\* that clears the cache has succeeded and nothing is in flight, a result
\* shown as loaded is no older than that operation.
ClearedByMutation ==
  (/\ \A s \in Slots : requests[s] = Free
   /\ result.page.loaded /\ ~result.flags.isError /\ ~result.flags.isPending
   /\ ~SelectResult(result, mutation).shouldLoad)
     => \A i \in DOMAIN result.page.rows : result.page.rows[i].version >= acked

\* Under fair delivery, the list on the screen comes to rest again and again:
\* neither pending nor waiting to be loaded (QueryInfiniteLoad.jsx:27).
ResultSettles ==
  []<>(~result.flags.isPending /\ ~SelectResult(result, mutation).shouldLoad)

\* The status of UiLifecycle as the flags express it.
Status ==
  CASE ~result.flags.present -> "idle"
    [] result.flags.present /\ result.flags.isPending -> "loading"
    [] result.flags.present /\ ~result.flags.isPending
         /\ result.flags.isError -> "failed"
    [] OTHER -> "ready"

Lifecycle ==
  INSTANCE UiLifecycle WITH
    status <- Status,
    shown <- Len(result.page.rows),
    open <- Cardinality({s \in Slots : requests[s].type = query})

\* The flags and rows the store keeps for a query implement the life cycle a
\* view relies on (QueryInfiniteLoad.jsx:34, reducers/util.js:5).
ImplementsLifecycle == Lifecycle!Spec
=============================================================================
