--------------------------- MODULE UiStoreProofs ---------------------------
(* Proofs about UiStore, for any number of requests in flight, any page    *)
(* size and any number of rows: types, contiguous pages, a request behind  *)
(* whatever is pending, and the steps of the life cycle in UiLifecycle.    *)
EXTENDS UiStore, TLAPS, FiniteSetTheorems, SequenceTheorems

ActionNames == Queries \cup Reads \cup Writes
Types == ({query} \cup SliceActions(slice)) \cap ActionNames

\* The result and the slice that are followed belong together, and so do the
\* requests.
Followed_OK ==
  /\ query \in SliceQueries(slice)
  /\ \A s \in Slots : requests[s] = Free \/ requests[s].type \in Types

\* Before the first page has come nothing but first pages are asked for.
FirstPageFirst ==
  ~result.page.loaded =>
    /\ result.page.rows = << >>
    /\ \A s \in Slots : requests[s].type = query => requests[s].offset = 0

Inv ==
  /\ TypeOK /\ Followed_OK /\ FirstPageFirst
  /\ PagesContiguous /\ PendingHasRequest

-----------------------------------------------------------------------------
(* reducers/util.js *)

Row == [index : Nat, version : Nat]
Tables == [{Id} -> Flags]

LEMMA FlagSteps ==
  ASSUME NEW o \in Flags, NEW now \in Nat
  PROVE  /\ LoadStart(o) \in Flags /\ LoadError(o) \in Flags
         /\ LoadComplete(o, now) \in Flags /\ Absent \in Flags
         /\ LoadStart(o).isPending /\ ~LoadError(o).isPending
         /\ ~LoadComplete(o, now).isPending /\ ~Absent.isPending
BY DEF Flags, LoadStart, LoadError, LoadComplete, Absent, Never

LEMMA TableSteps ==
  ASSUME NEW t \in Tables, NEW now \in Nat, NEW shallow \in BOOLEAN
  PROVE  /\ ObjectLoadStart(t, Id) \in Tables
         /\ ObjectLoadError(t, Id) \in Tables
         /\ ObjectLoadComplete(t, Id, shallow, now) \in Tables
         /\ ObjectDelete(t, Id) \in Tables
         /\ UpdateEntityProfile(t) \in Tables
         /\ ~ObjectLoadError(t, Id)[Id].isPending
         /\ ~ObjectLoadComplete(t, Id, shallow, now)[Id].isPending
         /\ ~ObjectDelete(t, Id)[Id].isPending
         /\ UpdateEntityProfile(t)[Id].isPending = t[Id].isPending
<1>1. t[Id] \in Flags
  BY DEF Tables
<1>2. /\ LoadStart(t[Id]) \in Flags /\ LoadError(t[Id]) \in Flags
      /\ LoadComplete(t[Id], now) \in Flags /\ Absent \in Flags
      /\ ~LoadError(t[Id]).isPending /\ ~LoadComplete(t[Id], now).isPending
      /\ ~Absent.isPending
  BY <1>1, FlagSteps
<1>3. /\ [LoadComplete(t[Id], now) EXCEPT !.shallow = shallow] \in Flags
      /\ ~[LoadComplete(t[Id], now) EXCEPT !.shallow = shallow].isPending
  BY <1>2 DEF Flags
<1>4. /\ [t[Id] EXCEPT !.present = TRUE] \in Flags
      /\ [t[Id] EXCEPT !.present = TRUE].isPending = t[Id].isPending
  BY <1>1 DEF Flags
<1>5. /\ ObjectLoadStart(t, Id) \in Tables
      /\ ObjectLoadError(t, Id) \in Tables
      /\ ~ObjectLoadError(t, Id)[Id].isPending
  BY <1>2 DEF Tables, ObjectLoadStart, ObjectLoadError
<1>6. /\ ObjectLoadComplete(t, Id, shallow, now) \in Tables
      /\ ~ObjectLoadComplete(t, Id, shallow, now)[Id].isPending
  BY <1>3 DEF Tables, ObjectLoadComplete
<1>7. /\ ObjectDelete(t, Id) \in Tables /\ ~ObjectDelete(t, Id)[Id].isPending
  BY <1>2 DEF Tables, ObjectDelete
<1>8. /\ UpdateEntityProfile(t) \in Tables
      /\ UpdateEntityProfile(t)[Id].isPending = t[Id].isPending
  BY <1>4 DEF Tables, UpdateEntityProfile
<1>9. QED
  BY <1>5, <1>6, <1>7, <1>8

LEMMA RowSteps ==
  ASSUME NEW t \in Tables, NEW now \in Nat, NEW rows
  PROVE  /\ ResultObjects(t, rows, now) \in Tables
         /\ ResultObjects(t, rows, now)[Id].isPending => t[Id].isPending
         /\ NestedEntityObjects(t, rows, now) \in Tables
         /\ NestedEntityObjects(t, rows, now)[Id].isPending => t[Id].isPending
<1>1. \A u \in Tables : /\ ResultObjects(u, rows, now) \in Tables
                        /\ ResultObjects(u, rows, now)[Id].isPending
                             => u[Id].isPending
  <2> TAKE u \in Tables
  <2>1. /\ ObjectLoadComplete(u, Id, TRUE, now) \in Tables
        /\ ~ObjectLoadComplete(u, Id, TRUE, now)[Id].isPending
    BY TableSteps
  <2>2. QED
    BY <2>1 DEF ResultObjects
<1>2. Absent \in Flags /\ ~Absent.isPending
  BY DEF Flags, Absent, Never
<1> DEFINE u == [t EXCEPT ![Id] =
                   IF \E i \in DOMAIN rows : rows[i].index = 1
                   THEN Absent ELSE @]
<1>3. u \in Tables /\ (u[Id].isPending => t[Id].isPending)
  BY <1>2 DEF Tables
<1> HIDE DEF u
<1>4. NestedEntityObjects(t, rows, now) = ResultObjects(u, rows, now)
  BY DEF NestedEntityObjects, u
<1>5. QED
  BY <1>1, <1>3, <1>4

-----------------------------------------------------------------------------
(* The reducers of the slices *)

\* A slice handles an action in one way only.
OneKind(h) ==
  /\ (h.loads \cup h.saves) \cap (h.deletes \cup h.queries) = {}
  /\ h.deletes \cap h.queries = {}

Events == [type : Queries \cup Reads \cup Writes,
           phase : {"START", "COMPLETE", "ERROR"},
           offset : Nat, rows : Seq(Row)]

LEMMA ReduceSteps ==
  ASSUME NEW t \in Tables, NEW now \in Nat, NEW e \in Events, NEW h,
         OneKind(h)
  PROVE  LET n == Reduce(t, e, h, now)
         IN /\ n \in Tables
            /\ n[Id].isPending =>
                 \/ t[Id].isPending
                 \/ e.phase = "START" /\ e.type \in h.loads
                      /\ StartId(e.type) = Id
            /\ e.phase = "ERROR" /\ e.type \in h.loads \ h.noError
                 /\ StartId(e.type) = Id => ~n[Id].isPending
            /\ e.phase = "COMPLETE" /\ e.type \in h.loads
                 /\ CompleteId(e.type) = Id => ~n[Id].isPending
<1> DEFINE n == Reduce(t, e, h, now)
           A == e.phase = "START" /\ e.type \in h.loads /\ StartId(e.type) = Id
           B == e.phase = "ERROR" /\ e.type \in h.loads \ h.noError
                  /\ StartId(e.type) = Id
           C == e.phase = "COMPLETE" /\ e.type \in h.loads \cup h.saves
                  /\ CompleteId(e.type) = Id
           D == e.phase = "COMPLETE" /\ e.type \in h.deletes
           E == e.phase = "COMPLETE" /\ e.type \in h.queries
<1>1. /\ A => n = ObjectLoadStart(t, Id)
      /\ B => n = ObjectLoadError(t, Id)
      /\ C => n = ObjectLoadComplete(t, Id, e.type \notin Reads, now)
      /\ D => n = ObjectDelete(t, Id)
      /\ E => n = ResultObjects(t, e.rows, now)
      /\ ~A /\ ~B /\ ~C /\ ~D /\ ~E => n = t
  BY DEF Reduce, OneKind
<1>2. /\ ObjectLoadStart(t, Id) \in Tables
      /\ ObjectLoadError(t, Id) \in Tables
      /\ ObjectDelete(t, Id) \in Tables
      /\ ~ObjectLoadError(t, Id)[Id].isPending
      /\ ~ObjectDelete(t, Id)[Id].isPending
  BY TableSteps
<1>3. /\ ObjectLoadComplete(t, Id, e.type \notin Reads, now) \in Tables
      /\ ~ObjectLoadComplete(t, Id, e.type \notin Reads, now)[Id].isPending
  BY TableSteps
<1>4. /\ ResultObjects(t, e.rows, now) \in Tables
      /\ ResultObjects(t, e.rows, now)[Id].isPending => t[Id].isPending
  BY RowSteps
<1> DEFINE Goal == /\ n \in Tables
                   /\ n[Id].isPending => t[Id].isPending \/ A
                   /\ B => ~n[Id].isPending
                   /\ e.phase = "COMPLETE" /\ e.type \in h.loads
                        /\ CompleteId(e.type) = Id => ~n[Id].isPending
<1> HIDE DEF n
<1>5. ASSUME A PROVE Goal
  BY <1>1, <1>2, <1>5
<1>6. ASSUME B PROVE Goal
  BY <1>1, <1>2, <1>6
<1>7. ASSUME C PROVE Goal
  BY <1>1, <1>3, <1>7
<1>8. ASSUME D PROVE Goal
  BY <1>1, <1>2, <1>8 DEF OneKind
<1>9. ASSUME E PROVE Goal
  BY <1>1, <1>4, <1>9 DEF OneKind
<1>10. ASSUME ~A /\ ~B /\ ~C /\ ~D /\ ~E PROVE Goal
  BY <1>1, <1>10
<1>11. QED
  BY <1>5, <1>6, <1>7, <1>8, <1>9, <1>10 DEF n

\* What a slice's table becomes: nothing but an event that starts a load makes
\* the object pending, and the events that end the load make it settled, but
\* for the error of an update.
Settles(t, e, n) ==
  /\ n \in Tables
  /\ n[Id].isPending =>
       /\ t[Id].isPending \/ (e.phase = "START" /\ e.type \in Loads)
       /\ e.phase = "COMPLETE" => e.type \notin Loads
       /\ e.phase = "ERROR" => e.type \notin Loads \/ e.type = "updateEntity"

LEMMA HandlerSettles ==
  ASSUME NEW t \in Tables, NEW now \in Nat, NEW e \in Events, NEW h,
         OneKind(h),
         h.noError \subseteq {"updateEntity"},
         h.loads \subseteq Loads \cup {"createEntity", "fetchCollectionPermissions"},
         e.type \in Loads => e.type \in h.loads
  PROVE  Settles(t, e, Reduce(t, e, h, now))
<1> DEFINE n == Reduce(t, e, h, now)
<1>1. /\ n \in Tables
      /\ n[Id].isPending =>
           \/ t[Id].isPending
           \/ e.phase = "START" /\ e.type \in h.loads /\ StartId(e.type) = Id
      /\ e.phase = "ERROR" /\ e.type \in h.loads \ h.noError
           /\ StartId(e.type) = Id => ~n[Id].isPending
      /\ e.phase = "COMPLETE" /\ e.type \in h.loads
           /\ CompleteId(e.type) = Id => ~n[Id].isPending
  BY ReduceSteps
<1>2. /\ e.type \in Loads => StartId(e.type) = Id /\ CompleteId(e.type) = Id
      /\ e.type \in h.loads /\ StartId(e.type) = Id => e.type \in Loads
  BY StoreAssumption DEF StartId, CompleteId, Loads
<1> HIDE DEF n
<1>3. Settles(t, e, n)
  BY <1>1, <1>2 DEF Settles
<1>4. QED
  BY <1>3 DEF n

LEMMA EntitiesSettle ==
  ASSUME NEW t \in Tables, NEW now \in Nat, NEW e \in Events,
         e.type \in SliceActions("entities") \cup SliceQueries("entities")
  PROVE  Settles(t, e, EntitiesReducer(t, e, now))
<1> DEFINE h == [Handlers({"fetchEntity", "createEntity", "updateEntity"}, {},
                   {"deleteEntity"},
                   {"queryEntities", "queryMoreLikeThis", "queryPercolate",
                    "queryMentions", "queryThread", "queryEntitySetEntities"})
                 EXCEPT !.noError = {"updateEntity"}]
           A == \/ e.phase = "START"
                     /\ e.type \in {"createBookmark", "deleteBookmark"}
                \/ e.phase = "COMPLETE" /\ e.type = "pairwiseJudgement"
           B == e.phase = "COMPLETE" /\ e.type \in {"querySimilar", "queryNearby",
                  "queryCollectionXref", "queryEntitySetItems"}
           n == EntitiesReducer(t, e, now)
<1>1. /\ A => n = UpdateEntityProfile(t)
      /\ B => n = NestedEntityObjects(t, e.rows, now)
      /\ ~A /\ ~B => n = Reduce(t, e, h, now)
  BY DEF EntitiesReducer
<1>2. e.type \in Loads => e.type \in {"fetchEntity", "updateEntity"}
  BY DEF SliceActions, SliceQueries, EntityActions, Loads
<1>3. /\ OneKind(h) /\ h.noError \subseteq {"updateEntity"}
      /\ h.loads = {"fetchEntity", "createEntity", "updateEntity"}
  <2>1. h = [loads |-> {"fetchEntity", "createEntity", "updateEntity"},
             noError |-> {"updateEntity"}, saves |-> {},
             deletes |-> {"deleteEntity"},
             queries |-> {"queryEntities", "queryMoreLikeThis",
                          "queryPercolate", "queryMentions", "queryThread",
                          "queryEntitySetEntities"}]
    BY DEF Handlers
  <2> HIDE DEF h
  <2>2. OneKind(h)
    BY <2>1 DEF OneKind
  <2>3. QED
    BY <2>1, <2>2
<1>4. Settles(t, e, Reduce(t, e, h, now))
  <2> HIDE DEF h
  <2>1. /\ h.loads \subseteq Loads \cup {"createEntity", "fetchCollectionPermissions"}
        /\ e.type \in Loads => e.type \in h.loads
    BY <1>2, <1>3 DEF Loads
  <2>2. QED
    BY <1>3, <2>1, HandlerSettles
<1>5. A => Settles(t, e, UpdateEntityProfile(t))
  <2>1. /\ UpdateEntityProfile(t) \in Tables
        /\ UpdateEntityProfile(t)[Id].isPending = t[Id].isPending
    BY TableSteps
  <2>2. A => e.type \notin Loads
    BY DEF Loads
  <2>3. QED
    BY <2>1, <2>2 DEF Settles
<1>6. B => Settles(t, e, NestedEntityObjects(t, e.rows, now))
  <2>1. /\ NestedEntityObjects(t, e.rows, now) \in Tables
        /\ NestedEntityObjects(t, e.rows, now)[Id].isPending => t[Id].isPending
    BY RowSteps
  <2>2. B => e.type \notin Loads
    BY DEF Loads
  <2>3. QED
    BY <2>1, <2>2 DEF Settles
<1>7. QED
  BY <1>1, <1>4, <1>5, <1>6

LEMMA SimpleSettles ==
  ASSUME NEW t \in Tables, NEW now \in Nat, NEW e \in Events,
         NEW loads, NEW saves, NEW deletes, NEW queries,
         (loads \cup saves) \cap (deletes \cup queries) = {},
         deletes \cap queries = {},
         loads \subseteq Loads \cup {"fetchCollectionPermissions"},
         e.type \in Loads => e.type \in loads
  PROVE  Settles(t, e, Reduce(t, e, Handlers(loads, saves, deletes, queries), now))
<1> DEFINE h == Handlers(loads, saves, deletes, queries)
<1>1. /\ h.loads = loads /\ h.noError = {} /\ h.saves = saves
      /\ h.deletes = deletes /\ h.queries = queries
  BY DEF Handlers
<1> HIDE DEF h
<1>2. /\ OneKind(h) /\ h.noError \subseteq {"updateEntity"}
      /\ h.loads \subseteq Loads \cup {"createEntity", "fetchCollectionPermissions"}
      /\ e.type \in Loads => e.type \in h.loads
  BY <1>1 DEF OneKind
<1>3. QED
  BY <1>2, HandlerSettles DEF h

\* Every slice settles its object.
LEMMA SliceSettles ==
  ASSUME NEW s \in Slices, NEW t \in Tables, NEW now \in Nat, NEW e \in Events,
         e.type \in SliceActions(s) \cup SliceQueries(s)
  PROVE  Settles(t, e, RootReducer(s, t, e, now))
<1>1. CASE s = "entities"
  BY <1>1, EntitiesSettle DEF RootReducer
<1>2. CASE s = "collections"
  <2>1. e.type \in Loads => e.type \in {"fetchCollection"}
    BY <1>2 DEF SliceActions, SliceQueries, Loads, EntitySetActions,
                EntityMappingActions, BookmarkActions
  <2>2. {"fetchCollection"} \subseteq Loads \cup {"fetchCollectionPermissions"}
    BY DEF Loads
  <2>3. Settles(t, e, CollectionsReducer(t, e, now))
    BY <2>1, <2>2, SimpleSettles DEF CollectionsReducer
  <2>4. QED
    BY <1>2, <2>3 DEF RootReducer
<1>3. CASE s = "collectionPermissions"
  <2>1. e.type \in Loads => e.type \in {"fetchCollectionPermissions"}
    BY <1>3 DEF SliceActions, SliceQueries, Loads, EntitySetActions,
                EntityMappingActions, BookmarkActions
  <2>2. {"fetchCollectionPermissions"} \subseteq Loads \cup {"fetchCollectionPermissions"}
    BY DEF Loads
  <2>3. Settles(t, e, CollectionPermissionsReducer(t, e, now))
    BY <2>1, <2>2, SimpleSettles DEF CollectionPermissionsReducer
  <2>4. QED
    BY <1>3, <2>3 DEF RootReducer
<1>4. CASE s = "collectionDiscovery"
  <2>1. e.type \in Loads => e.type \in {"fetchCollectionDiscovery"}
    BY <1>4 DEF SliceActions, SliceQueries, Loads, EntitySetActions,
                EntityMappingActions, BookmarkActions
  <2>2. {"fetchCollectionDiscovery"} \subseteq Loads \cup {"fetchCollectionPermissions"}
    BY DEF Loads
  <2>3. Settles(t, e, CollectionDiscoveryReducer(t, e, now))
    BY <2>1, <2>2, SimpleSettles DEF CollectionDiscoveryReducer
  <2>4. QED
    BY <1>4, <2>3 DEF RootReducer
<1>5. CASE s = "entitySets"
  <2>1. e.type \in Loads => e.type \in {"fetchEntitySet", "fetchProfile"}
    BY <1>5 DEF SliceActions, SliceQueries, Loads, EntitySetActions,
                EntityMappingActions, BookmarkActions
  <2>2. {"fetchEntitySet", "fetchProfile"} \subseteq Loads \cup {"fetchCollectionPermissions"}
    BY DEF Loads
  <2>3. Settles(t, e, EntitySetsReducer(t, e, now))
    BY <2>1, <2>2, SimpleSettles DEF EntitySetsReducer
  <2>4. QED
    BY <1>5, <2>3 DEF RootReducer
<1>6. CASE s = "entitySetItems"
  <2>1. e.type \in Loads => e.type \in {}
    BY <1>6 DEF SliceActions, SliceQueries, Loads, EntitySetActions,
                EntityMappingActions, BookmarkActions
  <2>2. {} \subseteq Loads \cup {"fetchCollectionPermissions"}
    BY DEF Loads
  <2>3. Settles(t, e, EntitySetItemsReducer(t, e, now))
    BY <2>1, <2>2, SimpleSettles DEF EntitySetItemsReducer
  <2>4. QED
    BY <1>6, <2>3 DEF RootReducer
<1>7. CASE s = "entityMappings"
  <2>1. e.type \in Loads => e.type \in {"fetchEntityMapping"}
    BY <1>7 DEF SliceActions, SliceQueries, Loads, EntitySetActions,
                EntityMappingActions, BookmarkActions
  <2>2. {"fetchEntityMapping"} \subseteq Loads \cup {"fetchCollectionPermissions"}
    BY DEF Loads
  <2>3. Settles(t, e, EntityMappingsReducer(t, e, now))
    BY <2>1, <2>2, SimpleSettles DEF EntityMappingsReducer
  <2>4. QED
    BY <1>7, <2>3 DEF RootReducer
<1>8. CASE s = "entityTags"
  <2>1. e.type \in Loads => e.type \in {"fetchEntityTags", "fetchProfileTags"}
    BY <1>8 DEF SliceActions, SliceQueries, Loads, EntitySetActions,
                EntityMappingActions, BookmarkActions
  <2>2. {"fetchEntityTags", "fetchProfileTags"} \subseteq Loads \cup {"fetchCollectionPermissions"}
    BY DEF Loads
  <2>3. Settles(t, e, EntityTagsReducer(t, e, now))
    BY <2>1, <2>2, SimpleSettles DEF EntityTagsReducer
  <2>4. QED
    BY <1>8, <2>3 DEF RootReducer
<1>9. CASE s = "roles"
  <2>1. e.type \in Loads => e.type \in {"fetchRole"}
    BY <1>9 DEF SliceActions, SliceQueries, Loads, EntitySetActions,
                EntityMappingActions, BookmarkActions
  <2>2. {"fetchRole"} \subseteq Loads \cup {"fetchCollectionPermissions"}
    BY DEF Loads
  <2>3. Settles(t, e, RolesReducer(t, e, now))
    BY <2>1, <2>2, SimpleSettles DEF RolesReducer
  <2>4. QED
    BY <1>9, <2>3 DEF RootReducer
<1>10. CASE s = "notifications"
  <2>1. e.type \in Loads => e.type \in {}
    BY <1>10 DEF SliceActions, SliceQueries, Loads, EntitySetActions,
                EntityMappingActions, BookmarkActions
  <2>2. {} \subseteq Loads \cup {"fetchCollectionPermissions"}
    BY DEF Loads
  <2>3. Settles(t, e, RowsReducer(t, e, "queryNotifications", now))
    BY <2>1, <2>2, SimpleSettles DEF RowsReducer
  <2>4. QED
    BY <1>10, <2>3 DEF RootReducer
<1>11. CASE s = "bookmarks"
  <2>1. e.type \in Loads => e.type \in {}
    BY <1>11 DEF SliceActions, SliceQueries, Loads, EntitySetActions,
                EntityMappingActions, BookmarkActions
  <2>2. {} \subseteq Loads \cup {"fetchCollectionPermissions"}
    BY DEF Loads
  <2>3. Settles(t, e, RowsReducer(t, e, "queryBookmarks", now))
    BY <2>1, <2>2, SimpleSettles DEF RowsReducer
  <2>4. QED
    BY <1>11, <2>3 DEF RootReducer
<1>12. QED
  BY <1>1, <1>2, <1>3, <1>4, <1>5, <1>6, <1>7, <1>8, <1>9, <1>10, <1>11 DEF Slices

-----------------------------------------------------------------------------
(* Pages *)

Page == [loaded : BOOLEAN, offset : Nat, rows : Seq(Row)]
AtMostTotal(n) == IF Total < n THEN Total ELSE n

Contiguous(p) ==
  p.loaded =>
    /\ \A i \in DOMAIN p.rows : p.rows[i].index = i
    /\ Len(p.rows) = AtMostTotal(p.offset + PageSize)

LEMMA RowsOfPage ==
  ASSUME NEW offset \in Nat, NEW version \in Nat
  PROVE  /\ Rows(offset, version) \in Seq(Row)
         /\ Len(Rows(offset, version)) = IF offset >= Total THEN 0
                                         ELSE AtMostTotal(offset + PageSize) - offset
         /\ \A i \in DOMAIN Rows(offset, version) :
              Rows(offset, version)[i].index = offset + i
<1> DEFINE n == IF offset >= Total THEN 0
                ELSE IF Total - offset < PageSize THEN Total - offset
                ELSE PageSize
           f == [i \in 1..n |-> [index |-> offset + i, version |-> version]]
<1>1. n \in Nat /\ n = IF offset >= Total THEN 0
                       ELSE AtMostTotal(offset + PageSize) - offset
  BY StoreAssumption DEF AtMostTotal
<1> HIDE DEF n
<1>2. \A i \in 1..n : [index |-> offset + i, version |-> version] \in Row
  BY <1>1 DEF Row
<1>3. f \in Seq(Row) /\ Len(f) = n
  BY <1>1, <1>2, IsASeq
<1>4. \A i \in DOMAIN f : f[i].index = offset + i
  OBVIOUS
<1>5. Rows(offset, version) = f
  BY DEF Rows, n
<1>6. QED
  BY <1>1, <1>3, <1>4, <1>5

LEMMA MergeSteps ==
  ASSUME NEW p \in Page, NEW offset \in Nat, NEW version \in Nat,
         Contiguous(p), ~p.loaded => offset = 0
  PROVE  LET c == [loaded |-> TRUE, offset |-> offset, rows |-> Rows(offset, version)]
             m == MergeResults(p, c)
         IN /\ m \in Page /\ m.loaded /\ Contiguous(m)
            /\ Len(m.rows) \in {Len(p.rows), AtMostTotal(Len(p.rows) + PageSize),
                                AtMostTotal(PageSize)}
<1> DEFINE rows == Rows(offset, version)
           c == [loaded |-> TRUE, offset |-> offset, rows |-> rows]
           m == MergeResults(p, c)
           Goal == /\ m \in Page /\ m.loaded /\ Contiguous(m)
                   /\ Len(m.rows) \in {Len(p.rows), AtMostTotal(Len(p.rows) + PageSize),
                                       AtMostTotal(PageSize)}
<1>1. /\ rows \in Seq(Row)
      /\ Len(rows) = IF offset >= Total THEN 0
                     ELSE AtMostTotal(offset + PageSize) - offset
      /\ \A i \in DOMAIN rows : rows[i].index = offset + i
  BY RowsOfPage
<1>2. /\ offset = 0 => m = c
      /\ p.loaded /\ offset # 0 /\ offset = PageSize + p.offset
           => m = [loaded |-> TRUE, offset |-> offset, rows |-> p.rows \o rows]
      /\ p.loaded /\ offset # 0 /\ offset # PageSize + p.offset => m = p
  BY DEF MergeResults
<1>3. p.rows \in Seq(Row) /\ p.offset \in Nat
  BY DEF Page
<1> HIDE DEF rows, m
<1>4. ASSUME offset = 0 PROVE Goal
  <2>1. /\ m.rows = rows /\ m.loaded = TRUE /\ m.offset = 0 /\ m \in Page
    <3>1. m = [loaded |-> TRUE, offset |-> offset, rows |-> rows]
      BY <1>2, <1>4
    <3>2. QED
      BY <1>1, <1>4, <3>1 DEF Page
  <2>2. Len(rows) = AtMostTotal(PageSize)
    BY <1>1, <1>4, StoreAssumption DEF AtMostTotal
  <2>3. \A i \in DOMAIN rows : rows[i].index = i
    <3> TAKE i \in DOMAIN rows
    <3>1. i \in Nat /\ rows[i].index = offset + i
      BY <1>1
    <3>2. QED
      BY <3>1, <1>4
  <2>4. AtMostTotal(0 + PageSize) = AtMostTotal(PageSize)
    BY StoreAssumption
  <2>5. QED
    BY <2>1, <2>2, <2>3, <2>4 DEF Contiguous
<1>5. ASSUME p.loaded, offset # 0, offset = PageSize + p.offset PROVE Goal
  <2> DEFINE all == p.rows \o rows
  <2>0. /\ all \in Seq(Row)
        /\ Len(all) = Len(p.rows) + Len(rows)
        /\ \A i \in 1..Len(p.rows) + Len(rows) : all[i] =
             IF i <= Len(p.rows) THEN p.rows[i] ELSE rows[i - Len(p.rows)]
    <3> DEFINE old == p.rows
    <3>1. old \in Seq(Row) /\ rows \in Seq(Row)
      BY <1>1, <1>3
    <3> HIDE DEF old
    <3>2. /\ old \o rows \in Seq(Row)
          /\ Len(old \o rows) = Len(old) + Len(rows)
          /\ \A i \in 1..Len(old) + Len(rows) : (old \o rows)[i] =
               IF i <= Len(old) THEN old[i] ELSE rows[i - Len(old)]
      BY <3>1, ConcatProperties, Zenon
    <3>3. QED
      BY <3>2 DEF old
  <2>1. /\ m.rows = all /\ m.loaded = TRUE /\ m.offset = offset
        /\ all \in Seq(Row) /\ m \in Page
    <3>1. m = [loaded |-> TRUE, offset |-> offset, rows |-> all]
      BY <1>2, <1>5
    <3> HIDE DEF all
    <3>2. QED
      BY <2>0, <3>1 DEF Page
  <2>2. /\ \A i \in DOMAIN p.rows : p.rows[i].index = i
        /\ Len(p.rows) = AtMostTotal(offset)
    <3>1. p.offset + PageSize = offset
      BY <1>3, <1>5, StoreAssumption
    <3>2. QED
      BY <1>5, <3>1 DEF Contiguous
  <2> HIDE DEF all
  <2>3. /\ Len(all) = Len(p.rows) + Len(rows)
        /\ \A i \in 1..Len(all) : all[i] =
             IF i <= Len(p.rows) THEN p.rows[i] ELSE rows[i - Len(p.rows)]
    BY <2>0
  <2>4. /\ Len(all) = AtMostTotal(offset + PageSize)
        /\ AtMostTotal(Len(p.rows) + PageSize) = Len(all)
    BY <1>1, <2>2, <2>3, StoreAssumption DEF AtMostTotal
  <2>5. ASSUME NEW i \in DOMAIN all PROVE all[i].index = i
    <3>1. i \in 1..Len(all) /\ i \in Nat /\ Len(p.rows) \in Nat /\ Len(rows) \in Nat
      BY <1>1, <1>3, <2>1, <2>5
    <3>2. CASE i <= Len(p.rows)
      <4>1. i \in DOMAIN p.rows /\ all[i] = p.rows[i]
        BY <1>3, <2>3, <3>1, <3>2
      <4>2. QED
        BY <2>2, <4>1
    <3>3. CASE ~(i <= Len(p.rows))
      <4>1. /\ i - Len(p.rows) \in DOMAIN rows
            /\ all[i] = rows[i - Len(p.rows)]
        <5>1. all[i] = rows[i - Len(p.rows)]
          BY <2>3, <3>1, <3>3
        <5>2. i - Len(p.rows) \in 1..Len(rows)
          BY <2>3, <3>1, <3>3
        <5>3. DOMAIN rows = 1..Len(rows)
          BY <1>1
        <5>4. QED
          BY <5>1, <5>2, <5>3
      <4>2. Len(rows) # 0
        BY <2>3, <3>1, <3>3
      <4>3. Len(p.rows) = offset
        BY <1>1, <2>2, <4>2, StoreAssumption DEF AtMostTotal
      <4>4. rows[i - Len(p.rows)].index = offset + (i - Len(p.rows))
        BY <1>1, <4>1
      <4>5. QED
        BY <3>1, <4>1, <4>3, <4>4
    <3>4. QED
      BY <3>2, <3>3
  <2>6. QED
    BY <2>1, <2>4, <2>5 DEF Contiguous
<1>6. ASSUME p.loaded, offset # 0, offset # PageSize + p.offset PROVE Goal
  BY <1>2, <1>6
<1>7. QED
  BY <1>4, <1>5, <1>6 DEF m, rows

-----------------------------------------------------------------------------
(* The names of the actions *)

LEMMA QueryNames ==
  Queries = {"queryCollections", "queryCollectionXref", "queryEntities",
             "querySimilar", "queryMoreLikeThis", "queryThread",
             "queryNearby", "queryPercolate", "queryMentions",
             "queryEntityExpand", "queryEntitySets", "queryEntitySetEntities",
             "queryEntitySetItems", "queryMappings", "queryProfileExpand",
             "queryRoles", "queryAlerts", "queryBookmarks",
             "queryNotifications"}
<1>1. \A x : x \in Queries <=>
        \/ x \in CollectionActions.queries \/ x \in EntityActions.queries
        \/ x \in EntitySetActions.queries \/ x \in EntityMappingActions.queries
        \/ x \in ProfileActions.queries \/ x \in RoleActions.queries
        \/ x \in AlertActions.queries \/ x \in BookmarkActions.queries
        \/ x \in NotificationActions.queries
  BY Zenon DEF Queries, ActionFiles
<1>2. QED
  BY <1>1 DEF CollectionActions, EntityActions, EntitySetActions,
       EntityMappingActions, ProfileActions, RoleActions, AlertActions,
       BookmarkActions, NotificationActions

LEMMA SliceNames ==
  ASSUME NEW s \in Slices
  PROVE  /\ SliceQueries(s) \subseteq Queries
         /\ SliceActions(s) \cap SliceQueries(s) = {}
<1>1. CASE s = "entities"
  <2>1. SliceQueries("entities") \subseteq Queries
    BY QueryNames DEF SliceQueries
  <2>2. SliceActions("entities") \cap SliceQueries("entities") = {}
    BY DEF SliceQueries, SliceActions,
           EntityActions
  <2>3. QED
    BY <1>1, <2>1, <2>2
<1>2. CASE s = "collections"
  <2>1. SliceQueries("collections") \subseteq Queries
    BY QueryNames DEF SliceQueries
  <2>2. SliceActions("collections") \cap SliceQueries("collections") = {}
    BY DEF SliceQueries, SliceActions
  <2>3. QED
    BY <1>2, <2>1, <2>2
<1>3. CASE s = "collectionPermissions"
  <2>1. SliceQueries("collectionPermissions") \subseteq Queries
    BY QueryNames DEF SliceQueries
  <2>2. SliceActions("collectionPermissions") \cap SliceQueries("collectionPermissions") = {}
    BY DEF SliceQueries, SliceActions
  <2>3. QED
    BY <1>3, <2>1, <2>2
<1>4. CASE s = "collectionDiscovery"
  <2>1. SliceQueries("collectionDiscovery") \subseteq Queries
    BY QueryNames DEF SliceQueries
  <2>2. SliceActions("collectionDiscovery") \cap SliceQueries("collectionDiscovery") = {}
    BY DEF SliceQueries, SliceActions
  <2>3. QED
    BY <1>4, <2>1, <2>2
<1>5. CASE s = "entitySets"
  <2>1. SliceQueries("entitySets") \subseteq Queries
    BY QueryNames DEF SliceQueries
  <2>2. SliceActions("entitySets") \cap SliceQueries("entitySets") = {}
    BY DEF SliceQueries, SliceActions,
           EntitySetActions
  <2>3. QED
    BY <1>5, <2>1, <2>2
<1>6. CASE s = "entitySetItems"
  <2>1. SliceQueries("entitySetItems") \subseteq Queries
    BY QueryNames DEF SliceQueries
  <2>2. SliceActions("entitySetItems") \cap SliceQueries("entitySetItems") = {}
    BY DEF SliceQueries, SliceActions
  <2>3. QED
    BY <1>6, <2>1, <2>2
<1>7. CASE s = "entityMappings"
  <2>1. SliceQueries("entityMappings") \subseteq Queries
    BY QueryNames DEF SliceQueries
  <2>2. SliceActions("entityMappings") \cap SliceQueries("entityMappings") = {}
    BY DEF SliceQueries, SliceActions,
           EntityMappingActions
  <2>3. QED
    BY <1>7, <2>1, <2>2
<1>8. CASE s = "entityTags"
  <2>1. SliceQueries("entityTags") \subseteq Queries
    BY QueryNames DEF SliceQueries
  <2>2. SliceActions("entityTags") \cap SliceQueries("entityTags") = {}
    BY DEF SliceQueries, SliceActions
  <2>3. QED
    BY <1>8, <2>1, <2>2
<1>9. CASE s = "roles"
  <2>1. SliceQueries("roles") \subseteq Queries
    BY QueryNames DEF SliceQueries
  <2>2. SliceActions("roles") \cap SliceQueries("roles") = {}
    BY DEF SliceQueries, SliceActions
  <2>3. QED
    BY <1>9, <2>1, <2>2
<1>10. CASE s = "notifications"
  <2>1. SliceQueries("notifications") \subseteq Queries
    BY QueryNames DEF SliceQueries
  <2>2. SliceActions("notifications") \cap SliceQueries("notifications") = {}
    BY DEF SliceQueries, SliceActions
  <2>3. QED
    BY <1>10, <2>1, <2>2
<1>11. CASE s = "bookmarks"
  <2>1. SliceQueries("bookmarks") \subseteq Queries
    BY QueryNames DEF SliceQueries
  <2>2. SliceActions("bookmarks") \cap SliceQueries("bookmarks") = {}
    BY DEF SliceQueries, SliceActions,
           BookmarkActions
  <2>3. QED
    BY <1>11, <2>1, <2>2
<1>12. QED
  BY <1>1, <1>2, <1>3, <1>4, <1>5, <1>6, <1>7, <1>8, <1>9, <1>10, <1>11 DEF Slices

LEMMA Named ==
  ASSUME NEW s \in Slices, NEW q \in SliceQueries(s)
  PROVE  q \in Queries /\ q # "none" /\ q \notin SliceActions(s)
<1>1. q \in Queries /\ q \notin SliceActions(s)
  BY SliceNames
<1>2. "none" \notin Queries
  BY QueryNames
<1>3. QED
  BY <1>1, <1>2

-----------------------------------------------------------------------------
(* The result that is followed *)

LEMMA ResultSteps ==
  ASSUME TypeOK, PagesContiguous,
         NEW e \in Events, NEW now \in Nat, NEW version \in Nat,
         e.phase = "COMPLETE" /\ e.type = query =>
           /\ e.rows = Rows(e.offset, version)
           /\ ~result.page.loaded => e.offset = 0
  PROVE  LET n == ResultsReducer(result, e, now)
         IN /\ n.flags \in Flags /\ n.page \in Page /\ Contiguous(n.page)
            /\ n.flags.isPending =>
                 IF e.type = query THEN e.phase = "START"
                 ELSE result.flags.isPending
            /\ e.type # query => n = result
            /\ e.phase # "COMPLETE" => n.page = result.page
            /\ e.phase = "COMPLETE" /\ e.type = query =>
                 /\ n.page.loaded
                 /\ n.flags = LoadComplete(result.flags, now)
                 /\ Len(n.page.rows) \in
                      {Len(result.page.rows),
                       AtMostTotal(Len(result.page.rows) + PageSize),
                       AtMostTotal(PageSize)}
            /\ e.phase = "START" /\ e.type = query =>
                 n.flags = LoadStart(result.flags)
            /\ e.phase = "ERROR" /\ e.type = query =>
                 n.flags = LoadError(result.flags)
<1> DEFINE n == ResultsReducer(result, e, now)
           p == result.page
           f == result.flags
           c == [loaded |-> TRUE, offset |-> e.offset, rows |-> e.rows]
           m == MergeResults(p, c)
<1>1. /\ f \in Flags /\ p \in Page /\ Contiguous(p)
      /\ e.phase \in {"START", "COMPLETE", "ERROR"} /\ e.offset \in Nat
  BY DEF TypeOK, Page, Row, PagesContiguous, Contiguous, AtMostTotal, Events
<1>2. /\ LoadStart(f) \in Flags /\ LoadError(f) \in Flags
      /\ LoadComplete(f, now) \in Flags
      /\ ~LoadError(f).isPending /\ ~LoadComplete(f, now).isPending
  BY <1>1, FlagSteps
<1>3. CASE e.type # query
  <2>1. n = result
    BY <1>3 DEF ResultsReducer
  <2>2. QED
    BY <1>1, <1>3, <2>1
<1>4. CASE e.type = query /\ e.phase = "START"
  <2>1. n.page = p /\ n.flags = LoadStart(f)
    BY <1>4 DEF ResultsReducer, TypeOK
  <2>2. QED
    BY <1>1, <1>2, <1>4, <2>1
<1>5. CASE e.type = query /\ e.phase = "ERROR"
  <2>1. n.page = p /\ n.flags = LoadError(f)
    BY <1>5 DEF ResultsReducer, TypeOK
  <2>2. QED
    BY <1>1, <1>2, <1>5, <2>1
<1>6. CASE e.type = query /\ e.phase = "COMPLETE"
  <2>1. n.page = m /\ n.flags = LoadComplete(f, now)
    BY <1>6 DEF ResultsReducer
  <2>2. /\ m \in Page /\ m.loaded /\ Contiguous(m)
        /\ Len(m.rows) \in {Len(p.rows), AtMostTotal(Len(p.rows) + PageSize),
                            AtMostTotal(PageSize)}
    <3>1. ~p.loaded => e.offset = 0
      BY <1>6
    <3>2. e.rows = Rows(e.offset, version)
      BY <1>6
    <3>3. QED
      BY <1>1, <3>1, <3>2, MergeSteps
  <2>3. QED
    BY <1>2, <1>6, <2>1, <2>2
<1>7. QED
  BY <1>1, <1>3, <1>4, <1>5, <1>6

-----------------------------------------------------------------------------
(* The events *)

LEMMA DispatchSteps ==
  ASSUME Inv, NEW e \in Events, e.type \in Types, NEW now \in Nat,
         Dispatch(e, now)
  PROVE  /\ Settles(objects, e, objects')
         /\ mutation' \in [global : Nat, bookmarks : Nat]
<1>1. slice \in Slices /\ objects \in Tables /\ mutation \in [global : Nat, bookmarks : Nat]
  BY DEF Inv, TypeOK, Tables
<1>2. e.type \in SliceActions(slice) \cup SliceQueries(slice)
  BY DEF Inv, Followed_OK, Types
<1>3. Settles(objects, e, RootReducer(slice, objects, e, now))
  BY <1>1, <1>2, SliceSettles
<1>4. MutationReducer(mutation, e, now) \in [global : Nat, bookmarks : Nat]
  BY <1>1 DEF MutationReducer, Never
<1>5. QED
  BY <1>3, <1>4 DEF Dispatch

Request == [type : {"none"} \cup ActionNames,
            phase : {"free", "sent", "served"}, id : {Id, Undefined},
            offset : Nat, version : Nat]
Sent(type, offset) ==
  [Free EXCEPT !.type = type, !.phase = "sent", !.offset = offset,
               !.id = StartId(type)]

LEMMA RequestsTyped ==
  ASSUME TypeOK
  PROVE  requests \in [Slots -> Request]
<1>1. {"none"} \cup ActionNames = {"none"} \cup Queries \cup Reads \cup Writes
  BY DEF ActionNames
<1>2. QED
  BY <1>1 DEF TypeOK, Request

LEMMA SentSteps ==
  ASSUME NEW type \in ActionNames, NEW offset \in Nat
  PROVE  /\ Sent(type, offset) \in Request
         /\ Sent(type, offset).type = type
         /\ Sent(type, offset).offset = offset
<1>1. Free \in Request
  BY DEF Free, Request
<1>2. StartId(type) \in {Id, Undefined}
  BY DEF StartId
<1>3. ASSUME NEW r \in Request, NEW id \in {Id, Undefined}
      PROVE  LET n == [r EXCEPT !.type = type, !.phase = "sent",
                                !.offset = offset, !.id = id]
             IN n \in Request /\ n.type = type /\ n.offset = offset
  BY DEF Request
<1>4. QED
  BY <1>1, <1>2, <1>3, Zenon DEF Sent

LEMMA SendSteps ==
  ASSUME Inv, NEW type, type \in Types, NEW offset \in Nat,
         NEW used \in SUBSET Slots, Send(type, offset, used),
         type = query /\ ~result.page.loaded => offset = 0,
         UNCHANGED <<slice, query, clock, server, acked>>
  PROVE  Inv'
<1> DEFINE e == Event(type, "START", offset, << >>)
<1>1. /\ e \in Events /\ e.type = type /\ e.phase = "START"
  <2>1. << >> \in Seq(Row)
    BY EmptySeq
  <2>2. QED
    BY <2>1 DEF Event, Events, ActionNames, Types
<1>2. Dispatch(e, clock) /\ clock \in Nat /\ e.type \in Types
  BY <1>1 DEF Send, Inv, TypeOK, ActionNames, Types
<1>3. /\ Settles(objects, e, objects')
      /\ mutation' \in [global : Nat, bookmarks : Nat]
  BY <1>1, <1>2, DispatchSteps
<1>4. result' = ResultsReducer(result, e, clock)
  BY <1>2 DEF Dispatch
<1>5. /\ result'.flags \in Flags /\ result'.page = result.page
      /\ result'.flags.isPending => e.type = query \/ result.flags.isPending
      /\ result' \in [page : Page, flags : Flags]
  <2>1. TypeOK /\ PagesContiguous
    BY DEF Inv
  <2>2. ~(e.phase = "COMPLETE" /\ e.type = query)
    BY <1>1
  <2>3. LET n == ResultsReducer(result, e, clock)
        IN /\ n.flags \in Flags
           /\ n.flags.isPending => IF e.type = query THEN e.phase = "START"
                                   ELSE result.flags.isPending
           /\ e.phase # "COMPLETE" => n.page = result.page
    BY <1>1, <1>2, <2>1, <2>2, ResultSteps
  <2>4. /\ result'.flags \in Flags /\ result'.page = result.page
        /\ result'.flags.isPending => e.type = query \/ result.flags.isPending
    BY <1>1, <1>4, <2>3
  <2>5. ResultsReducer(result, e, clock) \in [page : Page, flags : Flags]
    <3>1. result \in [page : Page, flags : Flags]
      BY <2>1 DEF TypeOK, Page, Row
    <3>2. LoadStart(result.flags) \in Flags
      BY <3>1, FlagSteps, <1>2
    <3>3. \/ ResultsReducer(result, e, clock) = result
          \/ ResultsReducer(result, e, clock)
               = [result EXCEPT !.flags = LoadStart(@)]
      BY <1>1 DEF ResultsReducer
    <3>4. QED
      BY <3>1, <3>2, <3>3
  <2>6. QED
    BY <1>4, <2>4, <2>5
<1> DEFINE new == Sent(type, offset)
<1>6. /\ requests' = [s \in Slots |-> IF s \in used THEN new ELSE requests[s]]
      /\ new \in Request /\ new.type = type /\ new.offset = offset
  <2>1. requests' = [s \in Slots |-> IF s \in used THEN new ELSE requests[s]]
    BY DEF Send, Sent
  <2>2. QED
    BY <2>1, SentSteps DEF Types, ActionNames
<1> HIDE DEF new
<1>7. /\ used # {} /\ \A s \in used : requests[s] = Free
      /\ lostUpdate' = (lostUpdate /\ type \notin {"fetchEntity", "updateEntity"})
      /\ DOMAIN requests' = Slots
  BY DEF Send, FreeSlots
<1>8. query # "none" /\ "none" \notin Loads
  <2>1. slice \in Slices /\ query \in SliceQueries(slice)
    BY DEF Inv, TypeOK, Followed_OK
  <2>2. query # "none"
    BY <2>1, Named
  <2>3. "none" \notin Loads
    BY DEF Loads
  <2>4. QED
    BY <2>2, <2>3
<1>9. TypeOK'
  <2>1. requests' \in [Slots -> Request]
    <3>1. requests \in [Slots -> Request]
      BY RequestsTyped DEF Inv
    <3>2. QED
      BY <1>6, <3>1
  <2>2. lostUpdate' \in BOOLEAN
    BY <1>7 DEF Inv, TypeOK
  <2>3. objects' \in [{Id} -> Flags]
    BY <1>3 DEF Settles, Tables
  <2>4. QED
    BY <1>3, <1>5, <2>1, <2>2, <2>3 DEF Inv, TypeOK, Page, Row, Request,
           ActionNames
<1>10. Followed_OK'
  <2>1. Types' = Types
    BY DEF Types
  <2>2. \A s \in Slots : requests'[s] = Free \/ requests'[s].type \in Types
    BY <1>6 DEF Inv, Followed_OK, ActionNames, Types
  <2>3. QED
    BY <2>1, <2>2 DEF Inv, Followed_OK
<1>11. FirstPageFirst'
  BY <1>5, <1>6 DEF Inv, FirstPageFirst
<1>12. PagesContiguous'
  BY <1>5 DEF Inv, PagesContiguous
<1>13. PendingHasRequest'
  <2>1. ASSUME result'.flags.isPending
        PROVE \E s \in Slots : requests'[s].type = query
    <3>1. CASE type = query
      BY <1>6, <1>7, <3>1
    <3>2. CASE type # query
      <4>1. PICK s \in Slots : requests[s].type = query
        BY <1>1, <1>5, <2>1, <3>2 DEF Inv, PendingHasRequest
      <4>2. s \notin used
        BY <1>7, <1>8, <4>1 DEF Free
      <4>3. QED
        BY <1>6, <4>1, <4>2
    <3>3. QED
      BY <3>1, <3>2
  <2>2. ASSUME objects'[Id].isPending
        PROVE lostUpdate' \/ \E s \in Slots : requests'[s].type \in Loads
    <3>1. CASE type \in Loads
      BY <1>6, <1>7, <3>1
    <3>2. CASE type \notin Loads
      <4>1. objects[Id].isPending
        BY <1>1, <1>3, <2>2, <3>2 DEF Settles
      <4>2. CASE lostUpdate
        BY <1>7, <3>2, <4>2 DEF Loads
      <4>3. CASE ~lostUpdate
        <5>1. PICK s \in Slots : requests[s].type \in Loads
          BY <4>1, <4>3 DEF Inv, PendingHasRequest
        <5>2. s \notin used
          BY <1>7, <1>8, <5>1 DEF Free
        <5>3. QED
          BY <1>6, <5>1, <5>2
      <4>4. QED
        BY <4>2, <4>3
    <3>3. QED
      BY <3>1, <3>2
  <2>3. QED
    BY <2>1, <2>2 DEF PendingHasRequest
<1>14. QED
  BY <1>9, <1>10, <1>11, <1>12, <1>13 DEF Inv

\* An answer ends its request; the rest of the invariant follows from what the
\* event does to the result and the object.
LEMMA AnswerSteps ==
  ASSUME Inv, NEW s \in Slots, NEW e \in Events, NEW now \in Nat,
         requests[s] # Free,
         e.type = requests[s].type, e.offset = requests[s].offset,
         e.phase \in {"COMPLETE", "ERROR"},
         e.phase = "COMPLETE" /\ e.type = query =>
           e.rows = Rows(e.offset, requests[s].version),
         Dispatch(e, now), clock' = now, acked' \in Nat,
         requests' = [requests EXCEPT ![s] = Free],
         lostUpdate' \in BOOLEAN,
         lostUpdate /\ objects'[Id].isPending => lostUpdate',
         (/\ e.phase = "ERROR" /\ e.type = "updateEntity"
          /\ objects'[Id].isPending) => lostUpdate',
         UNCHANGED <<slice, query, server>>
  PROVE  Inv'
<1>1. /\ TypeOK /\ PagesContiguous /\ requests[s].version \in Nat
      /\ requests[s].type \in Types
  <2>1. requests[s] \in Request
    BY RequestsTyped DEF Inv
  <2>2. QED
    BY <2>1 DEF Inv, Followed_OK, Request
<1>2. /\ Settles(objects, e, objects')
      /\ mutation' \in [global : Nat, bookmarks : Nat]
  BY <1>1, DispatchSteps
<1>3. result' = ResultsReducer(result, e, now)
  BY DEF Dispatch
<1>4. ~result.page.loaded /\ e.type = query => e.offset = 0
  BY DEF Inv, FirstPageFirst
<1>5. /\ result'.flags \in Flags /\ result'.page \in Page
      /\ Contiguous(result'.page)
      /\ result'.flags.isPending =>
           result.flags.isPending /\ e.type # query
      /\ ~result'.page.loaded => result'.page = result.page
      /\ result' \in [page : Page, flags : Flags]
  <2> DEFINE n == ResultsReducer(result, e, now)
  <2>1. /\ n.flags \in Flags /\ n.page \in Page /\ Contiguous(n.page)
        /\ n.flags.isPending =>
             IF e.type = query THEN e.phase = "START"
             ELSE result.flags.isPending
        /\ e.type # query => n = result
        /\ e.phase # "COMPLETE" => n.page = result.page
        /\ e.phase = "COMPLETE" /\ e.type = query => n.page.loaded
    BY <1>1, <1>4, ResultSteps
  <2>2. n \in [page : Page, flags : Flags]
    <3>1. result \in [page : Page, flags : Flags]
      BY <1>1 DEF TypeOK, Page, Row
    <3>2. \/ n = result
          \/ \E f : n = [result EXCEPT !.flags = f]
          \/ \E p, f : n = [page |-> p, flags |-> f]
      BY Zenon DEF ResultsReducer, Events
    <3> HIDE DEF n
    <3>3. QED
      BY <2>1, <3>1, <3>2
  <2> HIDE DEF n
  <2>3. result' = n
    BY <1>3 DEF n
  <2>4. QED
    BY <2>1, <2>2, <2>3
<1>6. /\ requests'[s] = Free
      /\ \A r \in Slots \ {s} : requests'[r] = requests[r]
      /\ requests' \in [Slots -> Request]
  <2>1. Free \in Request
    BY DEF Free, Request
  <2>2. requests \in [Slots -> Request]
    BY <1>1, RequestsTyped
  <2>3. QED
    BY <2>1, <2>2
<1>7. query # "none" /\ query \in Queries
  <2>1. slice \in Slices /\ query \in SliceQueries(slice)
    BY DEF Inv, TypeOK, Followed_OK
  <2>2. QED
    BY <2>1, Named
<1>8. TypeOK'
  <2>1. objects' \in [{Id} -> Flags]
    BY <1>2 DEF Settles, Tables
  <2>2. QED
    BY <1>1, <1>2, <1>5, <1>6, <2>1 DEF TypeOK, Page, Row, Request, ActionNames
<1>9. Followed_OK'
  <2>1. Types' = Types
    BY DEF Types
  <2>2. \A r \in Slots : requests'[r] = Free \/ requests'[r].type \in Types
    BY <1>6 DEF Inv, Followed_OK
  <2>3. QED
    BY <2>1, <2>2 DEF Inv, Followed_OK
<1>10. FirstPageFirst'
  <2>1. ASSUME ~result'.page.loaded
        PROVE  /\ result'.page.rows = << >>
               /\ \A r \in Slots : requests'[r].type = query
                    => requests'[r].offset = 0
    <3>1. result'.page = result.page
      BY <1>5, <2>1
    <3>2. \A r \in Slots : requests'[r].type = query => requests[r] = requests'[r]
      BY <1>6, <1>7 DEF Free
    <3>3. QED
      BY <2>1, <3>1, <3>2 DEF Inv, FirstPageFirst
  <2>2. QED
    BY <2>1 DEF FirstPageFirst
<1>11. PagesContiguous'
  BY <1>5 DEF PagesContiguous, Contiguous, AtMostTotal
<1>12. PendingHasRequest'
  <2>1. ASSUME result'.flags.isPending
        PROVE \E r \in Slots : requests'[r].type = query
    BY <1>5, <1>6, <2>1 DEF Inv, PendingHasRequest
  <2>2. ASSUME objects'[Id].isPending
        PROVE lostUpdate' \/ \E r \in Slots : requests'[r].type \in Loads
    <3>1. CASE e.phase = "ERROR" /\ e.type = "updateEntity"
      BY <2>2, <3>1
    <3>2. CASE ~(e.phase = "ERROR" /\ e.type = "updateEntity")
      <4>1. objects[Id].isPending /\ e.type \notin Loads
        BY <1>2, <2>2, <3>2 DEF Settles
      <4>2. QED
        BY <1>6, <2>2, <4>1 DEF Inv, PendingHasRequest
    <3>3. QED
      BY <3>1, <3>2
  <2>3. QED
    BY <2>1, <2>2 DEF PendingHasRequest
<1>13. QED
  BY <1>8, <1>9, <1>10, <1>11, <1>12 DEF Inv

-----------------------------------------------------------------------------
(* The invariant *)

LEMMA InitInv == Init => Inv
<1> SUFFICES ASSUME Init PROVE Inv
  OBVIOUS
<1>1. slice \in Slices /\ query \in SliceQueries(slice)
  BY DEF Init
<1>2. query \in Queries /\ query # "none"
  BY <1>1, Named
<1>3. Absent \in Flags /\ Free \in Request /\ << >> \in Seq(Row)
  BY EmptySeq DEF Absent, Flags, Never, Free, Request
<1>4. TypeOK
  <2>1. result \in [page : Page, flags : Flags]
    BY <1>3 DEF Init, Page
  <2>2. requests \in [Slots -> Request]
    BY <1>3 DEF Init
  <2>3. objects \in [{Id} -> Flags]
    BY <1>3 DEF Init
  <2>4. mutation \in [global : Nat, bookmarks : Nat]
    BY DEF Init, InitialMutation, Never
  <2>5. clock \in Nat /\ server \in Nat /\ acked \in Nat /\ lostUpdate \in BOOLEAN
    BY DEF Init
  <2>6. QED
    BY <1>1, <1>2, <2>1, <2>2, <2>3, <2>4, <2>5
       DEF TypeOK, Page, Row, Request, ActionNames
<1>5. Followed_OK /\ FirstPageFirst /\ PagesContiguous
  BY <1>1, <1>2 DEF Init, Followed_OK, FirstPageFirst, PagesContiguous, Free
<1>6. PendingHasRequest
  BY DEF Init, PendingHasRequest, Absent
<1>7. QED
  BY <1>4, <1>5, <1>6 DEF Inv

LEMMA FetchResultInv ==
  ASSUME Inv, NEW used \in SUBSET Slots, FetchResult(used)
  PROVE  Inv'
<1>1. query \in Types
  BY DEF Types, ActionNames, Inv, TypeOK
<1>2. QED
  BY <1>1, SendSteps DEF FetchResult

LEMMA GetMoreResultsInv ==
  ASSUME Inv, NEW s \in Slots, GetMoreResults(s)
  PROVE  Inv'
<1>1. query \in Types /\ result.page.offset + PageSize \in Nat
  BY StoreAssumption DEF Types, ActionNames, Inv, TypeOK
<1>2. result.page.loaded
  <2>1. DOMAIN result.page.rows # {}
    BY DEF GetMoreResults, CanLoadMore, ShownRows
  <2>2. QED
    BY <2>1 DEF Inv, FirstPageFirst
<1>3. Send(query, result.page.offset + PageSize, {s})
  BY DEF GetMoreResults
<1>4. UNCHANGED <<slice, query, clock, server, acked>>
  BY DEF GetMoreResults
<1>5. QED
  BY <1>1, <1>2, <1>3, <1>4, SendSteps

LEMMA FetchObjectInv ==
  ASSUME Inv, NEW type \in Reads, NEW used \in SUBSET Slots,
         FetchObject(type, used)
  PROVE  Inv'
<1>1. type \in Types
  BY DEF Types, ActionNames, FetchObject
<1>2. QED
  BY <1>1, SendSteps DEF FetchObject

LEMMA SubmitInv ==
  ASSUME Inv, NEW type \in Writes, NEW s \in Slots, Submit(type, s)
  PROVE  Inv'
<1>1. type \in Types
  BY DEF Types, ActionNames, Submit
<1>2. QED
  BY <1>1, SendSteps DEF Submit

LEMMA ServeInv ==
  ASSUME Inv, NEW s \in Slots, Serve(s)
  PROVE  Inv'
<1>1. server' \in Nat
  BY DEF Serve, Inv, TypeOK
<1>2. requests \in [Slots -> Request] /\ requests[s] # Free
  BY RequestsTyped DEF Inv, Serve, Free
<1> DEFINE new == [requests[s] EXCEPT !.phase = "served", !.version = server']
<1>3. /\ new \in Request /\ new.type = requests[s].type
      /\ new.offset = requests[s].offset
  BY <1>1, <1>2 DEF Request
<1>4. requests' = [requests EXCEPT ![s] = new]
  BY DEF Serve
<1> HIDE DEF new
<1>5. /\ requests' \in [Slots -> Request]
      /\ \A r \in Slots : /\ requests'[r].type = requests[r].type
                          /\ requests'[r].offset = requests[r].offset
      /\ \A r \in Slots : requests[r] = Free => requests'[r] = requests[r]
  BY <1>2, <1>3, <1>4
<1>6. UNCHANGED <<slice, query, result, objects, mutation, clock, acked,
                  lostUpdate>>
  BY DEF Serve
<1>7. TypeOK'
  BY <1>1, <1>5, <1>6 DEF Inv, TypeOK, Request, ActionNames
<1>8. Followed_OK' /\ FirstPageFirst' /\ PagesContiguous' /\ PendingHasRequest'
  <2>1. Types' = Types
    BY <1>6 DEF Types
  <2>2. Followed_OK'
    BY <1>5, <1>6, <2>1 DEF Inv, Followed_OK
  <2>3. FirstPageFirst'
    BY <1>5, <1>6 DEF Inv, FirstPageFirst
  <2>4. PagesContiguous'
    BY <1>6 DEF Inv, PagesContiguous
  <2>5. PendingHasRequest'
    BY <1>5, <1>6 DEF Inv, PendingHasRequest
  <2>6. QED
    BY <2>2, <2>3, <2>4, <2>5
<1>9. QED
  BY <1>7, <1>8 DEF Inv

CompleteEvent(s) ==
  Event(requests[s].type, "COMPLETE", requests[s].offset,
        IF requests[s].type \in Queries
        THEN Rows(requests[s].offset, requests[s].version) ELSE << >>)

LEMMA CompleteEventIs ==
  ASSUME Inv, NEW s \in Slots, NEW now \in {clock, clock + 1}, Complete(s, now)
  PROVE  LET e == CompleteEvent(s)
             r == requests[s]
         IN /\ e \in Events /\ e.type = r.type /\ e.offset = r.offset
            /\ e.phase = "COMPLETE" /\ r # Free /\ now \in Nat
            /\ e.type = query => e.rows = Rows(e.offset, r.version)
            /\ r.version \in Nat
<1> DEFINE r == requests[s]
           rows == IF r.type \in Queries THEN Rows(r.offset, r.version)
                   ELSE << >>
           e == Event(r.type, "COMPLETE", r.offset, rows)
<1>1. r \in Request /\ r # Free /\ now \in Nat
  <2>1. r \in Request
    BY RequestsTyped DEF Inv
  <2>2. r # Free
    BY DEF Complete, Free
  <2>3. now \in Nat
    BY DEF Inv, TypeOK
  <2>4. QED
    BY <2>1, <2>2, <2>3
<1>2. r.type \in Types /\ r.offset \in Nat /\ r.version \in Nat
  BY <1>1 DEF Request, Inv, Followed_OK
<1>3. rows \in Seq(Row)
  <2>1. << >> \in Seq(Row)
    BY EmptySeq
  <2>2. Rows(r.offset, r.version) \in Seq(Row)
    BY <1>2, RowsOfPage
  <2>3. QED
    BY <2>1, <2>2
<1>4. query \in Queries
  BY DEF Inv, TypeOK
<1>5. /\ e \in Events /\ e.type = r.type /\ e.offset = r.offset
      /\ e.phase = "COMPLETE" /\ e.rows = rows
  <2> HIDE DEF rows
  <2>1. QED
    BY <1>2, <1>3 DEF Event, Events, Types, ActionNames
<1>6. e.type = query => e.rows = Rows(e.offset, r.version)
  BY <1>4, <1>5
<1>7. CompleteEvent(s) = e
  BY DEF CompleteEvent
<1> HIDE DEF rows, e
<1>8. QED
  BY <1>1, <1>2, <1>5, <1>6, <1>7

LEMMA CompleteInv ==
  ASSUME Inv, NEW s \in Slots, NEW now \in {clock, clock + 1}, Complete(s, now)
  PROVE  Inv'
<1> DEFINE r == requests[s]
           e == CompleteEvent(s)
<1>1. /\ e \in Events /\ e.type = r.type /\ e.offset = r.offset
      /\ e.phase = "COMPLETE" /\ r # Free /\ now \in Nat
      /\ e.type = query => e.rows = Rows(e.offset, r.version)
      /\ r.version \in Nat
  BY CompleteEventIs
<1>2. /\ Dispatch(e, now) /\ clock' = now
      /\ acked' = IF r.type \in GlobalMutations /\ r.version > acked
                  THEN r.version ELSE acked
      /\ requests' = [requests EXCEPT ![s] = Free]
      /\ lostUpdate' = (lostUpdate /\ objects'[Id].isPending)
      /\ UNCHANGED <<slice, query, server>>
  BY DEF Complete, CompleteEvent
<1> HIDE DEF e
<1>3. acked' \in Nat /\ lostUpdate' \in BOOLEAN
  BY <1>1, <1>2 DEF Inv, TypeOK
<1>4. lostUpdate /\ objects'[Id].isPending => lostUpdate'
  BY <1>2
<1>5. QED
  BY <1>1, <1>2, <1>3, <1>4, AnswerSteps

LEMMA FailEvent ==
  ASSUME Inv, NEW s \in Slots, Fail(s)
  PROVE  LET r == requests[s]
             e == Event(r.type, "ERROR", r.offset, << >>)
         IN /\ e \in Events /\ e.type = r.type /\ e.offset = r.offset
            /\ e.phase = "ERROR" /\ r # Free /\ clock \in Nat
<1> DEFINE r == requests[s]
<1>1. r \in Request /\ r # Free
  BY RequestsTyped DEF Inv, Fail
<1>2. r.type \in Types /\ r.offset \in Nat
  BY <1>1 DEF Request, Inv, Followed_OK
<1>3. << >> \in Seq(Row)
  BY EmptySeq
<1>4. QED
  BY <1>1, <1>2, <1>3 DEF Event, Events, Types, ActionNames, Inv, TypeOK

LEMMA FailInv ==
  ASSUME Inv, NEW s \in Slots, Fail(s)
  PROVE  Inv'
<1> DEFINE r == requests[s]
           e == Event(r.type, "ERROR", r.offset, << >>)
<1>1. /\ e \in Events /\ e.type = r.type /\ e.offset = r.offset
      /\ e.phase = "ERROR" /\ r # Free /\ clock \in Nat
  BY FailEvent
<1>2. /\ Dispatch(e, clock) /\ clock' = clock /\ acked' = acked
      /\ requests' = [requests EXCEPT ![s] = Free]
      /\ lostUpdate' = ((lostUpdate \/ r.type = "updateEntity")
                          /\ objects'[Id].isPending)
      /\ UNCHANGED <<slice, query, server>>
  BY DEF Fail
<1> HIDE DEF e
<1>3. acked' \in Nat /\ lostUpdate' \in BOOLEAN
  BY <1>2 DEF Inv, TypeOK
<1>4. /\ lostUpdate /\ objects'[Id].isPending => lostUpdate'
      /\ (/\ e.phase = "ERROR" /\ e.type = "updateEntity"
          /\ objects'[Id].isPending) => lostUpdate'
  BY <1>1, <1>2
<1>5. QED
  BY <1>1, <1>2, <1>3, <1>4, AnswerSteps

LEMMA NextInv == Inv /\ [Next]_vars => Inv'
<1> SUFFICES ASSUME Inv, [Next]_vars PROVE Inv'
  OBVIOUS
<1>1. ASSUME NEW used \in SUBSET Slots, FetchResult(used) PROVE Inv'
  BY <1>1, FetchResultInv
<1>2. ASSUME NEW s \in Slots, GetMoreResults(s) PROVE Inv'
  BY <1>2, GetMoreResultsInv
<1>3. ASSUME NEW type \in Reads, NEW used \in SUBSET Slots,
             FetchObject(type, used) PROVE Inv'
  BY <1>3, FetchObjectInv
<1>4. ASSUME NEW type \in Writes, NEW s \in Slots, Submit(type, s) PROVE Inv'
  BY <1>4, SubmitInv
<1>5. ASSUME NEW s \in Slots, Serve(s) PROVE Inv'
  BY <1>5, ServeInv
<1>6. ASSUME NEW s \in Slots, Fail(s) PROVE Inv'
  BY <1>6, FailInv
<1>7. ASSUME NEW s \in Slots, NEW now \in {clock, clock + 1}, Complete(s, now)
      PROVE  Inv'
  BY <1>7, CompleteInv
<1>8. ASSUME UNCHANGED vars PROVE Inv'
  BY <1>8 DEF vars, Inv, TypeOK, Followed_OK, Types, FirstPageFirst,
              PagesContiguous, PendingHasRequest
<1>9. QED
  BY <1>1, <1>2, <1>3, <1>4, <1>5, <1>6, <1>7, <1>8 DEF Next, Answer

LEMMA Invariance == Spec => []Inv
BY InitInv, NextInv, PTL DEF Spec

\* Whatever the reducers of ui/src/reducers/util.js are sent, and in whatever
\* order answers arrive, the stored flags, rows and requests keep their types.
THEOREM StoreTypes == Spec => []TypeOK
<1>1. Inv => TypeOK
  BY DEF Inv
<1>2. QED
  BY <1>1, Invariance, PTL

\* mergeResults (ui/src/reducers/util.js:5) never leaves a gap and never keeps
\* a row twice, for any number of requests in flight and any page size.
THEOREM StoreContiguous == Spec => []PagesContiguous
<1>1. Inv => PagesContiguous
  BY DEF Inv
<1>2. QED
  BY <1>1, Invariance, PTL

\* No spinner without a request: a pending result or object has a request in
\* flight, but for an entity whose update failed (ui/src/reducers/entities.js).
THEOREM StorePending == Spec => []PendingHasRequest
<1>1. Inv => PendingHasRequest
  BY DEF Inv
<1>2. QED
  BY <1>1, Invariance, PTL

-----------------------------------------------------------------------------
(* The life cycle: every step of the store is a step of UiLifecycle or none *)

Open == {s \in Slots : requests[s].type = query}

StatusOf(f) ==
  IF ~f.present THEN "idle" ELSE IF f.isPending THEN "loading"
  ELSE IF f.isError THEN "failed" ELSE "ready"

LEMMA StatusIs ==
  ASSUME TypeOK PROVE Status = StatusOf(result.flags)
BY DEF TypeOK, Flags, Status, StatusOf

LEMMA StatusIsNext ==
  ASSUME TypeOK' PROVE Status' = StatusOf(result'.flags)
BY DEF TypeOK, Flags, Status, StatusOf

LEMMA StatusSteps ==
  ASSUME NEW f \in Flags, NEW now \in Nat
  PROVE  /\ StatusOf(LoadStart(f)) = "loading"
         /\ StatusOf(LoadError(f)) = "failed"
         /\ StatusOf(LoadComplete(f, now)) = "ready"
BY DEF Flags, StatusOf, LoadStart, LoadError, LoadComplete

LEMMA OpenIsFinite ==
  /\ IsFiniteSet(Open) /\ Cardinality(Open) \in Nat
  /\ IsFiniteSet(Open') /\ Cardinality(Open') \in Nat
<1>1. Open \in SUBSET Slots /\ Open' \in SUBSET Slots
  BY DEF Open
<1>2. IsFiniteSet(Open) /\ IsFiniteSet(Open')
  BY <1>1, StoreAssumption, FS_Subset
<1>3. QED
  BY <1>2, FS_CardinalityType

\* What the rest of the proof says of a step, in the terms of UiLifecycle.
Opened ==
  /\ Cardinality(Open') > Cardinality(Open)
  /\ Status' = "loading"
  /\ Len(result'.page.rows) = Len(result.page.rows)

Closed(status, rows) ==
  /\ Cardinality(Open) > 0
  /\ Cardinality(Open') = Cardinality(Open) - 1
  /\ Status' = status
  /\ Len(result'.page.rows) \in rows

Unmoved == Open' = Open /\ result' = result

LEMMA LifecycleStep ==
  ASSUME TypeOK, TypeOK',
         \/ Opened
         \/ Closed("failed", {Len(result.page.rows)})
         \/ Closed("ready", {Len(result.page.rows),
                             AtMostTotal(Len(result.page.rows) + PageSize),
                             AtMostTotal(PageSize)})
         \/ Unmoved
  PROVE  [Lifecycle!Next]_(Lifecycle!vars)
<1>1. /\ Cardinality(Open') \in Nat /\ Cardinality(Open) \in Nat
      /\ Len(result.page.rows) \in Nat
  BY OpenIsFinite DEF TypeOK
<1>2. /\ {s \in Slots : requests[s].type = query} = Open
      /\ {s \in Slots : requests'[s].type = query'} = Open'
  BY DEF Open
<1>3. ASSUME Opened PROVE Lifecycle!Start
  BY <1>1, <1>2, <1>3 DEF Opened, Lifecycle!Start
<1>4. ASSUME Closed("failed", {Len(result.page.rows)}) PROVE Lifecycle!Fail
  BY <1>1, <1>2, <1>4 DEF Closed, Lifecycle!Fail
<1>5. ASSUME Closed("ready", {Len(result.page.rows),
                              AtMostTotal(Len(result.page.rows) + PageSize),
                              AtMostTotal(PageSize)})
      PROVE  Lifecycle!Answer
  <2>1. /\ Lifecycle!AtMostAll(PageSize) = AtMostTotal(PageSize)
        /\ Lifecycle!AtMostAll(Len(result.page.rows) + PageSize)
             = AtMostTotal(Len(result.page.rows) + PageSize)
    BY <1>1, StoreAssumption DEF Lifecycle!AtMostAll, AtMostTotal
  <2>2. QED
    BY <1>1, <1>2, <1>5, <2>1 DEF Closed, Lifecycle!Answer
<1>6. ASSUME Unmoved PROVE UNCHANGED Lifecycle!vars
  <2>1. Status' = Status
    BY <1>6, StatusIs, StatusIsNext DEF Unmoved
  <2>2. QED
    BY <1>2, <1>6, <2>1 DEF Unmoved, Lifecycle!vars
<1>7. QED
  BY <1>3, <1>4, <1>5, <1>6 DEF Lifecycle!Next

LEMMA SendLifecycle ==
  ASSUME Inv, Inv', NEW type \in Types, NEW offset \in Nat,
         NEW used \in SUBSET Slots, Send(type, offset, used),
         UNCHANGED query
  PROVE  Opened \/ Unmoved
<1> DEFINE e == Event(type, "START", offset, << >>)
           new == Sent(type, offset)
<1>1. /\ requests' = [s \in Slots |-> IF s \in used THEN new ELSE requests[s]]
      /\ new.type = type
      /\ used # {} /\ \A s \in used : requests[s] = Free
  <2>1. requests' = [s \in Slots |-> IF s \in used THEN new ELSE requests[s]]
    BY DEF Send, Sent
  <2>2. QED
    BY <2>1, SentSteps DEF Send, FreeSlots, Types, ActionNames
<1>2. query # "none"
  BY Named DEF Inv, TypeOK, Followed_OK
<1>3. Open \cap used = {}
  BY <1>1, <1>2 DEF Open, Free
<1>4. result' = ResultsReducer(result, e, clock) /\ e.type = type
      /\ e.phase = "START"
  BY DEF Send, Dispatch, Event
<1> HIDE DEF e, new
<1>5. CASE type # query
  <2>1. Open' = Open
    BY <1>1, <1>2, <1>5 DEF Open, Free
  <2>2. result' = result
    BY <1>4, <1>5 DEF ResultsReducer
  <2>3. QED
    BY <2>1, <2>2 DEF Unmoved
<1>6. CASE type = query
  <2>1. Open' = Open \cup used
    BY <1>1, <1>6 DEF Open
  <2>2. Cardinality(Open') > Cardinality(Open)
    <3>1. Open \in SUBSET Open' /\ Open # Open'
      BY <1>1, <1>3, <2>1
    <3>2. /\ Cardinality(Open) <= Cardinality(Open')
          /\ Cardinality(Open') = Cardinality(Open) => Open' = Open
      BY <3>1, OpenIsFinite, FS_Subset
    <3>3. QED
      BY <3>1, <3>2, OpenIsFinite
  <2>3. result' = [result EXCEPT !.flags = LoadStart(@)]
    BY <1>4, <1>6 DEF ResultsReducer
  <2>4. /\ result.flags \in Flags /\ result'.page = result.page
        /\ result'.flags = LoadStart(result.flags)
    BY <2>3 DEF Inv, TypeOK
  <2>5. Status' = "loading"
    <3>1. StatusOf(LoadStart(result.flags)) = "loading"
      BY <2>4, StatusSteps
    <3>2. QED
      BY <2>4, <3>1, StatusIsNext DEF Inv
  <2>6. QED
    BY <2>2, <2>4, <2>5 DEF Opened
<1>7. QED
  BY <1>5, <1>6

LEMMA AnswerLifecycle ==
  ASSUME Inv, Inv', NEW s \in Slots, NEW e \in Events, NEW now \in Nat,
         requests[s] # Free,
         e.type = requests[s].type, e.offset = requests[s].offset,
         e.phase \in {"COMPLETE", "ERROR"},
         e.phase = "COMPLETE" /\ e.type = query =>
           e.rows = Rows(e.offset, requests[s].version),
         Dispatch(e, now),
         requests' = [requests EXCEPT ![s] = Free],
         UNCHANGED query
  PROVE  \/ Closed("failed", {Len(result.page.rows)})
         \/ Closed("ready", {Len(result.page.rows),
                             AtMostTotal(Len(result.page.rows) + PageSize),
                             AtMostTotal(PageSize)})
         \/ Unmoved
<1> DEFINE n == ResultsReducer(result, e, now)
           lens == {Len(result.page.rows),
                    AtMostTotal(Len(result.page.rows) + PageSize),
                    AtMostTotal(PageSize)}
<1>1. /\ TypeOK /\ PagesContiguous /\ requests[s].version \in Nat
      /\ result.flags \in Flags
      /\ ~result.page.loaded /\ e.type = query => e.offset = 0
  <2>1. requests[s] \in Request
    BY RequestsTyped DEF Inv
  <2>2. requests[s].version \in Nat
    BY <2>1 DEF Request
  <2>3. ~result.page.loaded /\ e.type = query => e.offset = 0
    BY DEF Inv, FirstPageFirst
  <2>4. result.flags \in Flags
    BY DEF Inv, TypeOK
  <2>5. QED
    BY <2>2, <2>3, <2>4 DEF Inv
<1>2. /\ e.type # query => n = result
      /\ e.phase # "COMPLETE" => n.page = result.page
      /\ e.phase = "COMPLETE" /\ e.type = query =>
           n.flags = LoadComplete(result.flags, now)
           /\ Len(n.page.rows) \in lens
      /\ e.phase = "ERROR" /\ e.type = query =>
           n.flags = LoadError(result.flags)
  BY <1>1, ResultSteps
<1>3. result' = n
  BY DEF Dispatch
<1> HIDE DEF n, lens
<1>4. query # "none" /\ DOMAIN requests = Slots
  BY Named DEF Inv, TypeOK, Followed_OK
<1>5. CASE e.type # query
  <2>1. Open' = Open
    BY <1>4, <1>5 DEF Open, Free
  <2>2. QED
    BY <1>2, <1>3, <1>5, <2>1 DEF Unmoved
<1>6. CASE e.type = query
  <2>1. s \in Open /\ Open' = Open \ {s}
    BY <1>4, <1>6 DEF Open, Free
  <2>2. /\ Cardinality(Open) > 0
        /\ Cardinality(Open') = Cardinality(Open) - 1
    <3>1. Cardinality(Open') = Cardinality(Open) - 1
      BY <2>1, OpenIsFinite, FS_RemoveElement
    <3>2. QED
      BY <3>1, OpenIsFinite
  <2>3. /\ StatusOf(LoadError(result.flags)) = "failed"
        /\ StatusOf(LoadComplete(result.flags, now)) = "ready"
    BY <1>1, StatusSteps
  <2>4. Status' = StatusOf(n.flags)
    BY <1>3, StatusIsNext DEF Inv
  <2>5. CASE e.phase = "ERROR"
    <3>1. Closed("failed", {Len(result.page.rows)})
      BY <1>2, <1>3, <1>6, <2>2, <2>3, <2>4, <2>5 DEF Closed
    <3>2. QED
      BY <3>1
  <2>6. CASE e.phase = "COMPLETE"
    <3>1. Closed("ready", lens)
      BY <1>2, <1>3, <1>6, <2>2, <2>3, <2>4, <2>6 DEF Closed
    <3>2. QED
      BY <3>1 DEF lens
  <2>7. QED
    BY <2>5, <2>6
<1>7. QED
  BY <1>5, <1>6

LEMMA LifecycleInit == Init => Lifecycle!Init
<1> SUFFICES ASSUME Init PROVE Lifecycle!Init
  OBVIOUS
<1>1. Status = "idle"
  BY DEF Init, Status, Absent
<1>2. Len(result.page.rows) = 0
  BY DEF Init
<1>3. query # "none"
  BY Named DEF Init
<1>4. {s \in Slots : requests[s].type = query} = {}
  BY <1>3 DEF Init, Free
<1>5. QED
  BY <1>1, <1>2, <1>4, FS_EmptySet DEF Lifecycle!Init

LEMMA LifecycleNext ==
  Inv /\ Inv' /\ [Next]_vars => [Lifecycle!Next]_(Lifecycle!vars)
<1> SUFFICES ASSUME Inv, Inv', [Next]_vars
             PROVE  [Lifecycle!Next]_(Lifecycle!vars)
  OBVIOUS
<1> DEFINE Ready == Closed("ready", {Len(result.page.rows),
                             AtMostTotal(Len(result.page.rows) + PageSize),
                             AtMostTotal(PageSize)})
           Failed == Closed("failed", {Len(result.page.rows)})
           Goal == Opened \/ Failed \/ Ready \/ Unmoved
<1>0. /\ TypeOK /\ TypeOK' /\ query \in Types
      /\ result.page.offset + PageSize \in Nat /\ 0 \in Nat
  BY StoreAssumption DEF Inv, TypeOK, Types, ActionNames
<1>1. ASSUME NEW used \in SUBSET Slots, FetchResult(used) PROVE Goal
  <2>1. Send(query, 0, used) /\ UNCHANGED query
    BY <1>1 DEF FetchResult
  <2>2. QED
    BY <1>0, <2>1, SendLifecycle
<1>2. ASSUME NEW s \in Slots, GetMoreResults(s) PROVE Goal
  <2>1. Send(query, result.page.offset + PageSize, {s}) /\ UNCHANGED query
    BY <1>2 DEF GetMoreResults
  <2>2. QED
    BY <1>0, <2>1, SendLifecycle
<1>3. ASSUME NEW type \in Reads, NEW used \in SUBSET Slots,
             FetchObject(type, used) PROVE Goal
  <2>1. Send(type, 0, used) /\ UNCHANGED query /\ type \in Types
    BY <1>3 DEF FetchObject, Types, ActionNames
  <2>2. QED
    BY <1>0, <2>1, SendLifecycle
<1>4. ASSUME NEW type \in Writes, NEW s \in Slots, Submit(type, s) PROVE Goal
  <2>1. Send(type, 0, {s}) /\ UNCHANGED query /\ type \in Types
    BY <1>4 DEF Submit, Types, ActionNames
  <2>2. QED
    BY <1>0, <2>1, SendLifecycle
<1>5. ASSUME NEW s \in Slots, Serve(s) PROVE Goal
  <2>1. requests \in [Slots -> Request]
    BY RequestsTyped DEF Inv
  <2>2. \A r \in Slots : requests'[r].type = requests[r].type
    BY <1>5, <2>1 DEF Serve, Request
  <2>3. Open' = Open
    BY <1>5, <2>2 DEF Open, Serve
  <2>4. QED
    BY <1>5, <2>3 DEF Unmoved, Serve
<1>6. ASSUME NEW s \in Slots, Fail(s) PROVE Goal
  <2> DEFINE r == requests[s]
             e == Event(r.type, "ERROR", r.offset, << >>)
  <2>1. /\ e \in Events /\ e.type = r.type /\ e.offset = r.offset
        /\ e.phase = "ERROR" /\ r # Free /\ clock \in Nat
    BY <1>6, FailEvent
  <2>2. /\ Dispatch(e, clock) /\ UNCHANGED query
        /\ requests' = [requests EXCEPT ![s] = Free]
    BY <1>6 DEF Fail
  <2> HIDE DEF e
  <2>3. QED
    BY <2>1, <2>2, AnswerLifecycle
<1>7. ASSUME NEW s \in Slots, NEW now \in {clock, clock + 1}, Complete(s, now)
      PROVE  Goal
  <2> DEFINE r == requests[s]
             e == CompleteEvent(s)
  <2>1. /\ e \in Events /\ e.type = r.type /\ e.offset = r.offset
        /\ e.phase = "COMPLETE" /\ r # Free /\ now \in Nat
        /\ e.type = query => e.rows = Rows(e.offset, r.version)
    BY <1>7, CompleteEventIs
  <2>2. /\ Dispatch(e, now) /\ UNCHANGED query
        /\ requests' = [requests EXCEPT ![s] = Free]
    BY <1>7 DEF Complete, CompleteEvent
  <2> HIDE DEF e
  <2>3. QED
    BY <2>1, <2>2, AnswerLifecycle
<1>8. ASSUME UNCHANGED vars PROVE Goal
  BY <1>8 DEF vars, Unmoved, Open
<1>9. Goal
  BY <1>1, <1>2, <1>3, <1>4, <1>5, <1>6, <1>7, <1>8 DEF Next, Answer
<1>10. QED
  BY <1>0, <1>9, LifecycleStep

\* What UiStore keeps for a query implements what UiLifecycle promises to the
\* view that shows it (QueryInfiniteLoad.jsx:34, reducers/util.js:5).
THEOREM StoreImplementsLifecycle == Spec => ImplementsLifecycle
<1>1. ImplementsLifecycle <=> Lifecycle!Init /\ [][Lifecycle!Next]_(Lifecycle!vars)
  BY DEF ImplementsLifecycle, Lifecycle!Spec
<1>2. QED
  BY <1>1, LifecycleInit, LifecycleNext, Invariance, PTL DEF Spec
=============================================================================
