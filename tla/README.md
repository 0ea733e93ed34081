# A formal model of OpenAleph

OpenAleph is a platform to search large collections of documents and structured
data. This directory holds TLA+ specifications of its core logic, the TLC
configurations that check them on small instances, and theorems about them with
proofs checked by TLAPS. Paths are relative to the repository's root.

## The system

A Flask application (`aleph/views`) answers requests, a set of procrastinate
workers (`aleph/procrastinate`, `aleph/logic`) executes queued tasks, and a CLI
(`aleph/manage.py`) does maintenance. They share five stores and no locks:

| store | holds | used through |
|---|---|---|
| PostgreSQL | users, permissions, collections, entities, entity sets, mappings, alerts, exports | `aleph/model`, one transaction per request or task |
| FtM store (the aggregator) | fragments of entities by collection, entity and origin | `logic/aggregator.py`, autocommit |
| Elasticsearch | the searchable copy of entities, collections, notifications and cross references | `aleph/index`, visible after a refresh |
| Redis | access lists, sessions, resolved objects, statistics | `aleph/core.py` `cache`, no transactions |
| archive | the bytes of documents and exports | servicelayer archive |

The React application in `ui/` runs in the browser. It keeps a copy of search
results and objects in a Redux store (`ui/src/reducers`), which views fill through
requests (`ui/src/actions`) that nobody serialises: answers arrive late, in any
order, or as errors. Around the store are editors that hold state of their own
(network diagrams, timelines, spreadsheets of entities, mappings) and pages whose
state is the address.

### Inventory

| component | state it keeps | operations | what is hard | what makes it correct |
|---|---|---|---|---|
| Access control (`authz.py`, `model/permission.py`, `logic/permissions.py`, `logic/roles.py`) | permission rows, group memberships, access lists in Redis, group lists in session tokens | read-through lookup, grant and revoke, publish, role refresh, login and logout, flushes | readers between a flush and a commit; a crash between a commit and a flush; fill after invalidation | cached lists agree with the rows; writing implies reading; public roles never write |
| Collections (`model/collection.py`, `logic/collections.py`, `views/collections_api.py`) | collection rows, index documents, statistics | create, update, delete, reindex, ingest, cancel, index diff | deletion while workers write; ordered streams compared against each other; flags that depend on each other | casefiles are never external; a deleted collection leaves nothing behind; the diff reports exactly what differs |
| Entities (`logic/entities.py`, `index/entities.py`, `logic/aggregator.py`) | rows, fragments, index documents | upsert, delete, prune, reindex, update job | three stores with no common transaction | rows, fragments and documents converge; what was deleted does not come back |
| Entity sets, profiles and judgements (`model/entityset.py`, `logic/profiles.py`, `views/profiles_api.py`, `views/entitysets_api.py`) | sets, judged items, profile fragments | judge a pair, change items, merge profiles, delete | one entity in several profiles; merges keep and re-judge items; fragments rewritten by origin | merges are order-independent where claimed; fragments say which profile an entity is in |
| Mappings (`logic/mapping.py`, `model/mapping.py`, `views/mappings_api.py`) | mapping rows with their last run, fragments by origin | create, update, trigger, flush, delete, load | load and flush tasks in either order; failure half way | a flushed mapping leaves nothing; the status describes the last run |
| Cross reference (`logic/xref.py`, `index/xref.py`) | matches in an index | generate, delete, decide, export | regenerated while decisions are made | decided pairs are stable |
| Alerts and notifications (`logic/alerts.py`, `logic/notifications.py`, `model/alert.py`) | saved searches with a notification time, events | periodic check, publish, digest mails, cached channels | results beyond the page size; a watermark that skips | every visible match is announced once |
| Exports and archive (`logic/export.py`, `model/export.py`, `logic/archive.py`) | export rows, files by content hash | create, complete, retry, expire, garbage collect | content shared by several exports; check then delete | a downloadable export has its file |
| Documents and ingest (`logic/documents.py`, `views/ingest_api.py`) | document rows, queue | upload, crawl, re-ingest | find or create by content hash and parent | one row per document |
| Bookmarks, tags (`views/bookmarks_api.py`, `model/bookmark.py`, `model/tag.py`) | rows | add, remove, migrate | check then insert | one per user and entity |
| Queues (`aleph/procrastinate`, `logic/processing.py`) | jobs in PostgreSQL | defer, cancel, status | tasks of one collection run concurrently | cancelled jobs leave nothing running |
| Sessions and sign-in (`oauth.py`, `views/sessions_api.py`) | tokens in Redis | password and OAuth login, logout | groups frozen at login | see access control |
| Resolver (`logic/resolver.py`) | Redis entries | read through, invalidate | fill after invalidation | converges after a flush |
| Search (`aleph/search`, `aleph/index`) | none | query building | query filters | authorisation filter always applied |
| UI result store (`ui/src/reducers`, `actions`, `selectors.js`) | objects, results by query, flags, time stamps of mutations | fetch, page, change, delete, answers and errors | pages answered out of order; a change while a page is under way | pages leave no gap; what is pending has a request; lists settle |
| UI network diagrams and tools (`ui/src/react-ftm/components/NetworkDiagram`) | entities, layout, history, selection, menus | create, group, expand, delete, undo, redo, drag, keys | late expansions and counts; undo across edits | edges have both ends; undo inverts an edit; a menu shows its own counts |
| UI autosave (`entityEditorWrapper.jsx`, `TimelineScreen.jsx`, `UpdateStatus.tsx`) | what was sent, status | one request for each changed entity, layout updates | requests overtake each other | the server has what the editor shows |
| UI timelines (`ui/src/components/Timeline`) | items, selection, zoom, dialog | create, update, remove, zoom | dates of different precision; a dialog that waits | the chart can be drawn; a dialog waits only for a request |
| UI entity table (`react-ftm/components/EntityTable`) | rows, columns, selection | edit, paste, sort, add, delete | its own rows next to the entities | rows are the entities shown |
| UI mapping editor (`ui/src/components/MappingEditor`) | mapping list, dialogs | add, remove, import, save, flush | objects shared with the store; ids that are counted | references exist |
| UI search (`SearchFacets`, `AdvancedSearch`, `EntitySearch*`) | the query in the address, expanded facets, form | facets, dates, terms, sorting, preview | every control replaces the whole query | what one control changes the others keep |
| UI property editors and dialogs | what is typed, pending requests | edit, submit, confirm, close | closed while waiting; typed text that stays | only valid values are saved; what waits is blocked |
| UI viewers (`ui/src/viewers`, `util/sqlWorker.js`) | a worker with the table, PDF pages, streamed rows | settings, search, paging, rotation | messages in both directions; links resolved late | what is shown is what was asked for last |
| UI uploads and deletion | files in flight, folders, errors | upload a tree, retry, cancel, delete several | folders before their files; one of many fails | everything arrives or is reported |
| UI decisions, profiles, entity pages | address, selected row, judgements drawn | decide, redirect, preview, tags | drawn before it is sent; pages that redirect to each other | what is drawn is decided; redirections end |
| UI session (`reducers/session.js`, `app/`, settings and system status screens) | token, metadata, roles, messages, form, timers | sign in and out, expire, refuse, reload, save, poll, cancel | a refusal while other requests are under way; timers that outlive their page | a refused token is not used on; an open page goes on polling |

## The modules

| module | models | composed with |
|---|---|---|
| `AuthzCache` | permission rows, group memberships, the access lists in Redis and the requests and commands that read, edit and flush them | `AuthzCacheProofs`, `MCAuthzCache` |
| `IndexDiff` | the comparison of two sorted id streams and the diff-only reindex that uses it | `IndexDiffProofs`, `MCIndexDiff` |
| `EntityStore` | rows, fragments and documents of the entities of a collection; edits, deletes, jobs and a reindex | `EntityStoreProofs`, `MCEntityStore` |
| `Profiles` | judgements, merges of profiles, and the profile fragments written next to them | `ProfilesProofs`, `MCProfiles` |
| `Mappings` | one mapping, its requests, and the load, flush, reindex and index jobs of its workers | `MappingsProofs`, `MCMappings` |
| `UiLifecycle` | what a paged list promises to the view that shows it (abstract) | `UiStore` |
| `UiStore` | the browser's results and objects, their requests and answers | `UiLifecycle`, `UiStoreProofs`, `MCUiStore` |
| `UiDiagram` | a network diagram, its history and its expansions | `UiEditors` |
| `UiDiagramTools` | modes, selection, drags, menus and dialogs of a diagram | `UiEditors` |
| `UiAutosave` | how diagrams and timelines are saved | `UiEditors` |
| `UiTimeline` | items, dates, zoom and the dialog of a timeline | `UiEditors` |
| `UiTable` | the spreadsheet of entities | `UiEditors` |
| `UiMapping` | the mapping editor of a table | `UiEditors` |
| `UiEditors` | the six editors above, one of them open | `UiEditorsProofs`, `MCUiEditors` |
| `UiLists` | filtering of lists | editors and screens |
| `UiSearch` | the search screen and its query | `UiScreens` |
| `UiViewers` | the table explorer with its worker, the PDF viewer, the plain table | `UiScreens` |
| `UiUploads` | uploading a tree of files, deleting documents | `UiScreens` |
| `UiDialogs` | dialogs for collections, sets and access | `UiScreens` |
| `UiDecisions` | judging similar entities, redirections between profile and entity | `UiScreens` |
| `UiEntityPage` | tabs, preview and tags of an entity | `UiScreens` |
| `UiProperties` | property editors of the selected entity | `UiScreens` |
| `UiSession` | token, metadata, roles, messages, settings, the page of the tasks | `UiScreens` |
| `UiScreens` | the eight pages above, one of them open | `UiScreensProofs`, `MCUiScreens` |

Each module has one action per operation or per stretch of an operation that no
other process can interrupt: a call to a store that takes effect at once ends such
a stretch, and in the browser an `await`, a promise or an effect of the next commit
does. A module named `...Proofs` extends the component's module with its
theorems, `MC...` with the values of the constants for TLC. Definitions next to a
comment that calls them faulty, wrong or a mutant are not part of a specification:
each is a plausible mistake in the definition that follows it, kept to show that a
property notices it (`PROJECT.json`, "mutants").

### Access control: `AuthzCache`

`permission`, `membership`, `known` and `live` are committed rows, `access` is the Redis
hash `authzca`, `sessions` holds the groups a session token froze at login, and
`proc[p]` what a process has read or staged. `BeginRequest`, `CacheHit`,
`CacheMiss` and `StoreLists` are the read-through in `Authz.collections`:
the lookup, the queries and the `hset` are separate steps. `BeginPermissions`,
`Stage`, `UpdatePermission`, `Publish`, `FlushBeforeCommit` and `CommitPermissions`
are `permissions_api.update` and the `publish` command, which flush *before* they
commit. `CreateCollection`, `DeleteCollection`, `FlushAfterCommit`, `CommitGroups`,
`RefreshRole` and the daily `UpdateRoles` commit first and flush afterwards. `DeleteRole` is
the `deleterole` command (`logic/roles.py:154`), which deletes the rows and memberships of a
role and flushes nothing; afterwards the role can no longer be granted anything, but a
session may still name it. `Crash` ends any of them between its steps.

A list that a reader stored too late, or that nobody flushes, is stale for good. The
model marks exactly these entries (`outrun`), each at the step that loses the
invalidation and only if it depends on the rows that changed (`OfRoles`, `KeysOf`):

* a read that a commit overtook (`Overtaken`, `OvertakenUser`), when it is stored;
* what was stored between the flush and the commit of an edit of permissions (`late`);
  a list that was there before the edit is *not* exempt, so leaving out that flush
  violates `CacheCoherent` (the mutant `FlushLeftOut`);
* what a process that died had still to flush (`Crash`, with the `roles` or the user it was for);
* what depended on a role that was deleted (`DeleteRole`, `OvertakenRole`).

`CacheCoherent` says that these are the *only* ways for the cache to be wrong: every
other entry agrees with the committed rows, unless a flush of its rows is still due. It
does not say that the cache is right after `deleterole`: it is not, and nothing in
the repository says that it is. Rows of one collection and role are edited by one process at
a time (`RowFree`); two that insert the same row are outside of the model.

### Index comparison: `IndexDiff`

A stream of sorted ids is the set of ids still to come. `Compare`,
`AggregatorEnded`, `IndexEnded`, `SameId`, `DifferentIds`, `CatchUpAggregator`,
`CatchUpIndex`, `RestOfAggregator` and `RestOfIndex` are the branches of the nested
loops of `index_diff`; `YieldMissing` fills the batches of
`_get_diff_reindex_batches`, and `Finish` sends the last one. The ids are read once,
at the start. The two stores are assumed to sort alike.

### Entities: `EntityStore`

Every entity is `row[e]`, `fragment[e]` (origin `model`), `named` (the fragment `names` of
the same origin, put by `inline_names`), `derived` (fragments of other origins) and
`document[e]`, each with the number of the edit it holds. A request first deletes the
fragments (`UpsertDrop`) and puts those of the edit (`UpsertFragments`), then writes the
document (`UpsertDocument`) and a job for it, then commits (`CommitUpsert`). `Delete` removes
the document and `QueuePrune` queues the job for the rest. Between any two of these
steps the request may die (`FailRequest`) with what it has done in place.
`Prune`, `Update`, `Analyze`, `IndexRead`, `IndexWrite` and `IndexNothing` are the jobs; an
index job reads fragments and writes the document later, and a worker that dies in between
or after it, before or after it queued what follows, leaves the job to be retried
(`Done`, `periodic_retry_stalled`). `PruneDies` is a prune that ends within its loop over the
adjacent entities: some have lost their documents, and all of these but one have a job. A prune
that does not die is one step. `StartReindex`, `AggregateRow`, `WriteBulk`, `FlushIndex`,
`QueueBatches` and `FailReindex` are `reindex_collection`: it reads the rows at one point,
deletes and rewrites fragments one entity at a time, and may die anywhere. The entities are
in no profile, so that `profile_fragments`, which several of these operations call,
writes nothing; `Profiles` has it.

`raced` and `overlap` are history: the entities that two operations worked on at
once, or whose operation died half way. The code promises nothing about them (no store has
a transaction in common with another), so `StoresAgree` leaves them out until a complete
reindex repairs them; `PruneIsFull` shows one such disagreement.

### Profiles: `Profiles`

`judged[p][e]` is the item for entity `e` in profile `p`; profiles are numbered in the
order of their creation. A request computes on the view it read, writes profile
fragments at once, and commits the difference at the end (`Commit`) or not at all
(`Rollback`). Any number of requests overlap, next to deletions of profiles: nothing locks
what a request has read. `Save` is `EntitySetItem.save`, which merges every other profile of
the entity (`MergedBy`, `Merge`, `Combine`, `Plus`). The code
merges one after the other; since adding judgements up is associative and commutative the
model adds up those of all the merged profiles at once (`Combine`).

Overlapping requests do put an entity into two profiles, against what the
documentation says (`OneProfile`, run `profiles_one_profile`). What the code does keep is stated of
each commit: `AddingMerges`, `MergesKeepTogether` and `NegativesKept` speak of entities of which
the request has read what is still so when it commits (`UpToDate`), while others commit before,
after and in between. Where another request changed what is known of the entity they
promise nothing, and neither does the code.

### Mappings: `Mappings`

`exists`, `disabled`, `status` and `query` are the row, `fragments` and `documents`
the queries whose entities the two stores hold. A request commits (`Trigger`,
`RequestFlush`, `Delete`, `Update`, `RequestReindex`) and queues its job in a second
step that may never come (`calls`, `QueueJob`). A worker reads the row when it takes a
job (`Take`) and then goes from store to store: `DeleteFragments`, `DeleteDocuments`,
`DeleteMapped`, `WriteMapped`, `ReadFragments`, `WriteDocuments`, `CommitSuccess`.
`FailLoad` and `DropFragments` are the `except` branch of `load_mapping`,
`Requeue` the case in which the row is gone and neither status can be
committed, `IgnoreBroken` the reindex that logs a broken mapping and goes on, `Crash`
and `RetryStalled` a worker that dies and the quarter-hourly retry. Jobs are taken
in any order and by any number of workers (`Makefile:47` starts two), which
work next to each other. The entities that different queries generate are taken to be
distinct.

Two workers get in each other's way: an index job that a reindex queued can write
documents back after the flush of a deleted mapping, so that the mapping leaves something
behind (`DeletedIsEmpty`, run `mappings_deleted`). Two auxiliary variables say when that can
happen. `alone` of a job is true while no job that writes has run next to it
(`Disturbs`: two flushes do not disturb each other), and `flushed` says whether a flush
has run alone since it was asked for. With them `FlushedIsEmpty` and `LoadReplaces` hold for
any number of workers: *one* flush that ran alone is enough, whatever is retried, crashes or
runs next to each other before and after it; a load that ran alone replaces all
that others left.

### The result store: `UiStore` and `UiLifecycle`

`Init` chooses a slice of the state (`slice`) and a query action (`query`), so that one
instance covers every reducer: `RootReducer` and the reducers it chooses from say what an action's
`START`, `COMPLETE` and `ERROR` do to the object `Id` (`LoadStart`, `LoadComplete`,
`ObjectDelete`, ...), `ResultsReducer` what they do to `state.results`, `MutationReducer`
which actions set a time stamp. `MergeResults` is `mergeResults` of `reducers/util.js`: a page is
appended if it starts where the rows end, a first page replaces all, everything else is
dropped. `FetchResult` and `GetMoreResults` are the effects of a view that shows the list,
`FetchObject` those of a page, `Submit` a user's change. A request takes a slot until it
is answered; `Serve` is the moment the server reads or changes its data, `Complete` and
`Fail` the answer. The number of slots is a bound of the model only.

`UiLifecycle` is the abstract specification: a list is idle, loading, ready or failed, is
loading only while a request is open, and an answer leaves its rows, appends one page
or starts over. `ImplementsLifecycle` is the refinement, with the status read from
the flags and the open requests counted from the slots.

### The pages of the browser: `UiEditors` and `UiScreens`

The other UI modules model one page or editor each, from its first commit on. They share
no state: what one of them does to the store is a request, and what comes back is an
answer of the server, chosen freely among those it can give. So they are put together
side by side: `page` names the one that is open, chosen at the start among `Explored`,
and its variables take the slots `s1`, `s2`, ... in order. An unused slot is constant. A
property of a page is stated in its module and, for the run, conditioned on `page`.
`UiEditors` and `UiScreens` compose editors and screens for any value of their constants,
under one named assumption per page, and are what `UiEditorsProofs` and `UiScreensProofs`
prove about; `MCUiEditors` and `MCUiScreens` give the values for TLC. Every instance
brings a copy of all that its module extends, which the provers then carry along; the
pages therefore extend the small `UiLists`, which repeats the handful of library
operators they use, and not the libraries.

* `UiDiagram`: `entities`, `layout`, `history` and `position` are the fields of the entity
  manager, `GraphLayout` and `History`. An entity is its id, the ids it refers to (`ids`) and
  the entities it embeds as objects (`objects`), which is how the server sends references and
  how the editor sets them (`NetworkDiagram.tsx:273`). `Resolves` is the difference it makes to
  `GraphLayout`: an id has to be the id of an entity that is held, an object has not. So a link
  draws an embedded end that is not held (`LinkEnds`), and a reference to an embedded entity that
  was removed is drawn to the vertex it left behind, which `Generate` throws away right
  after. `held` of an entry are the ids that were held at the time (auxiliary). An expansion
  captures the layout (`StartExpand`), and its answer (`FinishExpand`) is put into the
  captured one.
* `UiDiagramTools`: one action per control; `menu` and `asked` are the vertex menu and the
  counts it waits for. `Bounds` says how long a selection may be next to how many counts:
  in the run two selected, two counts under way, or one of each.
* `UiAutosave`: `sent` are the requests in the order of their edits; `Serve` takes any of
  them. `failed` and `overtaken` are history.
* `UiTimeline`: a date is year, month and day with 0 for what is missing; `MonthStarts`
  are the days on which the months begin, in the run three short ones.
* `UiTable`: `componentDidUpdate` is a part of every action, as it runs at every commit.
* `UiMapping`: the items of the list alias the store's query, so editing them changes `stored`.
  The code has eleven colors, which bounds the number of items.
* `UiSearch`: the state is cut into panels; all of them replace the query as a whole.
* `UiViewers`: `inbox` and `outbox` are the two directions of `postMessage`, in order.
* `UiUploads`: one action is what happens between two turns of the event loop. Files
  may be in folders at any depth; `Ancestors` are those around a file.
* `UiDialogs`: a dialog that is closed stays mounted and keeps what was typed.
* `UiDecisions`: `lists` is what is drawn, `server.judged` what is decided.
* `UiEntityPage`: `Wanted` is what `EntityContextLoader` loads, `DrawnTabs` what
  `EntityViews` draws; nothing in the code ties the two.
* `UiProperties`: an editor that is open is submitted before what was clicked happens.
* `UiSession`: a request carries the token of the moment it is sent, and what comes back
  belongs to that token. Any answer but those without a token may be a 401, which asks for
  signing out; signing out is a request too, and ends the session whether it succeeds or
  not. Other requests with the same token are answered meanwhile, and tokens are issued
  while older ones are still in use. `Rendered` is the part every handler shares: a change
  of the store may take the dialog, the settings form or the page of the tasks away, and
  another language takes all of them. `Reload` keeps what `store.js` saves and nothing
  else. `polling` are the timers of the page of the tasks: `held` those its component knows
  and clears when it goes, `loose` those that were set after it forgot about them, which
  still fire. What is explored (`part`) is cut into signing in and out, messages,
  settings, and tasks, each together with metadata, refusals and reloads.

## The runs

| run | question | bounds | result |
|---|---|---|---|
| `authz_cache` | are rights and cached lists right between the steps of two processes, and when not? | one user, group and collection, the two public roles, two processes (symmetric), two commits | holds |
| `index_diff` | what does the comparison report, for any two stores, and does it end? | all pairs of subsets of six ids, batches of two | holds |
| `index_diff_exact` | is it what the docstring says? | the same | violated |
| `profiles` | what do judgements and merges keep when requests overlap? | a local entity and two foreign ones (symmetric), three profiles, two requests at a time (symmetric), four in all | holds |
| `profiles_one_profile` | is an entity in one profile? | two local entities and a foreign one, two profiles, two requests at a time | violated |
| `profiles_profile_visible` | does every entity of a profile have its fragment? | the same, one request at a time | violated |
| `entity_store` | do row, fragments and document agree when all is done? | a company and an ownership that refers to it, two requests (symmetric), two edits, one failure or one reindex | holds |
| `mappings` | are flushed mappings empty, loads complete, and statuses settled? | two queries, three requests, one failure, two workers | holds |
| `mappings_deleted` | does a deleted mapping leave nothing? | one query, two requests, no failure, two workers | violated |
| `ui_store` | do lists keep their order, spinners end, and does the store implement the life cycle? | two requests in flight, three rows in pages of one, one change on the server, eight queries that cover the reducers | holds |
| `ui_editors` | are the editors consistent under any order of events and answers? | two or three things or entities each, three edits | holds |
| `ui_screens` | are the screens, and does a refused session end? | two or three entities, files, values or tokens each, one to three requests | holds |

What the properties of the two composed runs say:

| property | says |
|---|---|
| `DiagramHolds` | what is held is drawn, and nothing else but the ends that a link embeds (`DrawnAsHeld`); links have both ends, and so has a reference unless what it refers to was removed (`EdgesConnect`); groupings name vertices; undo and redo replay the history; all of it but for what an expansion found and no entry recorded |
| `ToolsHold` | no link leads from a vertex to itself, drags end, the counts in a menu are those of its vertex |
| `SavingHolds` | when all requests are answered, none failed and none was overtaken, the server has what the editor shows; "saving" stands for a request |
| `TimelineHolds` | every bar lies in the chart and the chart has no more days or months than its level is for; the dialog waits only for a request |
| `TableHolds` | the rows are the entities, the check marks the selection |
| `MappingHolds` | references of a mapping exist, colours differ |
| `SearchHolds`, `SearchKeeps` | ranges of dates are whole; removing a term keeps the others, the form survives a search |
| `ViewersHold` | a quiet table is the answer to the query shown; the PDF and its rotation are the address's; a paused parser has enough rows |
| `FormsSettle`, `DeletionsHold` | an upload that is done has every file or reported it; dialogs that wait are blocked; deleting stops at the first error and needs the present name |
| `EntityScreensHold` | decisions that are drawn are decided, redirections end; every tab is loaded; a term needs a preview; tags settle |
| `SessionHolds` | somebody is signed in exactly if there is a token; a refused token is being signed out; what loads was asked for; only complete settings are sent, for their own user; the page of the tasks goes on being loaded |
| `PropertiesHold` | saved property values are valid |

The further configurations are kept next to the runs. Each checks what a comment, a label
or a test of the repository says, or a run's property with fewer restrictions, and is
violated:

| configuration (module) | property | what is said | what happens |
|---|---|---|---|
| `ProfilesSaid.cfg` (`MCProfiles`) | `OlderRetained` | "The older one is retained." (`aleph/model/entityset.py:202`) | the newer one is |
| `EntityPruneIsFull.cfg` (`MCEntityStore`) | `PruneIsFull` | a prune removes the entity everywhere (`aleph/logic/entities.py:249`) | an index job queued before the delete writes the document back |
| `UiEditorsSaid.cfg` (`MCUiEditors`) | `SavedIsSaved` | "Saved" (`ui/src/components/common/UpdateStatus.tsx:59`) | one answer sets the tag while another request is open or failed |
| the same | `MutationsStored` | "entity mutations are stored alongside their resulting layout" (`ui/src/react-ftm/components/NetworkDiagram/History.ts:24`) | an expansion is stored without the entities it created (`NetworkDiagram.tsx:384`) |
| the same | `LinesEnd` | `EdgesConnect` without its exception | a reference that embeds an entity which was removed is kept as an edge to a vertex that is not there (`GraphLayout.ts:171`); `Edge.isHidden` hides it, and it is stored with the layout |
| `UiScreensSaid.cfg` (`MCUiScreens`) | `PreviewFollowsQuery` | a new query closes the preview (`FacetedLayout.jsx:105`) | the discovery panel keeps the hash (`EntitySearchDiscovery.tsx:90`) |
| the same | `PreviewHasText` | the text tab of documents with a query (`selectors.js:477`) | the term stays in the address (`togglePreview.js:14`) for documents without that tab |
| the same | `ValuesDistinct` | duplicates are removed (`TextEdit.tsx:85`) | not those of the pending text (`TextEdit.tsx:77`) |
| the same | `SkippedAsShown` | "Skipped:" in the toolbar (`viewers/CSVExplorer.jsx:251`) | when another setting is changed, the worker spreads the missing ones as `undefined` over what it has (`util/sqlWorker.js:153`) and skips no rows any more |
| the same | `OnlyDismissedPersists` | only the dismissed messages are kept (`app/store.js:30`) | the flags of their request are kept with them, so a page that is left while messages are loading starts with messages that load for ever, or until the interval asks again |
| `UiStoreCleared.cfg` (`MCUiStore`) | `ClearedByMutation` | a mutation outdates everything (`reducers/mutation.js:45`) | a request sent before it and answered after it counts as newer |

The configurations named `...Said` check several of them at once: TLC reports each of the
invariants when it is told to go on
(`tlc -workers 1 -continue -config UiEditorsSaid.cfg MCUiEditors`), and each of the action
properties when it is the only one left in the configuration.

`SkippedAsShown` speaks of one step: once the file was fetched, a worker that
skips as many rows as the toolbar says goes on doing so when it takes a message while another
setting is shown as changed. A setting that is changed *before* the file was fetched is
lost in another way, by the answer of `init` that comes later (`sqlWorker.js:16`); the property
leaves that out.

`MutationsStored` has a consequence that takes eight steps and that no configuration is
large enough to reach. An entity is created, removed, found again by an expansion,
and then two steps are undone and done again: the redo deletes the entity for good while
the layout of the expansion draws it. `DrawnAsHeld` is therefore stated of all entities
except those that an expansion found and that its entry does not record (`unrecorded`).

### Why the bounds are enough

* `AuthzCache`: the lists of a key depend on one user, his groups and the rows of a
  collection; keys and collections do not interact except through a flush, which
  clears all. One reader and one editor, with two commits to overtake a read and then
  each other, reach every order of lookup, query, store, flush and commit, and a role that is
  deleted before, after or between them. The theorems hold for any number.
* `IndexDiff`: six ids leave room for a common id before, between and after two
  missing and two orphaned ones, and for a full and a partial batch.
* `EntityStore`: two entities with a reference are the smallest graph on which a
  prune cascades; with two edits an older edit can overtake a newer one. The requests do
  the same things, so they are symmetric; no property is temporal, which makes that sound.
* `Profiles`: with two requests at a time one reads before and commits after the other, and
  four in all are enough for three profiles, each with an entity in it, to be merged in a chain,
  with a negative or unsure judgement in one of them and one deleted meanwhile. One entity
  is of the collection and two are not, since only local ones have fragments and only from
  them a pair is decided; `profiles_one_profile` and `profiles_profile_visible` have two local ones.
  The theorems hold for any number.
* `Mappings`: three requests allow trigger, reindex and delete, or trigger, flush and
  trigger again, with the queued jobs in any order and two of them at a time; one failure puts
  a crash or an error into any step. The theorems hold for any number.
* `UiStore`: two requests are enough for one to overtake the other, three rows in pages of
  one for a page that arrives before the one it follows, and one change on the server for
  rows that are older than the others. The reducers differ by query, so eight of them are
  followed that between them take every branch. The theorems hold for any number.
* Diagrams: with three edits, undo and redo included, one is undone and redone, two are
  followed by an undo, and one is undone and then cut off by another. With four
  (`DiagramEdits = 4`) and the diagram alone (`Explored = {"diagram"}`) there are two to undo;
  that holds too, in 0.9 million states, and is left out of the run for its time. Autosave: three edits, so that a request can be overtaken
  while another one waits. What the set holds at first is one of two (`EntitySetValues`): a link
  and an entity that both embed one that is not held, or a link that embeds one that is held and
  an entity that refers to it by its id. Links that are made later refer by id.
  Tools: two vertices, with every pair of ends that fits.
* Search: values, dates and days are cut to the few that the controls tell apart (a
  range, one end of it, none). Viewers: two documents and a table of
  three rows, which is enough for a page, a paused parser and a setting changed while the file
  is read. Uploads: three folders in one another with files in the first and the
  last and two beside them, so that a folder is awaited, fails and is retried, and a file has
  three of them to wait for.
* Decisions: two matches, one of another profile; one judgement, which may be taken back;
  two decisions. Sessions: two tokens and
  two requests, so that a refusal of one is answered while the other is used; a form whose
  passwords are empty or long enough, so that they differ or agree; two visits to the
  page of the tasks, so that a timer of the first fires during the second. The theorems
  about all eight pages hold for any number.

Most configurations switch the deadlock check off: an editor or store that has used up its
bound on edits may stop, and so may a finished job. `authz_cache` and the `profiles` runs
keep it.

### What the violated runs show

* `index_diff_exact`: `index_diff` drops the id one stream is waiting for when the
  other catches up. `{2}` in the aggregator and `{1}` in the index: 2 is not reported
  missing, and a diff-only reindex leaves it out. `LosesAtMostOne` bounds the damage,
  and `DiffReindexComplete` gives the case in which there is none: an index that
  holds nothing but entities of the aggregator.
* `profiles_one_profile`: two requests judge the same entity, each into a profile of its own.
  Neither sees what the other has not committed yet, so neither merges, and the entity ends
  positively linked to two profiles of its collection, which `aleph/logic/profiles.py:5` says
  it can not be.
* `profiles_profile_visible`: rewriting the profile fragment of one entity deletes
  those of all others.
* `mappings_deleted`: an index job reads the fragments of a mapping, the flush of the deleted mapping
  empties both stores, and the index job writes the documents of what it read.

### Fairness

Three properties are about progress. `DiffEnds` assumes that a loop that can take
a step takes it. `PendingResolves` assumes weak fairness of each worker's own steps,
since a live worker runs its job to the end and takes the next, and of the retry
of stalled jobs, which a periodic task performs. `ResultSettles` assumes that every
request is answered, if only by the browser's own timeout (weak fairness of each slot's
answer), and that a view which may fetch does so (strong fairness, since a slot, which is a
bound of the model, may be taken by others in between: in the code the effect runs at
the next commit). Nothing is assumed of users, of
errors, or of the second half of a request: a mapping whose request died before the job
was queued does stay pending. A job is retried a limited number of times; the bound on
failures stands for runs that stay below the limit. The other specifications state
safety only and assume no fairness.

## What is proved

TLAPS checks the following for all values of the constants that satisfy the named
assumptions of the modules. On the server: the special roles are distinct from users and
groups, `None` is a new value, ids are integers, bounds are natural numbers. In the
editors: the names of a link, of a value, of the canvas and of the layout are not those of
entities (`DiagramAssumption`, `ToolsAssumption`, `SavedAssumption`); a year has at least
one month, each month begins after the one before, dates and limits are natural numbers
(`TimelineAssumption`); the order of a table names no entity twice (`TableAssumption`);
and an imported file has at most eleven queries that name items it has
(`MappingAssumption`). On the screens: lengths and counts are natural numbers, a year and a
month of the histogram are not empty (`SearchAssumption`); there are documents, with
numbers of rows (`ViewersAssumption`); files and folders are finite, distinct and have a
parent, and no folders are in one another in a circle (`UploadsAssumption`); people and labels are not called "none"
(`DialogsAssumption`); tokens, users and languages are not either, and an
installation offers languages there are (`SessionAssumption`); results are a list of
entities, tags are finite (`EntityPageAssumption`), and so are the matches
(`DecisionsAssumption`); the server's entities have properties of their schema, with valid
values at first (`PropertiesAssumption`).

| theorem | states |
|---|---|
| `AuthzCacheProofs!TypeCorrect` | `Spec => []TypeOK` |
| `AuthzCacheProofs!RightsAlwaysWellFormed` | `Spec => []RightsWellFormed` |
| `AuthzCacheProofs!CacheAlwaysCoherent` | `Spec => []CacheCoherent` |
| `IndexDiffProofs!DiffTypeCorrect` | `Spec => []TypeOK` |
| `IndexDiffProofs!DiffReindexIsComplete` | `Spec => []DiffReindexComplete` |
| `IndexDiffProofs!OrphansAlwaysExact` | `Spec => []OrphansExact` |
| `IndexDiffProofs!AlwaysLosesAtMostOne` | `Spec => []LosesAtMostOne` |
| `EntityStoreProofs!EntityTypes` | `Spec => []TypeOK` |
| `EntityStoreProofs!StoresAlwaysAgree` | `Spec => []StoresAgree` |
| `ProfilesProofs!ProfileTypes` | `Spec => []TypeOK` |
| `ProfilesProofs!AddingAlwaysMerges` | `Spec => AddingMerges` |
| `ProfilesProofs!MergesAlwaysKeepTogether` | `Spec => MergesKeepTogether` |
| `ProfilesProofs!NegativesAlwaysKept` | `Spec => NegativesKept` |
| `MappingsProofs!MappingTypeCorrect` | `Spec => []TypeOK` |
| `MappingsProofs!LoadAlwaysReplaces` | `Spec => LoadReplaces` |
| `MappingsProofs!FlushedEndsEmpty` | `Spec => []FlushedIsEmpty` |
| `UiStoreProofs!StoreTypes` | `Spec => []TypeOK` |
| `UiStoreProofs!StoreContiguous` | `Spec => []PagesContiguous` |
| `UiStoreProofs!StorePending` | `Spec => []PendingHasRequest` |
| `UiStoreProofs!StoreImplementsLifecycle` | `Spec => ImplementsLifecycle`, the refinement |
| `UiEditorsProofs!SavingAlwaysHolds` | `Spec => []SavingHolds` |
| `UiEditorsProofs!ToolsAlwaysHold` | `Spec => []ToolsHold` |
| `UiEditorsProofs!TableAlwaysHolds` | `Spec => []TableHolds` |
| `UiEditorsProofs!MappingAlwaysHolds` | `Spec => []MappingHolds` |
| `UiEditorsProofs!DiagramAlwaysHolds` | `Spec => []DiagramHolds` |
| `UiEditorsProofs!TimelineAlwaysHolds` | `Spec => []TimelineHolds` |
| `UiScreensProofs!SearchAlwaysHolds` | `Spec => []SearchHolds` |
| `UiScreensProofs!ViewersAlwaysHold` | `Spec => []ViewersHold` |
| `UiScreensProofs!FormsAlwaysSettle` | `Spec => []FormsSettle` |
| `UiScreensProofs!DeletionsAlwaysHold` | `Spec => DeletionsHold` |
| `UiScreensProofs!EntityScreensAlwaysHold` | `Spec => []EntityScreensHold` |
| `UiScreensProofs!SessionAlwaysHolds` | `Spec => []SessionHolds` |
| `UiScreensProofs!PropertiesAlwaysHold` | `Spec => []PropertiesHold` |

*Rights.* `RightsWellFormed` is not inductive: what is committed or stored was staged
or read in an earlier step. `RightsInv` adds that the rows an editor has staged
(`StagedWellFormed`) and the lists a request is about to store (`FillsWellFormed`)
are well formed too; well-formed rows grant well-formed lists (`GrantedWellFormed`).

*Coherence.* `CoherenceInv` adds the reads in flight: a read that no commit has
overtaken has read what the database still holds (`FillCoherent`, `LookupCoherent`).
A commit marks the reads it overtakes, and what it changes cannot be seen by lists of other
roles (`GrantedOther`). Entries are another matter: a commit that is followed by its flush
may leave them wrong, as the flush is due; an edit of permissions, whose flush is over,
may not, and marks only those it knows to have been stored since. That these are all there are
is `LateKnown`: between flush and commit whatever is cached is in `late`. Without that
flush `LateKnown` does not hold, and neither does the property.

*Diff.* When the index is part of the aggregator, `DiffInv` says where the streams
are (`Aligned`: what is left of the index's ids is what the aggregator's stream has
still to deliver of them) and that the reports are exact so far (`ReportedSoFar`).
`AlignedBack` and `OrphansSoFar` are their mirror images for an aggregator that is part
of the index. For any two stores `MissingInv` and `OrphanInv` say that an id that was
delivered and is no longer compared was reported, except one that was dropped when the
other stream ran out, after which nothing more is dropped; hence `LosesAtMostOne`.

*Entities.* An entity's three copies agree only when nothing is going on, so the invariant
says what holds of one entity meanwhile. `CopiesInv` is about the fragments: at most one
request works on the entity; while a reindex aggregates, its row is either still to be read
or in the bulk (`Gathered`); otherwise the fragments hold the edit of the request or the
row (`Copied`). `FollowUpInv` is about the documents and jobs: an entity that is being
deleted has no document and nothing that could restore it (`Vanishing`, and `Leaving` while
its prune is yet to be queued), and a document is that of the row or of the request's edit, or an index job or the reindex will make it so
(`Settled`, `Written`). Both leave out entities that raced; while a reindex rebuilds the
fragments `CopiesInv` leaves out only those that overlapped with it (`Suspect`), and that
is what makes `FlushIndex` a repair: with the documents gone, `FollowUpInv` holds again
of an entity that raced before. `StoresAgree` is the case in which nothing is going on.

*Profiles.* Nothing is assumed about the requests, of which there may be any number. `SaveKeeps`
is about one judgement on one view, with any set of profiles merged: it brings nothing into a
second profile and a positively judged entity into one (`KeepsOne`), keeps other entities
together (`KeepsTogether`) and their negatives (`KeepsApart`). `Combine` adds judgements up as
a set, so that no induction is needed; the newest of some profiles exists because numbers are
well-founded (`NewestExists`). `Inv` carries these facts about every request in progress
(`GoodRequest`), along with what makes a commit land where it was meant to: a request
changes no item outside of live profiles, and a profile that it creates is unknown to all others
(`Fresh`). A commit writes the difference, so where what it read is still so, the database ends
as the request meant it (`CommitsAsMeant`, `ReadAsItIs`), and the facts carry over.

*Mappings.* Types need to know that a worker maps only with a query it has read and that
a flush takes no other steps (`PcInv`). `AloneInv` says what `alone` means: next to a job that is
alone there is none that disturbs it. So what one worker does cannot reach the stores while
a job that is alone is half way (`BesideAlone`), and how far that job has come can be read off the
stores: `LoadInv` for loads, which is what `LoadReplaces` says at the last step, `FlushInv` for
flushes. `GoneInv` says of a mapping that is switched off or deleted: if a flush has run alone,
the stores are empty and every job under way is `Harmless`, that is, it read the row after the
change or has nothing to write, and this stays so (`CleanStays`); before that, a flush is queued
or under way (`FlushWaits`, `FlushGoesOn`), or one has met another job.

*Result store.* `Inv` joins the two properties to the types and to two facts they need:
the slice, the query and the requests belong together (`Followed_OK`), and before the
first page has arrived nothing but first pages is asked for (`FirstPageFirst`), without
which a later page that arrives first would leave a gap. The reducers are taken apart one
by one (`SliceSettles` and the lemmas it cites): each of them ends what it started.
`MergeSteps` shows that merging a page keeps rows contiguous and changes their number the
way the life cycle allows.

*Refinement.* `LifecycleInit` and `LifecycleNext` map initial states and steps. A step that
sends requests for the list raises the number of open ones (`SendLifecycle`), an answer
lowers it by one (`AnswerLifecycle`), and all others leave the three abstract variables
alone; the numbers are cardinalities of finite sets of slots. `UiStore`'s fairness is not
needed: the life cycle promises no progress.

*Editors.* Each editor's module ends with its inductive invariant `Inv`; a step of
`UiEditors` is one of the open editor's, so a theorem about one page needs only that
page's `Inv`. What each adds to the property is this.

*Saving.* `SavingHolds` speaks of the end, when nothing is under way. `Follows` says what
holds before: the last request about an entity or the layout that is still open asks for
what the editor shows, and if there is none the server has it. A request that creates an
entity or removes one has no other next to it (`CreatesAlone`), since the editor waits.
`TypeOK` is part of the invariant.

*Tools.* A dialog that is closed keeps its ends, so that they differ is needed of closed
ones too (`EndsDiffer`), and of an edge that is being drawn (`EdgeDiffers`). A count that
arrives is compared to the vertex of the menu, whose counts are its own as long as the
menu is that vertex's (`MenuOfThing`, `MenuCountsMatch`). `ItemDragged` says what is
dragged in which mode: only the key that removes the item leaves the mode behind.

*Table.* The rows are built at one commit out of what an earlier one left: `ShownArranged`
says the list shown is an arrangement of the entities, with none twice, and `RowsOfTab` and
`RowsMarked` say of which tab and selection the rows are before they are compared. The
lemmas about lists that enumerate a set are proved once and used for sorting, filtering
and pasting.

*Mapping.* References are closed not only in the list but in each place a list comes from
or goes to: the file, the store, the requests and the server (`QueriesClosed`, `FileKnown`).
The colors of the items differ if there are no more items than colors (`QueriesShort`,
`Colored`). `Load`, a recursive function, gives an item its color one after another; it is
unrolled to the eleven there are, which takes no induction.

*Diagram.* `HistoryReplays` is about any two neighbours of the history, so all of the
invariant is about every entry: its changes lead from the entities of its predecessor's
layout to those of its own (`ChangesFit`), its groupings name vertices (`GroupsDrawn`,
unless an expansion was drawn into a layout that undo had replaced), its layout shows what was
held at the time and its edges end in vertices (`EntryShows`), and what is drawn is
the layout at `position`. The ends that a link brings with it are those that links of the
set embed when the diagram opens (`Embedded`): links made in the editor refer by id. Undo and redo then exchange one entry's layout and entities for
those of the next; an edit cuts the history off and adds an entry that fits. Entities in
`unrecorded`, which only grows, are left out.

*Timeline.* The chart is computed from the items, so the invariant is short and the
proof is arithmetic: a day lies in the month that `MonthOf` finds (`MonthOfIs`), months and
years of a chart begin no later and end no earlier than the dates they were taken from
(`StartsBefore`, `EndsAfter`), for any division of years into months.

*Screens.* Each screen's module ends with its inductive invariant `Inv` as well. For every
page there are three lemmas: its first state satisfies `Inv` (`...Init`), every step keeps
it (`...Step`, one lemma per action below it), and `Inv` implies the property (`...Show`);
`PageStays` says that a step of `UiScreens` is one of the page that is open. The operators of `UiLists` and the recursive
functions of the pages are characterised once in lemmas at the beginning. What each `Inv`
adds is this.

*Search.* A range is whole because every control that sets one end sets the other in the
same query, but for the histogram and the tags, which replace a range by one they compute:
they need to know that intervals are years, months or days, that these have at least one
day, and that a date is rounded down and up to the same interval.

*Viewers.* `ViewersFollow` speaks of a quiet explorer. `ExplorerKept` follows the last file that
was read and the last query: as long as nothing failed, the columns of the file are shown
or on their way; the last query on its way to the worker is the one shown; and if there is
none, the last rows on their way back, or those shown, are its answer. An answer
to an older query can only be followed by a newer one, since both directions keep their
order. The PDF's rotation is known only once its page is (`PdfKept`). `StreamTyped` and
`NeverStalls` are proved for any chunk and any number of rows, claimed or real.

*Uploads.* `Traced` ties what the dialog marks to what was sent: what succeeded is stored, what is
uploading is not waiting, and what is in a folder that arrived was taken up. That what is done
was reported then follows for files at any depth (`NotSent`): were a file neither stored nor in
a folder with an error, then each of the folders around it that was not sent would be in
another one that was not sent either, and some of the folders would be in a circle. The limit is a cardinality, and one slot is freed before one is
taken. `DeletionsHold` is an action property; it needs no more than the types and
`Remembered`, which says that the field of a dialog that is opened again holds what was
typed in it.

*Dialogs.* The dialog of the rights waits from its opening until the list comes
(`WaitsForRights`); all others wait exactly for what they have sent.

*Decisions.* `DecisionsSettle` speaks of the end, so `Inv` says of a match that was decided: what
is drawn is what the last request for it asks for, or what the server has if there is none
(`Arriving`), unless one failed or was overtaken (`lost`). Redirections end because
`redirects` and those that can still follow (`RedirectsLeft`) are never more than two
together.

*Entity page.* `TabsAreLoaded` compares two cascades of conditions on the schema: for each tab
that `EntityViews` draws, the part it needs is one that `EntityContextLoader` wants for that
entity, so that it was asked for or is among what the next update asks for (`Missing`). For
tags, what is awaited is in `requests`, which is a part of `TagsSettle` itself.

*Session.* `TokensIssued` says that tokens in requests, in the session and in the address were
issued, and that the one the provider sends the user back with is known to nobody else: hence
signing in with it cannot bring back a token that was refused. `FormOfUser` is why a
form is sent for its own user. Next to a request of signing out, others may sign in; that a
refused token is being ended holds because a refusal *adds* a request to sign out and
only its answer, which ends whatever session there is, takes it away. For the page of the
tasks every answer, and every timer that is cleared, leaves a request or another timer of
the same visit.

*Properties.* An editor outlives the selection of another entity, so the invariant ties the two:
the property being edited belongs to the selected entity's schema (`OfItsSchema`), and what the
editor holds may be put into it (`EditorFits`).

*Only model-checked:* `DiffEnds`, `PendingResolves` and `ResultSettles` (liveness);
`SearchKeeps`, whose parsing of search texts goes through texts of any length and is induction
over data; and `TypeOK` of `UiEditors` and `UiScreens` as a whole. Of the pages' type invariants,
those parts are proved that a property needs (`TypesKept`, `StreamTyped`, `HistoryTypes`, and
`TypeOK` of `UiAutosave`).

## What is not modelled

* In the modelled parts of the server: refresh intervals of Elasticsearch (writes are
  visible at once), bulk requests that succeed in part, the admin bypass, tags added while
  indexing, filters of a reindex by schema, time and origin, the entity set a mapping
  may fill, `cleanup_mappings`, duplicate permission rows, profiles of the entities of `EntityStore`.
  A prune that does not die is one step, though it goes from entity to entity.
* In the browser: what is drawn where (force layout, viewport, colours, the export to SVG),
  spreadsheets', maps' and viewers' libraries, formatting and translation, the parsing of
  files, and whether the server accepts a request, which is left open. Pages that only
  combine components, exports and alerts are left out; of signing in with a provider only
  the way back, with a token in the address, is there.
* A page is explored from its opening to its closing, alone. What two open pages of one
  browser do to each other goes through the store (`UiStore`) and is not composed with
  the editors.
* Whole components, with the reason for each, are in `PROJECT.json` with status
  `not_modelled`. Serializers, search queries, translations, mail and metrics keep no
  state of their own; cross reference scoring and ingestion of files are done by
  libraries and other services.

## Plan

Done: the access lists, the comparison, entities, profiles and mappings of the server;
the result store with its abstract specification; the editors and screens of the browser.
Left, the most important behaviour first:

1. *Exports and archive*: complete, retry, expire and garbage collection, two exports with
   the same contents; a completed, unexpired export has its file.
2. *Collections*: creation and restoration by foreign id, flags that depend on each
   other, deletion and cancellation next to running jobs, composed with `EntityStore`.
3. *Alerts and notifications*: the watermark, the page of 50 and expiry.
4. *Cross reference, bookmarks and tags, resolver, statistics cache*: decisions
   while matches are regenerated; check-then-insert; fill after invalidation.
5. *Abstract specifications* for the server's modules: one copy of an entity for
   `EntityStore`, one set of entities per mapping for `Mappings`, a comparison of two sets
   for `IndexDiff`, a map of rights without a cache for `AuthzCache`.
6. *Proofs*: the remaining type invariants of the pages, and the refinements of item 5 once
   they are stated.
