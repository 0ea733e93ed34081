----------------------------- MODULE UiViewers -----------------------------
(***************************************************************************)
(* Three viewers of a document.  The explorer of a table asks a worker     *)
(* that holds the file: messages both ways are delivered in order, and the *)
(* worker goes on answering while it reads the file again.  The viewer of  *)
(* a PDF follows the address, which its own controls, the search in it and *)
(* the list behind it change.  The plain table reads a file in chunks and  *)
(* pauses when it has enough.                                              *)
(***************************************************************************)
EXTENDS UiLists, TLC

CONSTANTS
  File,        \* the lines of a table, each a sequence of numbers
  Separator,   \* what separates its cells
  Separators,  \* what can be chosen, without "auto"
  Searches,    \* numbers that are looked for; 0 is nothing
  Operators,   \* of filters: "equals", "gt", "not_contains"
  PageSize,
  MaxSkipped,
  MaxEdits,
  MaxQueued,   \* messages on their way to the worker
  Docs,        \* PDF documents, and the files of the plain table
  NumPages,    \* document -> its pages
  Hits,        \* document -> the pages that its search finds
  Turned,      \* the rotation a page has in the file
  Term,        \* what the list behind was searched for, or None
  FileRows,    \* document -> rows of its file
  RowCount,    \* document -> the number of rows it claims, 0 if none
  Chunk,
  Requested,   \* rows wanted at first
  MoreRows,    \* and each time more are wanted
  MaxStreams

VARIABLES
  panel,    \* which viewer is used
  status,   \* of the explorer: "loading", "table" or "error"
  shown,    \* the settings it shows
  query, table,
  linking,  \* the address of the file is being resolved
  inbox, outbox,
  edits,    \* what the user did in it
  worker,   \* [text, settings, asked, fetching, jobs, db]
  address, mode, library, counts, resolving, resolved, pageData, rotation,
  stream    \* of the plain table: [doc, url, waiting, requested, rows, parser, streams]

explorer == <<status, shown, query, table, linking, inbox, outbox, worker, edits>>
pdf == <<address, mode, library, counts, resolving, resolved, pageData, rotation>>
vars == <<panel, explorer, pdf, stream>>

None == "none"

-----------------------------------------------------------------------------
(* The worker *)

Defaults == [skip |-> 0, generic |-> FALSE, sep |-> "auto"]
NoDb == [columns |-> <<>>, data |-> <<>>, made |-> FALSE]

\* A line whose separator is another one is a single cell.
Joined(line) == FoldLeft(LAMBDA a, b : 10 * a + b, 0, line)

Parsed(s) ==
  LET kept == SubSeq(File, s.skip + 1, Len(File)) IN
  IF s.sep \in {"auto", Separator} THEN kept
  ELSE [i \in DOMAIN kept |-> <<Joined(kept[i])>>]

Header(s) ==
  [i \in DOMAIN Parsed(s)[1] |->
     IF s.generic THEN "col" \o ToString(i) ELSE ToString(Parsed(s)[1][i])]

Database(s) ==
  [columns |-> Header(s), made |-> TRUE,
   data |-> IF s.generic THEN Parsed(s) ELSE Tail(Parsed(s))]

Message(type) == [type |-> type, columns |-> <<>>, rows |-> <<>>, total |-> 0, sep |-> None]

Ready(s) ==
  [Message("ready") EXCEPT !.columns = Header(s), !.total = Len(Database(s).data),
                           !.sep = IF s.sep = "auto" THEN Separator ELSE s.sep]

HasColumn(db, col) == col \in ToSet(db.columns)
Index(db, col) == IndexOf(db.columns, col)

Holds(cell, f) ==
  CASE f.val = 0 -> TRUE
    [] f.op = "equals" -> cell = f.val
    [] f.op = "gt" -> cell > f.val
    [] f.op = "not_contains" -> cell # f.val

\* A filter of a column that there is no more is passed over.
Kept(db, q, row) ==
  /\ q.search # 0 => q.search \in ToSet(row)
  /\ \A col \in DOMAIN q.filters :
       HasColumn(db, col) => Holds(row[Index(db, col)], q.filters[col])

Ordered(db, q, rows) ==
  IF ~HasColumn(db, q.sortCol) THEN rows
  ELSE LET key(row) == IF q.desc THEN 0 - row[Index(db, q.sortCol)]
                       ELSE row[Index(db, q.sortCol)]
           places == SortSeq([i \in DOMAIN rows |-> i],
                       LAMBDA i, j : \/ key(rows[i]) < key(rows[j])
                                     \/ key(rows[i]) = key(rows[j]) /\ i < j)
       IN [i \in DOMAIN rows |-> rows[places[i]]]

Found(db, q) == Ordered(db, q, SelectSeq(db.data, LAMBDA row : Kept(db, q, row)))

PageRows(db, q) ==
  LET last == q.page * PageSize
      all == Len(Found(db, q))
  IN SubSeq(Found(db, q), last - PageSize + 1, IF last < all THEN last ELSE all)

\* The total is read from the rows: a page behind the last has none.
Answer(db, q) ==
  [Message("results") EXCEPT !.rows = PageRows(db, q),
     !.total = IF PageRows(db, q) = <<>> THEN 0 ELSE Len(Found(db, q))]

\* The file is fetched once, and read again with each change of a setting.
WorkerInit(m) ==
  worker' = [worker EXCEPT !.fetching = TRUE, !.asked = m.settings]

WorkerUpdate(m) ==
  worker' = [worker EXCEPT !.settings = m.settings, !.jobs = Append(@, m.settings)]

WorkerReceives ==
  /\ inbox # <<>>
  /\ inbox' = Tail(inbox)
  /\ LET m == Head(inbox) IN
     \/ m.type = "init" /\ WorkerInit(m) /\ UNCHANGED outbox
     \/ m.type = "updateSettings" /\ WorkerUpdate(m) /\ UNCHANGED outbox
     \/ /\ m.type = "query" /\ UNCHANGED worker
        /\ outbox' = IF worker.db.made THEN Append(outbox, Answer(worker.db, m.query))
                     ELSE outbox
  /\ UNCHANGED <<status, shown, query, table, linking>>

\* What arrived before the file was there is forgotten by init.
WorkerFetches ==
  /\ worker.fetching
  /\ \/ /\ worker' = [worker EXCEPT !.fetching = FALSE, !.text = TRUE,
                        !.settings = worker.asked, !.jobs = Append(@, worker.asked)]
        /\ UNCHANGED outbox
     \/ /\ worker' = [worker EXCEPT !.fetching = FALSE]
        /\ outbox' = Append(outbox, Message("error"))
  /\ UNCHANGED <<status, shown, query, table, linking, inbox>>

ProcessCSV ==
  /\ worker.jobs # <<>>
  /\ LET s == Head(worker.jobs)
         readable == worker.text /\ s.skip < Len(File) IN
     /\ worker' = [worker EXCEPT !.jobs = Tail(@),
                                 !.db = IF readable THEN Database(s) ELSE NoDb]
     /\ outbox' = Append(outbox, IF readable THEN Ready(s) ELSE Message("error"))
  /\ UNCHANGED <<status, shown, query, table, linking, inbox>>

-----------------------------------------------------------------------------
(* The explorer *)

Post(m) == Len(inbox) < MaxQueued /\ inbox' = Append(inbox, m)

InitMessage == [type |-> "init", settings |-> shown, query |-> query]
SettingsMessage(s) == [type |-> "updateSettings", settings |-> s, query |-> query]
QueryMessage(q) == [type |-> "query", settings |-> Defaults, query |-> q]

\* The address is resolved for the settings of the moment it was asked for,
\* those of the start.
Link ==
  /\ linking /\ linking' = FALSE
  /\ \/ /\ Post([InitMessage EXCEPT !.settings = Defaults])
        /\ UNCHANGED status
     \/ status' = "error" /\ UNCHANGED inbox
  /\ UNCHANGED <<shown, query, table, outbox, worker>>

\* A faulty variant: the first page is shown as soon as there are rows.
ReceiveWithoutQuery(m) ==
  CASE m.type = "ready" ->
         /\ table' = [columns |-> m.columns, rows |-> table.rows, total |-> m.total]
         /\ shown' = IF shown.sep = "auto" THEN [shown EXCEPT !.sep = m.sep] ELSE shown
         /\ status' = IF status = "error" THEN "error" ELSE "table"
         /\ IF table.rows = <<>> THEN Post(QueryMessage(query)) ELSE UNCHANGED inbox
    [] m.type = "results" ->
         /\ table' = [table EXCEPT !.rows = m.rows, !.total = m.total]
         /\ UNCHANGED <<shown, status, inbox>>
    [] m.type = "error" ->
         /\ status' = "error"
         /\ UNCHANGED <<table, shown, inbox>>

\* An error stays: nothing but a new explorer clears it.
Receive(m) ==
  CASE m.type = "ready" ->
         /\ table' = [columns |-> m.columns, rows |-> table.rows, total |-> m.total]
         /\ shown' = IF shown.sep = "auto" THEN [shown EXCEPT !.sep = m.sep] ELSE shown
         /\ status' = IF status = "error" THEN "error" ELSE "table"
         /\ Post(QueryMessage(query))
    [] m.type = "results" ->
         /\ table' = [table EXCEPT !.rows = m.rows, !.total = m.total]
         /\ UNCHANGED <<shown, status, inbox>>
    [] m.type = "error" ->
         /\ status' = "error"
         /\ UNCHANGED <<table, shown, inbox>>

OnMessage ==
  /\ outbox # <<>> /\ outbox' = Tail(outbox)
  /\ Receive(Head(outbox))
  /\ UNCHANGED <<query, linking, worker>>

RunQuery(q) ==
  /\ status # "error"
  /\ query' = q
  /\ Post(QueryMessage(q))
  /\ UNCHANGED <<status, shown, table, linking, outbox, worker>>

OnSearch == \E s \in Searches : s # query.search /\ RunQuery([query EXCEPT !.search = s, !.page = 1])

OnSort(col) ==
  RunQuery([query EXCEPT !.sortCol = col, !.page = 1,
                         !.desc = query.sortCol = col /\ ~query.desc])

TotalPages == (table.total + PageSize - 1) \div PageSize

OnPage ==
  /\ TotalPages > 1
  /\ \/ query.page # 1 /\ RunQuery([query EXCEPT !.page = @ - 1])
     \/ query.page # TotalPages /\ RunQuery([query EXCEPT !.page = @ + 1])

TableActions ==
  /\ status = "table" /\ table.columns # <<>>
  /\ OnPage \/ \E col \in ToSet(table.columns) : OnSort(col)

\* The Enter key needs a column only: an empty value filters nothing.
OnApplyFilter ==
  \E col \in ToSet(table.columns), op \in Operators, v \in Searches :
    RunQuery([query EXCEPT !.page = 1,
      !.filters = (col :> [op |-> op, val |-> v]) @@ query.filters])

RemoveFilter ==
  \E col \in DOMAIN query.filters :
    RunQuery([query EXCEPT !.page = 1,
      !.filters = [c \in DOMAIN query.filters \ {col} |-> query.filters[c]]])

FilterBar ==
  /\ status # "error" /\ table.columns # <<>>
  /\ RemoveFilter \/ OnApplyFilter

\* The worker is sent the setting that changed, and the others are undefined.
OnSettingsChange(s, patch) ==
  /\ status # "error"
  /\ shown' = s
  /\ Post(SettingsMessage(patch))
  /\ UNCHANGED <<status, query, table, linking, outbox, worker>>

Settings ==
  \/ \E n \in 0..MaxSkipped :
       /\ ~shown.generic /\ n # shown.skip
       /\ OnSettingsChange([shown EXCEPT !.skip = n], [Defaults EXCEPT !.skip = n])
  \/ \E sep \in Separators \cup {"auto"} :
       /\ sep # shown.sep
       /\ OnSettingsChange([shown EXCEPT !.sep = sep], [Defaults EXCEPT !.sep = sep])
  \/ LET g == ~shown.generic IN
       OnSettingsChange([shown EXCEPT !.generic = g], [Defaults EXCEPT !.generic = g])

Explorer ==
  /\ \/ /\ Link \/ OnMessage \/ WorkerReceives \/ WorkerFetches \/ ProcessCSV
        /\ UNCHANGED edits
     \/ /\ edits < MaxEdits /\ edits' = edits + 1
        /\ OnSearch \/ TableActions \/ FilterBar \/ Settings
  /\ UNCHANGED <<pdf, stream>>

-----------------------------------------------------------------------------
(* The viewer of a PDF.  A preview of another document keeps the page that *)
(* the address names; the viewer is kept, or made anew, as it was loaded.  *)

SearchShown == address.q # None /\ address.page = 0
Page == IF address.page = 0 THEN 1 ELSE address.page
Pages == counts[address.doc]
Open == address.doc # None

Normal(degrees) == IF degrees < 0 THEN (360 + degrees) % 360 ELSE degrees % 360

\* A faulty variant: the next page that is loaded sets the rotation.
SetRotationLater(data, a) == rotation

\* Another address: another document's file is resolved, another rotation set.
SetRotation(data, a) ==
  IF data = <<>> THEN rotation ELSE Normal(Turned[data[1]][data[2]] + a.rotate)

NotAsked == -1
Pending == -2
Failed == -3

FetchPage(doc) ==
  counts' = IF counts[doc] = NotAsked THEN [counts EXCEPT ![doc] = Pending] ELSE counts

Mount(doc) ==
  /\ resolved' = None /\ resolving' = {doc}
  /\ pageData' = <<>> /\ rotation' = 0
  /\ FetchPage(doc)

Follow(a) ==
  /\ address' = a
  /\ \/ /\ a.doc # None /\ address.doc # None
        /\ IF a.doc = address.doc THEN UNCHANGED <<resolved, resolving>>
           ELSE resolved' = None /\ resolving' = resolving \cup {a.doc}
        /\ rotation' = IF a.rotate # address.rotate THEN SetRotation(pageData, a)
                       ELSE rotation
        /\ FetchPage(a.doc)
        /\ UNCHANGED pageData
     \/ a.doc # address.doc /\ a.doc # None /\ Mount(a.doc)
     \/ /\ a.doc = None
        /\ resolved' = None /\ resolving' = {}
        /\ pageData' = <<>> /\ rotation' = 0
        /\ UNCHANGED counts
  /\ UNCHANGED <<mode, library>>

\* The list behind opens a preview, closes it with the same row, or, with the
\* button of the preview, closes it and forgets the page.
TogglePreview ==
  /\ address.place = "preview"
  /\ \/ \E d \in Docs :
          IF d # address.doc THEN Follow([address EXCEPT !.doc = d, !.q = address.search])
          ELSE Follow([address EXCEPT !.doc = None, !.q = None])
     \/ Open /\ Follow([address EXCEPT !.doc = None, !.page = 0, !.q = None])

\* A faulty variant: the file that was resolved last is shown.
ResolvedLast(d) == resolved' = d

\* Only the address of the document that is still shown is kept.
Resolved(d) == resolved' = IF address.doc = d THEN d ELSE resolved

ResolvePdfUrl ==
  \E d \in resolving :
    /\ resolving' = resolving \ {d}
    /\ Resolved(d) \/ UNCHANGED resolved
    /\ UNCHANGED <<address, mode, library, counts, pageData, rotation>>

Counted ==
  \E d \in Docs :
    /\ counts[d] = Pending
    /\ \E n \in {NumPages[d], Failed} : counts' = [counts EXCEPT ![d] = n]
    /\ UNCHANGED <<address, mode, library, resolving, resolved, pageData, rotation>>

FetchComponents ==
  /\ ~library /\ library' = TRUE
  /\ UNCHANGED <<address, mode, counts, resolving, resolved, pageData, rotation>>

Shown == Open /\ Pages >= 0
PdfShown == Shown /\ mode = "view" /\ ~SearchShown /\ resolved # None

\* The page is drawn when the library and its file are there.
OnPageLoad ==
  /\ PdfShown /\ library /\ Page \in 1..NumPages[resolved]
  /\ pageData # <<resolved, Page>>
  /\ pageData' = <<resolved, Page>>
  /\ rotation' = SetRotation(pageData', address)
  /\ UNCHANGED <<address, mode, library, counts, resolving, resolved>>

\* A search in the document leaves the page, and the query of the list behind.
OnDocumentSearch ==
  /\ Shown
  /\ \E q \in {None, Term} : Follow([address EXCEPT !.page = 0, !.q = q, !.search = None])

\* From the preview of a search a hit leads to the document's own page.
GetResultLink(page) ==
  IF address.place = "preview" /\ address.search # None
  THEN [address EXCEPT !.place = "document", !.page = page, !.search = None, !.rotate = 0]
  ELSE [address EXCEPT !.page = page, !.rotate = 0]

ChooseHit ==
  /\ Shown /\ SearchShown
  /\ \E page \in Hits[address.doc] : Follow(GetResultLink(page))

\* The text of a page, with the buttons above it.
TextShown == Shown /\ mode = "text" /\ ~SearchShown

PagingShown == Open /\ Pages > 0 /\ (TextShown \/ PdfShown)

PageLink(p) == [address EXCEPT !.page = p]
RotateLink(delta) == [address EXCEPT !.rotate = Normal(address.rotate + delta)]

\* The field accepts 0 and the number of pages, nothing above.
GoToPage ==
  \E p \in 0..Pages : Follow([PageLink(p) EXCEPT !.search = None])

PagingButtons ==
  /\ PagingShown
  /\ \/ Page > 1 /\ Follow(PageLink(Page - 1))
     \/ Page < Pages /\ Follow(PageLink(Page + 1))
     \/ GoToPage
     \/ mode = "view" /\ \E delta \in {-90, 90} : Follow(RotateLink(delta))

Pdf ==
  /\ \/ TogglePreview \/ ResolvePdfUrl \/ Counted \/ FetchComponents \/ OnPageLoad
     \/ OnDocumentSearch \/ ChooseHit \/ PagingButtons
  /\ UNCHANGED <<explorer, stream>>

-----------------------------------------------------------------------------
(* The plain table.  A row is known by the file it comes from.             *)

RowTotal == IF RowCount[stream.doc] # 0 THEN RowCount[stream.doc] ELSE Len(stream.rows)

\* A faulty variant: the parser goes on only when a chunk arrives.
ResumeNever(c) == c

Resume(c) ==
  IF Len(c.rows) < c.requested /\ c.parser # 0
  THEN [c EXCEPT !.streams[c.parser].paused = FALSE] ELSE c

\* After each change: read on if rows are missing, fetch another file.
DidUpdate(c) ==
  LET r == Resume(c) IN
  IF r.url = r.doc THEN r
  ELSE [r EXCEPT !.url = r.doc, !.waiting = Append(@, r.doc)]

\* What was read from the file before stays, and is read on.
ShowDocument ==
  \E d \in Docs \ {stream.doc} : stream' = DidUpdate([stream EXCEPT !.doc = d])

FetchCsv ==
  \E i \in DOMAIN stream.waiting :
    LET url == stream.waiting[i]
        rest == [stream EXCEPT !.waiting = RemoveAt(@, i)] IN
    \/ stream' = rest
    \/ /\ url = stream.url
       /\ stream' = [rest EXCEPT !.streams =
                       Append(@, [doc |-> url, given |-> 0, paused |-> FALSE])]

ProcessCsvResults ==
  \E i \in DOMAIN stream.streams :
    LET s == stream.streams[i]
        n == IF s.given + Chunk > FileRows[s.doc] THEN FileRows[s.doc] - s.given ELSE Chunk
        rows == stream.rows \o [j \in 1..n |-> s.doc] IN
    /\ ~s.paused /\ s.given < FileRows[s.doc]
    /\ stream' = DidUpdate([stream EXCEPT !.rows = rows, !.parser = i,
                   !.streams[i].given = @ + n,
                   !.streams[i].paused = Len(rows) > stream.requested])

FetchMoreRows ==
  LET wanted == stream.requested + MoreRows
      next == IF RowTotal < wanted THEN RowTotal ELSE wanted IN
  /\ next > stream.requested
  /\ stream' = DidUpdate([stream EXCEPT !.requested = next])

PlainTable ==
  /\ ShowDocument \/ FetchCsv \/ ProcessCsvResults \/ FetchMoreRows
  /\ UNCHANGED <<explorer, pdf>>

-----------------------------------------------------------------------------

FirstDoc == CHOOSE d \in Docs : TRUE

NewExplorer ==
  /\ status = "loading" /\ shown = Defaults
  /\ query = [search |-> 0, filters |-> <<>>, sortCol |-> None, desc |-> FALSE, page |-> 1]
  /\ table = [columns |-> <<>>, rows |-> <<>>, total |-> 0]

NewWorker ==
  [text |-> FALSE, settings |-> Defaults, asked |-> Defaults, fetching |-> FALSE,
   jobs |-> <<>>, db |-> NoDb]

NewStream ==
  [doc |-> FirstDoc, url |-> FirstDoc, waiting |-> <<FirstDoc>>,
   requested |-> Requested, rows |-> <<>>, parser |-> 0, streams |-> <<>>]

Init ==
  /\ panel \in {"explorer", "view", "text", "rows"}
  /\ NewExplorer /\ worker = NewWorker /\ stream = NewStream
  /\ edits = 0 /\ linking = (panel = "explorer") /\ inbox = <<>> /\ outbox = <<>>
  /\ address = [doc |-> None, page |-> 0, q |-> None, rotate |-> 0, search |-> Term,
                place |-> "preview"]
  /\ mode = IF panel = "text" THEN "text" ELSE "view"
  /\ library = FALSE /\ counts = [d \in Docs |-> NotAsked]
  /\ resolving = {} /\ resolved = None /\ pageData = <<>> /\ rotation = 0

Steps ==
  \/ panel = "explorer" /\ Explorer
  \/ panel \in {"view", "text"} /\ Pdf
  \/ panel = "rows" /\ PlainTable

Next ==
  /\ Steps
  /\ UNCHANGED panel
  /\ Len(stream'.streams) + Len(stream'.waiting) <= MaxStreams

Spec == Init /\ [][Next]_vars

-----------------------------------------------------------------------------

TypeOK ==
  /\ status \in {"loading", "table", "error"}
  /\ shown \in [skip : 0..MaxSkipped, generic : BOOLEAN, sep : Separators \cup {"auto"}]
  /\ query.page \in 1..(MaxEdits + 1) /\ Len(inbox) <= MaxQueued
  /\ address.page \in Nat /\ resolved \in Docs \cup {None} /\ rotation \in {0, 90, 180, 270}
  /\ stream.parser \in 0..Len(stream.streams)

\* The explorer's table.  When the worker has nothing left to do and no
\* message is on its way, the rows and their number are the answer to the
\* search, the filters, the order and the page that are shown, however often
\* they and the settings were changed while the file was read
\* (CSVExplorer.jsx runQuery and its onmessage, sqlWorker.js).
Quiet ==
  /\ inbox = <<>> /\ outbox = <<>> /\ ~linking
  /\ ~worker.fetching /\ worker.jobs = <<>>

TableAnswersQuery ==
  Quiet /\ status = "table" =>
    LET a == Answer(worker.db, query) IN
    table = [columns |-> worker.db.columns, rows |-> a.rows, total |-> a.total]

\* The PDF on the screen is that of the document in the address, and the page
\* that was loaded for it is turned as the address says, in whatever order the
\* links are resolved and the pages loaded (PdfViewer.jsx resolvePdfUrl,
\* setRotation).
PdfFollowsAddress ==
  /\ resolved # None => resolved = address.doc
  /\ Open /\ pageData = <<address.doc, Page>> =>
       rotation = Normal(Turned[address.doc][Page] + address.rotate)

\* A parser that was paused has read what is wanted: the plain table does not
\* wait for rows that nobody reads (csvContextLoader.jsx).
NeverStalls ==
  stream.parser # 0 /\ stream.streams[stream.parser].paused =>
    Len(stream.rows) >= stream.requested

\* The three together.
ViewersFollow == TableAnswersQuery /\ PdfFollowsAddress /\ NeverStalls

\* An inductive invariant from which ViewersFollow follows.  While there was no
\* error, the table has the columns of the last file that was read, or it is on
\* its way; and the query that is shown was sent last, its answer is on its way
\* or the table has it, or it will be sent when the file that was read is shown.
Has(box, type) == \E i \in DOMAIN box : box[i].type = type

Last(box, type, i) ==
  /\ i \in DOMAIN box /\ box[i].type = type
  /\ \A j \in DOMAIN box : box[j].type = type => j <= i

Ok == status # "error" /\ ~Has(outbox, "error")

LastColumns ==
  IF Has(outbox, "ready")
  THEN \A i \in DOMAIN outbox : Last(outbox, "ready", i) => outbox[i].columns = worker.db.columns
  ELSE status = "table" /\ table.columns = worker.db.columns

LastRows ==
  LET a == Answer(worker.db, query) IN
  IF Has(outbox, "results")
  THEN \A i \in DOMAIN outbox :
         Last(outbox, "results", i) => outbox[i].rows = a.rows /\ outbox[i].total = a.total
  ELSE table.rows = a.rows /\ table.total = a.total

ExplorerKept ==
  /\ inbox \in Seq(ToSet(inbox)) /\ outbox \in Seq(ToSet(outbox))
  /\ table = [columns |-> table.columns, rows |-> table.rows, total |-> table.total]
  /\ worker = [text |-> worker.text, settings |-> worker.settings, asked |-> worker.asked,
               fetching |-> worker.fetching, jobs |-> worker.jobs, db |-> worker.db]
  /\ \A i \in DOMAIN inbox : Last(inbox, "query", i) => inbox[i].query = query
  /\ \A i \in DOMAIN outbox : outbox[i].type \in {"ready", "results", "error"}
  /\ Ok /\ ~worker.db.made =>
       status = "loading" /\ ~Has(outbox, "ready") /\ ~Has(outbox, "results")
  /\ Ok /\ worker.db.made => LastColumns
  /\ Ok /\ worker.db.made /\ ~Has(outbox, "ready") /\ ~Has(inbox, "query") => LastRows

PdfKept ==
  /\ resolved # None => resolved = address.doc
  /\ pageData # <<>> => rotation = Normal(Turned[pageData[1]][pageData[2]] + address.rotate)

StreamTyped ==
  /\ stream \in [doc : Docs, url : Docs, waiting : Seq(Docs), requested : Nat, rows : Seq(Docs),
                 parser : Nat, streams : Seq([doc : Docs, given : Nat, paused : BOOLEAN])]
  /\ stream.parser <= Len(stream.streams)

Inv == ExplorerKept /\ PdfKept /\ StreamTyped /\ NeverStalls

\* The toolbar of the explorer tells how many rows are skipped ("Skipped:",
\* CSVExplorer.jsx:251): once the file was fetched, a worker that skips as many
\* goes on doing so when another setting is changed (sqlWorker.js:153).
GoesOnSkipping ==
  /\ worker.text /\ Len(inbox) = 1
  /\ worker.settings.skip = shown.skip /\ shown' = shown
  => worker'.settings.skip = shown.skip
=============================================================================
