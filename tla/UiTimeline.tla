----------------------------- MODULE UiTimeline -----------------------------
(***************************************************************************)
(* The timeline editor (ui/src/components/Timeline): its items and the     *)
(* imprecise dates they have, the chart that is laid out from them, and    *)
(* the dialog that adds an item and waits for the server.  Saving, and     *)
(* what the server makes of it, is in UiAutosave.                          *)
(*                                                                         *)
(* A date is a record of numbers, 0 where a part is missing.  Colours,     *)
(* captions and the order of the list are left out.                        *)
(***************************************************************************)
EXTENDS Integers, Sequences, FiniteSets, UiLists

CONSTANTS
  Items,       \* entities that can be on the timeline
  MonthStarts, \* the day of the year each month begins on, and the next year
  Spans,       \* the dates an item may have: records of start and end
  DaysMax,     \* DAYS_ZOOM_LEVEL_MAX_YEARS
  MonthsMax,   \* MONTHS_ZOOM_LEVEL_MAX_YEARS
  Schemata,    \* schema -> [starts, ends, caption, edge] of its properties
  FirstSchema  \* the schema the form begins with

VARIABLES
  writeable,
  entities,     \* item -> its dates, Nothing if it is not there
  selectedId,   \* may name an item that has been removed
  renderer,     \* "list" or "chart"
  zoomLevel,
  showCreateDialog,
  isSubmitting, \* of the dialog
  form,         \* its schema and the properties filled in
  isValid,      \* the validity of the form when it was last typed into
  pending,      \* items whose creation is awaited
  failed        \* a creation has failed

vars == <<writeable, entities, selectedId, renderer, zoomLevel,
          showCreateDialog, isSubmitting, form, isValid, pending, failed>>

dialog == <<showCreateDialog, isSubmitting, form, isValid, pending, failed>>

Date(y, m, d) == [year |-> y, month |-> m, day |-> d]
NoDate == Date(0, 0, 0)
Nothing == [start |-> Date(0, 0, 1), end |-> NoDate]
None == "none"

Present == {i \in Items : entities[i] # Nothing}

-----------------------------------------------------------------------------
(* ImpreciseDate and TimelineItem.  Days are counted from year 0. *)

Months == Len(MonthStarts) - 1
YearDays == MonthStarts[Months + 1]
MonthDays(m) == MonthStarts[m + 1] - MonthStarts[m]

\* Months are counted from year 0, too.
MonthStart(n) == (n \div Months) * YearDays + MonthStarts[(n % Months) + 1]

Day(y, m, d) == MonthStart(y * Months + m - 1) + d - 1

\* The expression admits day 31 of any month; isValid does not.
Valid(date) ==
  /\ date.year # 0
  /\ date.month # 0 /\ date.day # 0 => date.day <= MonthDays(date.month)

Earliest(date) ==
  Day(date.year, IF date.month = 0 THEN 1 ELSE date.month,
      IF date.day = 0 THEN 1 ELSE date.day)

Latest(date) ==
  LET m == IF date.month = 0 THEN Months ELSE date.month
  IN Day(date.year, m, IF date.day = 0 THEN MonthDays(m) ELSE date.day)

EarliestOf(i) == Earliest(entities[i].start)

\* An item without a valid end lasts as long as its start.
LatestOf(i) ==
  IF Valid(entities[i].end) THEN Latest(entities[i].end)
  ELSE Latest(entities[i].start)

-----------------------------------------------------------------------------
(* The chart *)

\* The chart leaves out the items without a start, and draws none whose start
\* is not a date; their ends count all the same.
ChartItems == {i \in Present : entities[i].start # NoDate}
Drawn == {i \in Present : Valid(entities[i].start)}

LatestDates(S) ==
  {LatestOf(i) : i \in {j \in S : \/ Valid(entities[j].start)
                                  \/ Valid(entities[j].end)}}

EarliestDate == Min({EarliestOf(i) : i \in Drawn})
LatestDate == Max(LatestDates(ChartItems))

MonthOf(day) ==
  (day \div YearDays) * Months
    + (CHOOSE m \in 0..(Months - 1) :
         MonthStarts[m + 1] <= day % YearDays /\ day % YearDays < MonthStarts[m + 2])

DayOfMonth(day) == day - MonthStart(MonthOf(day))

\* differenceInMonths: whole months
WholeMonths(a, b) ==
  MonthOf(b) - MonthOf(a) - (IF DayOfMonth(b) < DayOfMonth(a) THEN 1 ELSE 0)

Difference(a, b) == IF a < b THEN WholeMonths(a, b) ELSE WholeMonths(b, a)

\* getPadding, in months or in years
Padding(zoom) ==
  LET months == Difference(EarliestDate, LatestDate)
      AtLeastOne(n, diff) == IF n > diff + 1 THEN n - diff ELSE 1
  IN CASE zoom = "days" -> AtLeastOne(3, months)
       [] zoom = "months" -> AtLeastOne(12, months)
       [] zoom = "years" -> AtLeastOne(3, months \div Months)

ChartStart(zoom) ==
  IF zoom = "years"
  THEN Day((EarliestDate \div YearDays) - Padding(zoom), 1, 1)
  ELSE MonthStart(MonthOf(EarliestDate) - Padding(zoom))

\* The last day of the chart.
ChartEnd(zoom) ==
  IF zoom = "years"
  THEN Day((LatestDate \div YearDays) + Padding(zoom) + 1, 1, 1) - 1
  ELSE MonthStart(MonthOf(LatestDate) + Padding(zoom) + 1) - 1

\* selectAvailableZoomLevels: of all items, also those the chart leaves out
Years == (Max(LatestDates(Present)) - EarliestDate) \div YearDays

AvailableZoomLevels ==
  IF Drawn = {} THEN {"days", "months", "years"}
  ELSE {"years"} \cup (IF Years < MonthsMax THEN {"months"} ELSE {})
                 \cup (IF Years < DaysMax THEN {"days"} ELSE {})

ChosenZoomLevel == zoomLevel

\* selectZoomLevel: what was chosen, or the finest level that is available.
ZoomLevel ==
  CASE zoomLevel \in AvailableZoomLevels -> zoomLevel
    [] zoomLevel \notin AvailableZoomLevels
         /\ "months" \in AvailableZoomLevels -> "months"
    [] OTHER -> "years"

-----------------------------------------------------------------------------
(* The reducer *)

SelectEntity(i) == IF selectedId = i THEN None ELSE i

\* The viewer beside the timeline shows the selected item, if it is there.
SelectedEntity == IF selectedId \in Present THEN selectedId ELSE None

Select(i) ==
  /\ i \in Present
  /\ selectedId' = SelectEntity(i)
  /\ UNCHANGED <<writeable, entities, renderer, zoomLevel, dialog>>

Unselect ==
  /\ selectedId' = None
  /\ UNCHANGED <<writeable, entities, renderer, zoomLevel, dialog>>

\* The button lies in the row, whose click handler runs next: an item that
\* was not selected is, once it is gone.
Remove(i) ==
  /\ writeable /\ renderer = "list" /\ i \in Present
  /\ entities' = [entities EXCEPT ![i] = Nothing]
  /\ selectedId' = i
  /\ UNCHANGED <<writeable, renderer, zoomLevel, dialog>>

\* EntityViewerProperties
ChangeDates(span) ==
  /\ writeable /\ SelectedEntity # None
  /\ entities' = [entities EXCEPT ![SelectedEntity] = span]
  /\ UNCHANGED <<writeable, selectedId, renderer, zoomLevel, dialog>>

\* TimelineActions is there if the timeline is not empty.
SetRenderer ==
  /\ Present # {}
  /\ renderer' \in {"list", "chart"} \ {renderer}
  /\ UNCHANGED <<writeable, entities, selectedId, zoomLevel, dialog>>

SetZoomLevel ==
  /\ Present # {} /\ renderer = "chart"
  /\ zoomLevel' \in AvailableZoomLevels \ {zoomLevel}
  /\ UNCHANGED <<writeable, entities, selectedId, renderer, dialog>>

-----------------------------------------------------------------------------
(* The form *)

EmptyForm == [schema |-> FirstSchema, filled |-> {}]

StartFields(schema) ==
  LET starts == Schemata[schema].starts
  IN IF {"date", "startDate"} \subseteq starts THEN starts \ {"date"} ELSE starts

\* A start date is required if it is the only one; so is a caption.
Required(schema) ==
  (IF Cardinality(StartFields(schema)) < 2 THEN StartFields(schema) ELSE {})
    \cup (IF Schemata[schema].edge THEN {} ELSE {Schemata[schema].caption})

Fields(schema) ==
  StartFields(schema) \cup Schemata[schema].ends \cup {Schemata[schema].caption}

CheckValidity(f) == Required(f.schema) \subseteq f.filled

\* A text field is typed into or cleared: only then is the validity seen.
TypeField ==
  /\ showCreateDialog
  /\ \E field \in Fields(form.schema) :
       form' = [form EXCEPT !.filled =
                 IF field \in @ THEN @ \ {field} ELSE @ \cup {field}]
  /\ isValid' = CheckValidity(form')
  /\ UNCHANGED <<writeable, entities, selectedId, renderer, zoomLevel,
                 showCreateDialog, isSubmitting, pending, failed>>

\* The values are copied to an entity of the new schema.
ChangeSchema ==
  /\ showCreateDialog
  /\ \E schema \in DOMAIN Schemata \ {form.schema} :
       form' = [schema |-> schema, filled |-> form.filled \cap Fields(schema)]
  /\ UNCHANGED <<writeable, entities, selectedId, renderer, zoomLevel,
                 showCreateDialog, isSubmitting, isValid, pending, failed>>

\* TOGGLE_CREATE_DIALOG does not know whether it opens or closes.  A dialog
\* that closes forgets its form, and that it was submitting.
ToggleKeepsSubmitting ==
  /\ showCreateDialog' = ~showCreateDialog
  /\ form' = EmptyForm
  /\ UNCHANGED isSubmitting

Toggle ==
  /\ showCreateDialog' = ~showCreateDialog
  /\ form' = EmptyForm
  /\ isSubmitting' = FALSE

\* "Add item", or the dialog's close button.
ToggleDialog ==
  /\ writeable
  /\ Toggle
  /\ UNCHANGED <<writeable, entities, selectedId, renderer, zoomLevel,
                 isValid, pending, failed>>

\* The button is disabled, or loading; the browser checks the form again.
Submit(i) ==
  /\ showCreateDialog /\ isValid /\ ~isSubmitting
  /\ CheckValidity(form)
  /\ entities[i] = Nothing /\ i \notin pending
  /\ isSubmitting' = TRUE
  /\ pending' = pending \cup {i}
  /\ UNCHANGED <<writeable, entities, selectedId, renderer, zoomLevel,
                 showCreateDialog, form, isValid, failed>>

\* The answer toggles the dialog; CREATE_ENTITY adds the item and selects it.
Created(i, span) ==
  /\ i \in pending
  /\ pending' = pending \ {i}
  /\ entities' = [entities EXCEPT ![i] = span]
  /\ selectedId' = SelectEntity(i)
  /\ Toggle
  /\ UNCHANGED <<writeable, renderer, zoomLevel, isValid, failed>>

\* Nothing catches the error: the button goes on loading.
CreateFails(i) ==
  /\ i \in pending
  /\ pending' = pending \ {i}
  /\ failed' = TRUE
  /\ UNCHANGED <<writeable, entities, selectedId, renderer, zoomLevel,
                 showCreateDialog, isSubmitting, form, isValid>>

-----------------------------------------------------------------------------

Init ==
  /\ writeable \in BOOLEAN
  /\ \E S \in SUBSET Items :
       \E span \in Spans :
         entities = [i \in Items |-> IF i \in S THEN span ELSE Nothing]
  /\ selectedId = None /\ renderer = "list" /\ zoomLevel = "months"
  /\ showCreateDialog = FALSE /\ isSubmitting = FALSE
  /\ form = EmptyForm /\ isValid = FALSE
  /\ pending = {} /\ failed = FALSE

\* The list or the chart, and the viewer beside it.
RendererAndViewer ==
  \/ \E i \in Items : Select(i) \/ Remove(i)
  \/ Unselect
  \/ \E span \in Spans : ChangeDates(span)

Next ==
  \/ RendererAndViewer
  \/ \E i \in Items : Submit(i) \/ CreateFails(i)
  \/ \E i \in Items, span \in Spans : Created(i, span)
  \/ SetRenderer \/ SetZoomLevel
  \/ TypeField \/ ChangeSchema \/ ToggleDialog

Spec == Init /\ [][Next]_vars

-----------------------------------------------------------------------------
(* Properties *)

\* The type invariant (state.ts:17).
TypeOK ==
  /\ entities \in [Items -> Spans \cup {Nothing}]
  /\ selectedId \in Items \cup {None}
  /\ renderer \in {"list", "chart"} /\ zoomLevel \in {"days", "months", "years"}
  /\ form.schema \in DOMAIN Schemata /\ form.filled \subseteq Fields(form.schema)
  /\ pending \subseteq Items
  /\ {showCreateDialog, isSubmitting, isValid, failed} \subseteq BOOLEAN

\* Every bar of the chart begins and ends inside the chart, whatever dates the
\* items have and however precise they are, also one that ends before it
\* begins, and the chart has no more days or months than its level is meant
\* for (TimelineChart.tsx:40, TimelineChart/util.ts:22, state.ts:231).
ChartFits ==
  /\ \A i \in Drawn : /\ ChartStart(ZoomLevel) <= EarliestOf(i)
                      /\ LatestOf(i) <= ChartEnd(ZoomLevel)
  /\ Drawn # {} /\ EarliestDate <= LatestDate =>
       LET years == (LatestDate - EarliestDate) \div YearDays
       IN /\ ZoomLevel = "days" => years < DaysMax
          /\ ZoomLevel = "months" => years < MonthsMax

\* A dialog whose button is loading waits for an answer that will close it,
\* unless an answer was an error (TimelineItemCreateDialog.tsx:29).
SubmittingHasRequest == isSubmitting /\ ~failed => pending # {}

-----------------------------------------------------------------------------
(* The inductive invariant: the chart fits whatever dates the items have. *)

Inv ==
  /\ entities \in [Items -> Spans \cup {Nothing}]
  /\ SubmittingHasRequest
=============================================================================
