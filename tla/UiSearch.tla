------------------------------ MODULE UiSearch ------------------------------
(***************************************************************************)
(* The search screen: the query that is kept in the address, the facets,   *)
(* tags, columns and results that change it, the terms and the preview     *)
(* that follow it, and the form that composes it.                          *)
(*                                                                         *)
(* The state is cut into panels, one of which is chosen at the start: what *)
(* one of them changes is left alone by the others but for the query,      *)
(* which all of them replace as a whole.  Days are numbers from 0; the     *)
(* text of a query is a sequence of marks, or of the tokens of the form.   *)
(***************************************************************************)
EXTENDS UiLists

CONSTANTS
  DateFields, ListFields, \* facets that can be opened
  DefaultFacets,          \* the fields offered when none are configured
  Values,                 \* what a list facet offers
  DefaultSize, FacetTotal,
  YearDays, MonthDays,    \* every year, every month has as many days
  Shown,                  \* the days of the default interval: [from, to]
  LastDay,
  Columns, DefaultColumns,
  Entities,               \* a sequence: what is found, best first
  PageSize,
  Terms,                  \* sequences of marks
  MaxText, MaxAsked,      \* longest text, and how many answers are awaited
  Words, MaxTerms,        \* of the form
  Typed                   \* texts, sequences of tokens, typed in the bar

VARIABLES
  panel,
  search,   \* parameter -> sequence of values, as the address has them
  hash,     \* preview, columns and show_all_dates, in the address, too
  config,   \* the facets that are stored in the browser, None for defaults
  layout,   \* [hideFacets, isMobile, userToggled]
  result,   \* [q, rows, pending]: the list of results shown
  terms,    \* [fetched, loading, results] of the discovery
  asked,    \* texts whose terms have been asked for
  form,     \* fields of the advanced search
  box       \* text in the search bar

vars == <<panel, search, hash, config, layout, result, terms, asked, form, box>>

None == "none"
Fields == DateFields \cup ListFields

-----------------------------------------------------------------------------
(* Query.  A parameter is a pair of its kind and the field it is for; one  *)
(* that is empty is not in the address.                                    *)

Kinds == {"filter", "gte", "lte", "interval", "size"}
Plain(name) == <<name, None>>
Facets == Plain("facet")
Sort == Plain("sort")
Q == Plain("q")
Include == Plain("include_fields")
Names == (Kinds \X Fields) \cup {Facets, Sort, Q, Include, Plain("synonyms")}

\* Every query of the screen is for things, whatever its address says.
GetList(q, name) == q[name]
Get(q, name, missing) == IF q[name] = <<>> THEN missing ELSE Head(q[name])
Has(q, name) == q[name] # <<>>
Set(q, name, value) == [q EXCEPT ![name] = value]
Clear(q, name) == Set(q, name, <<>>)
Without(s, v) == Filtered(s, ToSet(s) \ {v})
Add(q, name, v) ==
  IF v \in ToSet(q[name]) THEN q ELSE Set(q, name, Append(q[name], v))
Toggle(q, name, v) ==
  IF v \in ToSet(q[name]) THEN Set(q, name, Without(q[name], v))
  ELSE Add(q, name, v)
RemoveAllFilters(q) ==
  [n \in Names |-> IF n[1] \in {"filter", "gte", "lte"} THEN <<>> ELSE q[n]]
Filters(q) == {n \in Names : n[1] \in {"filter", "gte", "lte"} /\ Has(q, n)}

AddFacet(q, f) ==
  LET sized == Set(Add(q, Facets, f), <<"size", f>>, <<DefaultSize>>)
  IN IF f \in DateFields THEN Add(sized, <<"interval", f>>, "year") ELSE sized

\* An interval that is not a year stays behind.
RemoveFacet(q, f) ==
  [q EXCEPT ![Facets] = Without(@, f), ![<<"size", f>>] = <<>>,
            ![<<"interval", f>>] = Without(@, "year")]

SortBy(q, field, direction) == Set(q, Sort, <<[field |-> field, dir |-> direction]>>)
NoSort == [field |-> None, dir |-> None]
GetSort(q) == Get(q, Sort, NoSort)

\* What is asked for is added to the query, and so stays in its address.
Included(s, names) ==
  FoldLeft(LAMBDA r, c : IF c \in ToSet(r) THEN r ELSE Append(r, c), s, names)
AddIncludeFields(q, names) == Set(q, Include, Included(q[Include], names))

-----------------------------------------------------------------------------
(* The layout: every change of the query goes through it. *)

UpdateQuery(q) ==
  /\ search' = q
  /\ hash' = [hash EXCEPT !.preview = None]

UpdateFacets(q) ==
  /\ panel = "facets"
  /\ UpdateQuery(q)
  /\ UNCHANGED <<panel, config, layout, result, terms, asked, form, box>>

Configured == IF config = <<None>> THEN DefaultFacets ELSE config
IsOpen(f) == f \in ToSet(search[Facets]) /\ Get(search, <<"size", f>>, 0) > 0

\* The sidebar is on screen: as a pane, or below its button on a phone.
FacetsShown == ~layout.hideFacets
OnSidebar(f) == FacetsShown /\ f \in ToSet(Configured)

Edited(s, name) == IF name \in ToSet(s) THEN Without(s, name) ELSE Append(s, name)

\* The stored list is read again because the address is replaced by itself.
OnFacetEdit(f) ==
  /\ panel = "columns" /\ FacetsShown
  /\ config' = Edited(Configured, f)
  /\ UNCHANGED <<panel, search, hash, layout, result, terms, asked, form, box>>

OnFacetReset ==
  /\ panel = "columns" /\ FacetsShown /\ config # <<None>>
  /\ config' = <<None>>
  /\ UNCHANGED <<panel, search, hash, layout, result, terms, asked, form, box>>

ToggleFacets ==
  /\ panel = "columns"
  /\ layout' = [layout EXCEPT !.hideFacets = ~@, !.userToggled = TRUE]
  /\ UNCHANGED <<panel, search, hash, config, result, terms, asked, form, box>>

\* The window is made narrow or wide.
CheckMobileWidth ==
  /\ panel = "columns"
  /\ layout' = [layout EXCEPT !.isMobile = ~@,
                  !.hideFacets = IF layout.isMobile THEN @ /\ layout.userToggled
                                 ELSE TRUE]
  /\ UNCHANGED <<panel, search, hash, config, result, terms, asked, form, box>>

-----------------------------------------------------------------------------
(* Facets *)

OnToggleFacet(f) ==
  /\ OnSidebar(f)
  /\ UpdateFacets(IF IsOpen(f) THEN RemoveFacet(search, f)
                  ELSE AddFacet(search, f))

OnSelect(f, v) ==
  /\ OnSidebar(f) /\ IsOpen(f) /\ f \in ListFields
  /\ UpdateFacets(Toggle(search, <<"filter", f>>, v))

ShowMore(f) ==
  LET size == Get(search, <<"size", f>>, 0)
  IN /\ OnSidebar(f) /\ IsOpen(f) /\ f \in ListFields /\ size < FacetTotal
     /\ UpdateFacets(Set(search, <<"size", f>>, <<size + DefaultSize>>))

\* A bound is a day and the granularity the search engine rounds it to.
Start(d, grain) ==
  CASE grain = "year" -> (d \div YearDays) * YearDays
    [] grain = "month" -> (d \div MonthDays) * MonthDays
    [] grain = "day" -> d
End(d, grain) ==
  CASE grain = "year" -> Start(d, grain) + YearDays - 1
    [] grain = "month" -> Start(d, grain) + MonthDays - 1
    [] grain = "day" -> d
FormatDateQParam(d, grain) == <<[day |-> d, grain |-> grain]>>
CleanDateQParam(p) == Start(p.day, p.grain)

Interval(f) == Get(search, <<"interval", f>>, "year")
Finer(grain) == IF grain = "year" THEN "month" ELSE "day"

NoBound == [day |-> 0, grain |-> "day"]
Bound(kind, f, default) ==
  IF Has(search, <<kind, f>>) THEN CleanDateQParam(Get(search, <<kind, f>>, NoBound))
  ELSE default

\* The first days of the bars that are drawn.
FilterDateIntervals(f) ==
  {d \in 0..LastDay :
     /\ d = Start(d, Interval(f))
     /\ Bound("gte", f, IF hash.showAll THEN 0 ELSE Shown.from) <= d
     /\ d <= Bound("lte", f, IF hash.showAll THEN LastDay ELSE Shown.to)}

\* There are bars before or after the default interval.
HasOutOfRange(f) ==
  /\ ~hash.showAll
  /\ \/ ~Has(search, <<"gte", f>>) /\ Shown.from > 0
     \/ ~Has(search, <<"lte", f>>) /\ Shown.to < Start(LastDay, Interval(f))

SetRange(q, f, from, to, grain) ==
  Set(Set(q, <<"gte", f>>, FormatDateQParam(from, grain)),
      <<"lte", f>>, FormatDateQParam(to, grain))

\* One bar is clicked, and what it stands for is shown in finer bars.
OnSelectBar(f, d) ==
  /\ OnSidebar(f) /\ IsOpen(f)
  /\ LET grain == Finer(Interval(f))
     IN UpdateFacets(
          SetRange(Set(search, <<"interval", f>>, <<grain>>), f,
                   d, End(d, Interval(f)), grain))

\* Bars are brushed over, in either direction.
OnSelectRange(f, d, e) ==
  /\ OnSidebar(f) /\ IsOpen(f)
  /\ UpdateFacets(SetRange(search, f, IF d < e THEN d ELSE e,
                           IF d < e THEN e ELSE d, Interval(f)))

\* A faulty variant: the end stays.
ClearedStart(q, f) ==
  [q EXCEPT ![<<"gte", f>>] = <<>>, ![<<"interval", f>>] = <<"year">>]

ClearedDates(q, f) ==
  [q EXCEPT ![<<"gte", f>>] = <<>>, ![<<"lte", f>>] = <<>>,
            ![<<"interval", f>>] = <<"year">>]

OnClearDates(f) ==
  /\ OnSidebar(f) /\ IsOpen(f) /\ f \in DateFields
  /\ Has(search, <<"gte", f>>) \/ Has(search, <<"lte", f>>)
  /\ UpdateFacets(ClearedDates(search, f))

ToggleShowHidden ==
  /\ panel = "facets"
  /\ \E f \in DateFields :
       OnSidebar(f) /\ IsOpen(f) /\ (hash.showAll \/ HasOutOfRange(f))
  /\ hash' = [hash EXCEPT !.showAll = ~@]
  /\ UNCHANGED <<panel, search, config, layout, result, terms, asked, form, box>>

-----------------------------------------------------------------------------
(* The tags above the results: one for each value, one for each range.     *)

DateTags == {f \in DateFields : Has(search, <<"gte", f>>) \/ Has(search, <<"lte", f>>)}
Tags ==
  {<<f, None>> : f \in DateTags}
    \cup UNION {{f} \X ToSet(search[<<"filter", f>>]) : f \in ListFields}

RemoveFilterValue(f, v) ==
  /\ <<f, v>> \in Tags
  /\ UpdateFacets(IF f \in DateFields THEN ClearedDates(search, f)
                  ELSE Set(search, <<"filter", f>>,
                           Without(search[<<"filter", f>>], v)))

\* The intervals are left as they are.
RemoveAllFilterValues ==
  /\ \E s, t \in Tags : s # t
  /\ UpdateFacets(RemoveAllFilters(search))

-----------------------------------------------------------------------------
(* Columns and results *)

\* A list without columns is as good as none.
CurrentColumns == IF hash.columns = <<>> THEN DefaultColumns ELSE hash.columns

SetColumnsInHash(names) ==
  /\ hash' = [hash EXCEPT !.columns = names]
  /\ UNCHANGED <<panel, search, config, layout, result, terms, asked, form, box>>

\* The columns of the table: those chosen, and the open facets.
ShownColumns ==
  FoldLeft(LAMBDA s, f : IF f \in ToSet(s) \/ f \notin ToSet(Configured) THEN s
                         ELSE Append(s, f),
           CurrentColumns, search[Facets])

\* A facet that is shown as a column is edited as if it had been chosen.
OnColumnsEdit(name) ==
  /\ panel = "columns"
  /\ SetColumnsInHash(Edited(ShownColumns, name))

OnColumnsReset ==
  /\ panel = "columns" /\ hash.columns # <<>>
  /\ SetColumnsInHash(<<>>)

\* The query is sent with the columns; when a facet is toggled on the panel of
\* columns the fields that were sent become part of the address.
ToggleShownFacet(f) ==
  LET sent == AddIncludeFields(search, CurrentColumns)
  IN /\ panel = "columns" /\ OnSidebar(f)
     /\ UpdateQuery(IF IsOpen(f) THEN RemoveFacet(sent, f) ELSE AddFacet(sent, f))
     /\ UNCHANGED <<panel, config, layout, result, terms, asked, form, box>>

NextDirection(field, sort) ==
  IF sort.field = field /\ sort.dir = "asc" THEN "desc" ELSE "asc"

Loading(q) == [q |-> q, rows |-> <<>>, pending |-> TRUE]

SortColumn(field) ==
  /\ panel = "results" /\ field \in ToSet(ShownColumns)
  /\ LET q == SortBy(search, field, NextDirection(field, GetSort(search)))
     IN UpdateQuery(q) /\ result' = Loading(result.q)
  /\ UNCHANGED <<panel, config, layout, terms, asked, form, box>>

\* What is found is ordered by the query.
Ordered(sort) ==
  IF sort # <<>> /\ Head(sort).dir = "desc" THEN Reverse(Entities) ELSE Entities

\* A page is answered, after those there are.
ResultsAnswered ==
  /\ panel \in {"results", "terms"} /\ result.pending
  /\ LET n == Len(result.rows) + PageSize
         all == Ordered(search[Sort])
     IN result' = [result EXCEPT !.pending = FALSE,
                     !.rows = SubSeq(all, 1, IF n < Len(all) THEN n ELSE Len(all))]
  /\ UNCHANGED <<panel, search, hash, config, layout, terms, asked, form, box>>

CanLoadMore ==
  ~result.pending /\ Len(result.rows) > 0 /\ Len(result.rows) < Len(Entities)

GetMoreResults ==
  /\ panel = "results" /\ CanLoadMore
  /\ result' = [result EXCEPT !.pending = TRUE]
  /\ UNCHANGED <<panel, search, hash, config, layout, terms, asked, form, box>>

TogglePreview(e) ==
  /\ panel \in {"results", "terms"} /\ e \in ToSet(result.rows)
  /\ hash' = [hash EXCEPT !.preview = IF @ = e THEN None ELSE e]
  /\ UNCHANGED <<panel, search, config, layout, result, terms, asked, form, box>>

\* The keys that go through the results do nothing when the one that is
\* previewed is not among them.
PreviewNeighbour(step) ==
  /\ panel = "results"
  /\ \E i, j \in DOMAIN result.rows :
       /\ result.rows[i] = hash.preview
       /\ IF step = "next" THEN j = i + 1 ELSE i = j + 1
       /\ hash' = [hash EXCEPT !.preview = result.rows[j]]
  /\ UNCHANGED <<panel, search, config, layout, result, terms, asked, form, box>>

ClosePreview ==
  /\ panel = "results"
  /\ hash' = [hash EXCEPT !.preview = None]
  /\ UNCHANGED <<panel, search, config, layout, result, terms, asked, form, box>>

-----------------------------------------------------------------------------
(* The terms of the query, and the ones that are proposed.  A text is a    *)
(* sequence of marks, among them the space and the quotation mark.         *)

Space == " "
Quote == "'"

Trim(s) ==
  LET marks == {i \in DOMAIN s : s[i] # Space}
      first == CHOOSE i \in marks : \A j \in marks : i <= j
      last == CHOOSE i \in marks : \A j \in marks : j <= i
  IN IF marks = {} THEN <<>> ELSE SubSeq(s, first, last)

\* Reads one mark: quotation marks keep the spaces between them.
ReadMark(r, mark) ==
  IF mark = Space /\ ~r.inQuotes
  THEN IF Trim(r.current) = <<>> THEN r
       ELSE [r EXCEPT !.phrases = Append(@, Trim(r.current)), !.current = <<>>]
  ELSE [r EXCEPT !.current = Append(@, mark),
                 !.inQuotes = IF mark = Quote THEN ~@ ELSE @]

ParseSearchQuery(text) ==
  LET read == FoldLeft(ReadMark,
                [current |-> <<>>, inQuotes |-> FALSE, phrases |-> <<>>], text)
  IN IF Trim(read.current) = <<>> THEN read.phrases
     ELSE Append(read.phrases, Trim(read.current))

\* A faulty variant: nothing is put between phrases.
JoinedBare(phrases) == FoldLeft(LAMBDA s, p : s \o p, <<>>, phrases)

Joined(phrases) ==
  FoldLeft(LAMBDA s, p : IF s = <<>> THEN p ELSE s \o <<Space>> \o p, <<>>, phrases)

Text == Get(search, Q, <<>>)
\* The phrases are those of the query whose results are shown.
Phrases == ParseSearchQuery(result.q)
Quoted(term) == <<Quote>> \o term \o <<Quote>>
WithText(text) == Set(search, Q, IF Trim(text) = <<>> THEN <<>> ELSE <<text>>)

\* The address is changed here without the layout: the preview stays open.
ChangeText(text) ==
  /\ search' = WithText(text)
  /\ result' = [q |-> text, rows |-> <<>>, pending |-> TRUE]
  /\ terms' = [fetched |-> FALSE, loading |-> FALSE, results |-> {}]
  /\ UNCHANGED <<panel, hash, config, layout, asked, form, box>>

RemovePhrase(i) ==
  /\ panel = "terms" /\ i \in DOMAIN Phrases
  /\ ChangeText(Joined(Without(Phrases, Phrases[i])))

\* Some phrase of the query contains the term.
ExistsInQuery(term) ==
  \E i \in DOMAIN Phrases : \E k \in 1..Len(Phrases[i]) + 1 - Len(term) :
    SubSeq(Phrases[i], k, k + Len(term) - 1) = term

Proposed == {t \in terms.results : ~ExistsInQuery(t)}

HandleTermClick(term) ==
  /\ panel = "terms" /\ term \in Proposed
  /\ Len(result.q) + Len(term) < MaxText
  /\ ChangeText(IF result.q = <<>> THEN Quoted(term)
                ELSE result.q \o <<Space>> \o Quoted(term))

FetchDiscoveryData ==
  /\ panel = "terms" /\ Trim(result.q) # <<>> /\ ~terms.loading /\ ~terms.fetched
  /\ Cardinality(asked) < MaxAsked
  /\ terms' = [fetched |-> TRUE, loading |-> TRUE, results |-> {}]
  /\ asked' = asked \cup {result.q}
  /\ UNCHANGED <<panel, search, hash, config, layout, result, form, box>>

\* An answer is shown whatever the query has become in the meantime.
TermsAnswered(text, T) ==
  /\ text \in asked
  /\ asked' = asked \ {text}
  /\ terms' = [terms EXCEPT !.loading = FALSE, !.results = T]
  /\ UNCHANGED <<panel, search, hash, config, layout, result, form, box>>

-----------------------------------------------------------------------------
(* The form of the advanced search, above the bar of the page.  Here a     *)
(* text is a sequence of tokens [kind, word].                              *)

Token(kind, w) == [kind |-> kind, word |-> w]
Or == Token("or", None)
Marked == {"none", "exact", "variants", "proximity"}
FormFields == {"all", "any"} \cup Marked
EmptyForm == [k \in FormFields |-> <<>>]

Tokens(key, kind) == [i \in DOMAIN form[key] |-> Token(kind, form[key][i])]
\* A faulty variant: every word of the second field follows an OR.
ComposeWithLeadingOr(key) ==
  IF key = "any"
  THEN FoldLeft(LAMBDA s, t : s \o <<Or, t>>, <<>>, Tokens("any", "all"))
  ELSE Tokens(key, IF key = "all" THEN "all" ELSE key)

Compose(key) ==
  IF key \in Marked THEN Tokens(key, key)
  ELSE IF key = "all" THEN Tokens("all", "all")
  ELSE FoldLeft(LAMBDA s, t : IF s = <<>> THEN <<t>> ELSE s \o <<Or, t>>, <<>>,
                Tokens("any", "all"))

ComposeQueryText ==
  Compose("all") \o Compose("any") \o Compose("none") \o Compose("exact")
    \o Compose("variants") \o Compose("proximity")

OfKind(text, kinds) == SelectSeq(text, LAMBDA t : t.kind \in kinds)
WordsOf(tokens) == [i \in DOMAIN tokens |-> tokens[i].word]

\* The words next to an OR that has words on both sides.
ParseQueryText(text) ==
  LET plain == OfKind(text, {"all", "or"})
      joins == {i \in 2..Len(plain) - 1 :
                  plain[i] = Or /\ plain[i - 1] # Or /\ plain[i + 1] # Or}
      near == {i \in DOMAIN plain :
                 plain[i] # Or /\ (i + 1 \in joins \/ i - 1 \in joins)}
      part(S) == LET picked == SelectSeq([i \in DOMAIN plain |-> <<i, plain[i]>>],
                                         LAMBDA p : p[1] \in S)
                 IN [i \in DOMAIN picked |-> picked[i][2].word]
  IN [k \in FormFields |->
        CASE k = "any" -> part(near)
          [] k = "all" -> part(DOMAIN plain \ (near \cup joins))
          [] k \in Marked -> WordsOf(OfKind(text, {k}))]

FollowText(text) == box' = IF text = Text THEN box ELSE text

\* The bar and the form follow the query when its text has become another.
ShowText(text) ==
  /\ search' = Set(search, Q, IF text = <<>> THEN <<>> ELSE <<text>>)
  /\ form' = IF text = Text THEN form ELSE ParseQueryText(text)
  /\ FollowText(text)
  /\ UNCHANGED <<panel, hash, config, layout, result, terms, asked>>

AddWord(key, w) ==
  /\ panel = "advanced" /\ Len(ComposeQueryText) < MaxTerms
  /\ form' = [form EXCEPT ![key] = Append(@, w)]
  /\ UNCHANGED <<panel, search, hash, config, layout, result, terms, asked, box>>

RemoveWord(key, i) ==
  /\ panel = "advanced" /\ i \in DOMAIN form[key]
  /\ form' = [form EXCEPT ![key] = RemoveAt(@, i)]
  /\ UNCHANGED <<panel, search, hash, config, layout, result, terms, asked, box>>

SubmitForm == panel = "advanced" /\ ShowText(ComposeQueryText)

OnClear ==
  /\ panel = "advanced"
  /\ search' = Set(search, Q, <<>>)
  /\ form' = EmptyForm
  /\ FollowText(<<>>)
  /\ UNCHANGED <<panel, hash, config, layout, result, terms, asked>>

OnQueryTextChange(text) ==
  /\ panel = "advanced"
  /\ box' = text
  /\ UNCHANGED <<panel, search, hash, config, layout, result, terms, asked, form>>

OnSearchSubmit == panel = "advanced" /\ ShowText(box)

\* The switch leaves the text that is being typed.
OnSynonymsChange ==
  /\ panel = "advanced"
  /\ search' = IF Has(search, Plain("synonyms")) THEN Clear(search, Plain("synonyms"))
               ELSE Set(search, Plain("synonyms"), <<"true">>)
  /\ UNCHANGED <<panel, hash, config, layout, result, terms, asked, form, box>>

-----------------------------------------------------------------------------

NoSearch == [n \in Names |-> <<>>]

Init ==
  /\ panel \in {"facets", "columns", "results", "terms", "advanced"}
  /\ hash = [preview |-> None, columns |-> <<>>, showAll |-> FALSE]
  /\ config = <<None>>
  /\ layout = [hideFacets |-> FALSE, isMobile |-> FALSE, userToggled |-> FALSE]
  /\ terms = [fetched |-> FALSE, loading |-> FALSE, results |-> {}]
  /\ asked = {} /\ form = EmptyForm /\ box = <<>>
  /\ IF panel = "terms"
     THEN \E t \in Terms, u \in Terms :
            LET text == t \o <<Space>> \o Quoted(u)
            IN /\ search = Set(NoSearch, Q, <<text>>)
               /\ result = Loading(text)
     ELSE search = NoSearch /\ result = Loading(<<>>)

Next ==
  \/ \E f \in Fields :
       \/ OnToggleFacet(f) \/ ShowMore(f) \/ OnClearDates(f)
       \/ OnFacetEdit(f) \/ ToggleShownFacet(f) \/ RemoveFilterValue(f, None)
       \/ \E v \in Values : OnSelect(f, v) \/ RemoveFilterValue(f, v)
  \/ \E f \in DateFields :
       /\ panel = "facets"
       /\ \E d \in FilterDateIntervals(f) :
            OnSelectBar(f, d) \/ \E e \in FilterDateIntervals(f) : OnSelectRange(f, d, e)
  \/ ToggleShowHidden \/ RemoveAllFilterValues
  \/ OnFacetReset \/ ToggleFacets \/ CheckMobileWidth
  \/ \E name \in Columns : OnColumnsEdit(name) \/ SortColumn(name)
  \/ OnColumnsReset
  \/ ResultsAnswered \/ GetMoreResults \/ ClosePreview
  \/ \E e \in ToSet(Entities) : TogglePreview(e)
  \/ \E step \in {"next", "previous"} : PreviewNeighbour(step)
  \/ \E i \in 1..MaxText : RemovePhrase(i)
  \/ \E t \in Terms : HandleTermClick(t)
  \/ FetchDiscoveryData
  \/ \E text \in asked, T \in SUBSET Terms : TermsAnswered(text, T)
  \/ \E key \in FormFields :
       \/ \E w \in Words : AddWord(key, w)
       \/ \E i \in 1..MaxTerms : RemoveWord(key, i)
  \/ SubmitForm \/ OnClear \/ OnSearchSubmit \/ OnSynonymsChange
  \/ \E text \in Typed : OnQueryTextChange(text)

Spec == Init /\ [][Next]_vars

-----------------------------------------------------------------------------
(* Properties *)

\* The type invariant (app/Query.js:11).
TypeOK ==
  /\ DOMAIN search = Names
  /\ ToSet(search[Facets]) \subseteq Fields
  /\ \A f \in DateFields :
       ToSet(search[<<"interval", f>>]) \subseteq {"year", "month", "day"}
  /\ \A f \in ListFields : ToSet(search[<<"filter", f>>]) \subseteq Values
  /\ hash.preview \in ToSet(Entities) \cup {None}
  /\ ToSet(ShownColumns) \subseteq Columns
  /\ ToSet(result.rows) \subseteq ToSet(Entities)
  /\ terms.results \subseteq Terms /\ DOMAIN form = FormFields

\* A range of dates has both its ends, or the tags above the results, which
\* unpack a tag for each of them, break the page; the ends are rounded alike
\* and in order (QueryTags.jsx:64, DateFacet.jsx:53).
RangesWhole ==
  \A f \in DateFields :
    LET gte == search[<<"gte", f>>]
        lte == search[<<"lte", f>>]
    IN /\ gte = <<>> <=> lte = <<>>
       /\ gte # <<>> => /\ Head(gte).grain = Head(lte).grain
                        /\ Head(gte).day <= Head(lte).day

\* An inductive invariant from which RangesWhole follows: the intervals are
\* known, so that an interval is not shorter than a day.
Inv ==
  /\ search = [n \in Names |-> search[n]]
  /\ \A f \in DateFields : search[<<"interval", f>>] \in Seq({"year", "month", "day"})
  /\ RangesWhole

\* Removing one of the terms leaves the others as they were, also the ones
\* that have spaces between quotation marks (EntitySearchDiscovery.tsx:69).
KeepsOthers ==
  \A i \in DOMAIN Phrases :
    RemovePhrase(i) =>
      ParseSearchQuery(result'.q) = Without(Phrases, Phrases[i])
RemovalKeepsPhrases == [][KeepsOthers]_vars

\* The form shows what was searched with it: the text it composes is read back
\* into the same fields, but for a single word in the second one
\* (AdvancedSearch/util.js:45).
KeepsForm == SubmitForm /\ Len(form["any"]) # 1 => form' = form
FormSurvivesSearch == [][KeepsForm]_vars

\* A comment says that the preview is closed when the query changes
\* (FacetedLayout.jsx:105).
ClosesPreview == search[Q] # search'[Q] => hash'.preview = None
PreviewFollowsQuery == [][ClosesPreview]_vars
=============================================================================
