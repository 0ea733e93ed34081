----------------------------- MODULE MCUiEditors -----------------------------
(* Small values for the constants of UiEditors.                             *)
EXTENDS UiEditors

Fits ==
  {<<"owner", "p", "q">>, <<"family", "p", "q">>, <<"family", "q", "p">>,
   <<"family", "p", "p">>}

\* Two selected, or two counts, or one of each.
SelectedAsked ==
  {[selected |-> 2, asked |-> 0], [selected |-> 1, asked |-> 1], [selected |-> 0, asked |-> 2]}

\* Dates of every precision, in years of three months.
SpanValues ==
  LET Date(y, m, d) == [year |-> y, month |-> m, day |-> d]
      Span(s, e) == [start |-> s, end |-> e]
  IN {Span(Date(0, 0, 0), Date(21, 1, 0)), Span(Date(20, 0, 0), Date(0, 0, 0)),
      Span(Date(21, 3, 3), Date(20, 1, 1)), Span(Date(21, 1, 2), Date(24, 0, 0))}

TimelineSchemata ==
  [s \in {"Event", "Company"} |->
     IF s = "Event"
     THEN [starts |-> {"date", "startDate"}, ends |-> {"endDate"},
           caption |-> "name", edge |-> FALSE]
     ELSE [starts |-> {"incorporationDate"}, ends |-> {}, caption |-> "name",
           edge |-> FALSE]]

SchemaOfRow == [e \in {"e1", "e2", "e3"} |-> IF e = "e3" THEN "Q" ELSE "P"]

\* A file of two queries, a thing and a link whose ends are both that thing.
MappingFile ==
  LET Query(id, schema, keys, props) ==
        [id |-> id, schema |-> schema, keys |-> keys, props |-> props]
      Filled(kind, of) == [kind |-> kind, of |-> of]
  IN <<Query("P", "P", {"c", "x"}, [n |-> Filled("column", "x")]),
       Query("l1", "L", {}, [n |-> Filled("column", "c"),
                             source |-> Filled("entity", "P"),
                             target |-> Filled("entity", "P")])>>

MappingFiles == {<<MappingFile>>, <<MappingFile, <<>>>>}

\* What refers to b embeds it where b is not held; else one does and one has its id.
EntitySetValues ==
  LET Entity(id, ids, objects) == [id |-> id, ids |-> ids, objects |-> objects]
      Owned == Entity("l", {"a"}, {"b"})
  IN {<<Owned, Entity("a", {}, {"b"})>>,
      <<Entity("a", {"b"}, {}), Entity("b", {}, {}), Owned>>}

Starts == <<0, 2, 3, 6>>
RowPool == <<"e1", "e2", "e3">>
MappingHeader == <<"c", "d", "d">>
LinkFits == {<<"L", "source", "P">>, <<"L", "target", "P">>}
=============================================================================
