----------------------------- MODULE MCUiScreens -----------------------------
(* Small values for the constants of UiScreens.                             *)
EXTENDS UiScreens, TLC

\* A facet of dates and one of countries; three results, two to a page.
Facets == <<"dates", "countries">>
TermsSearched == {<<"a">>, <<"a", " ", "b">>}
DaysShown == [from |-> 4, to |-> 9]
ResultList == <<"e1", "e2", "e3">>
FirstColumns == <<"caption">>

\* A search with OR in it, as it may be typed.
TypedText ==
  LET Token(kind, w) == [kind |-> kind, word |-> w]
  IN {<<Token("all", "a"), Token("or", "none"), Token("all", "b")>>}

\* A table of three lines, and two documents.
TableLines == <<<<1, 2>>, <<2, 1>>, <<1, 3>>>>
DocPages == [d |-> 2, e |-> 1]
PagesHit == [d |-> {2}, e |-> {1}]
PagesTurned == [d |-> <<0, 90>>, e |-> <<0>>]
DocRows == [d |-> 5, e |-> 3]
RowsClaimed == [d |-> 5, e |-> 0]

\* Three folders, one in the other, and four files.
UploadTree == ("A" :> "/") @@ ("B" :> "A") @@ ("C" :> "B") @@ ("f" :> "/") @@ ("g" :> "A")
                @@ ("h" :> "C") @@ ("i" :> "/")

RightsAtFirst == [u |-> [read |-> TRUE, write |-> FALSE]]

\* Documents, an email, a person with references and a table.
SchemataOfPages ==
  [d |-> {"Document", "Pages"},
   m |-> {"Document", "Folder", "HyperText", "PlainText", "Email"},
   p |-> {"LegalEntity", "matchable"},
   t |-> {"Document", "Table", "writeable", "translated"}]

ReferencesOfPages == [d |-> <<>>, m |-> <<>>, p |-> <<"Ownership">>, t |-> <<>>]
ListOfPages == <<"d", "m", "p">>

\* A person, what refers to it, and a property of every kind.
EditedSchema ==
  [e \in {"a", "b", "l", "n"} |->
     CASE e = "l" -> "Link" [] e = "a" -> "Person" [] OTHER -> "Plain"]

EditedProps ==
  [Link |-> {"owner", "year"}, Plain |-> {},
   Person |-> {"name", "year", "owner", "topic"}]

FeaturedProps == [EditedProps EXCEPT !["Person"] = {"name", "owner"}]

RequiredProps == [FeaturedProps EXCEPT !["Link"] = {"owner"}]

TypeOfProp ==
  [name |-> "text", year |-> "checked", owner |-> "entity", topic |-> "enum"]

ValuesAtFirst ==
  [e \in {"a", "b", "l", "n"} |->
     [p \in {"name", "year", "owner", "topic"} |->
        CASE p = "name" /\ e = "a" -> <<"x">>
          [] p = "owner" /\ e = "l" -> <<"a">>
          [] p = "owner" /\ e = "a" -> <<"b">>
          [] OTHER -> <<>>]]

FocusedProps == {{"name"}, {"year", "owner"}, {"owner", "topic"}}

\* An installation with messages, one for a single user and one that asks for a
\* session on every page.
RolesOfTokens == [t \in {"t1", "t2"} |-> "r"]

Installations ==
  LET Plain == [single |-> FALSE, forced |-> FALSE, url |-> TRUE, banner |-> FALSE,
                languages |-> {"en"}]
  IN {Plain, [Plain EXCEPT !.single = TRUE, !.banner = TRUE],
      [Plain EXCEPT !.forced = TRUE, !.languages = {"de"}]}
=============================================================================
