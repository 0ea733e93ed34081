---------------------------- MODULE UiDecisions ----------------------------
(***************************************************************************)
(* Deciding which entities are the same: in the list of similar entities   *)
(* of an entity, in the suggestions and the items of its profile, and in   *)
(* the table of a collection's cross-reference.  A decision is drawn at    *)
(* once, in the very object the store holds, and sent; nobody waits for    *)
(* the answer and nothing takes back what was drawn if it is an error.     *)
(*                                                                         *)
(* The address says which page is open and which row is selected.  Two     *)
(* pages redirect: that of an entity to the one of its profile, and that   *)
(* of a profile that is gone back to the entity it was opened from.        *)
(***************************************************************************)
EXTENDS UiLists

CONSTANTS
  Matches,      \* entities that may be the same as the one at hand
  Foreign,      \* those that belong to another profile, "q"
  Offered,      \* judgements there is a button and a key for
  MaxDecisions  \* decisions that are made

VARIABLES
  page,       \* [kind, at, tab, via, keep, selected]: what the address says
  lists,      \* name of a list of the open page -> [rows, shown, loaded, status]
  profileOf,  \* the profile of the entity, as the store has it
  known,      \* profile -> what the store has of it: "new", "ok" or "error"
  server,     \* [profile, gone, judged]
  requests,   \* decisions on their way, the oldest first
  made,       \* number of decisions
  decided,    \* match -> the list it was last decided in, unless that is reloaded
  lost,       \* matches whose decision was lost or overtaken
  redirects   \* in a row

vars == <<page, lists, profileOf, known, server, requests, made, decided, lost, redirects>>

NoProfile == "none"
Profiles == {"p", "q"}
Names == {"similar", "suggested", "items", "xref", "random"}
NoList == "nothing"

\* loaded tells whether there has been an answer; an error gives the status
\* of an answer and keeps what was there.
Empty == [rows |-> <<>>, shown |-> [m \in Matches |-> "no_judgement"], loaded |-> FALSE,
          status |-> "stale"]

\* The list the open page lets the user decide in.
Current ==
  CASE page.kind = "entity" -> "similar"
    [] page.kind = "profile" -> page.tab
    [] page.kind = "xref" -> page.tab

Rows(name) == lists[name].rows

\* The page of the entity; the hash may say that it is meant, and not its profile.
EntityPage(keep) ==
  [kind |-> "entity", at |-> NoProfile, tab |-> "similar", via |-> FALSE, keep |-> keep,
   selected |-> -1]

\* Skeletons stand for rows that are not there, without a button that decides.
Decidable(name) == ToSet(Rows(name))

\* Hotkeys are there as long as the list is not known to be empty; the items
\* are drawn in any case.
HasHotkeys(name, list) == name = "items" \/ ~list.loaded \/ list.rows # <<>>

-----------------------------------------------------------------------------
(* The selected row *)

UpdateSelected(p, i) == [p EXCEPT !.selected = i]

\* A list that became shorter takes the selection along, if it was drawn
\* before and after.
DidUpdate(p, name, before, after) ==
  IF /\ name = Current /\ HasHotkeys(name, before) /\ HasHotkeys(name, after)
     /\ Len(before.rows) # Len(after.rows) /\ p.selected >= Len(after.rows)
  THEN UpdateSelected(p, Len(after.rows) - 1) ELSE p

SelectedNext(p) ==
  IF Len(Rows(Current)) > p.selected + 1 THEN UpdateSelected(p, p.selected + 1) ELSE p

SelectNext ==
  /\ SelectedNext(page) # page
  /\ page' = SelectedNext(page)
  /\ UNCHANGED <<lists, requests, made, decided, lost>>

SelectPrevious ==
  /\ Rows(Current) # <<>> /\ page.selected > 0
  /\ page' = UpdateSelected(page, page.selected - 1)
  /\ UNCHANGED <<lists, requests, made, decided, lost>>

-----------------------------------------------------------------------------
(* Decisions *)

\* The same judgement again takes it back.
Toggled(name, m, judgement) ==
  IF lists[name].shown[m] = judgement THEN "no_judgement" ELSE judgement

Waiting(m) == \E i \in DOMAIN requests : requests[i].match = m

\* The address is only used again by the suggestions.
Remembered == IF Current = "suggested" THEN page ELSE UpdateSelected(page, -1)

\* What is sent.
PairwiseJudgement(m, judgement) ==
  [match |-> m, judgement |-> judgement, list |-> Current, page |-> Remembered]

\* A faulty variant: what is drawn is toggled, what is sent is not.
DecideUntoggled(m, judgement) ==
  LET new == Toggled(Current, m, judgement) IN
  /\ made < MaxDecisions /\ made' = made + 1
  /\ lists' = [lists EXCEPT ![Current].shown[m] = new]
  /\ requests' = Append(requests, PairwiseJudgement(m, judgement))
  /\ decided' = [decided EXCEPT ![m] = Current]
  /\ lost' = IF Waiting(m) THEN lost ELSE lost \ {m}

Decide(m, judgement) ==
  LET new == Toggled(Current, m, judgement) IN
  /\ made < MaxDecisions /\ made' = made + 1
  /\ lists' = [lists EXCEPT ![Current].shown[m] = new]
  /\ requests' = Append(requests, PairwiseJudgement(m, new))
  /\ decided' = [decided EXCEPT ![m] = Current]
  /\ lost' = IF Waiting(m) THEN lost ELSE lost \ {m}

\* A click on one of the buttons of a row.
OnChange ==
  /\ \E m \in Decidable(Current), j \in Offered : Decide(m, j)
  /\ UNCHANGED page

\* A key: with nothing selected it means the first row, and selects that row
\* and not the second.
OnDecideSelected ==
  LET i == IF page.selected = -1 THEN 1 ELSE page.selected + 1 IN
  /\ i \in DOMAIN Rows(Current)
  /\ \E j \in Offered : Decide(Rows(Current)[i], j)
  /\ page' = SelectedNext(page)

User ==
  /\ SelectNext \/ SelectPrevious \/ OnChange \/ OnDecideSelected
  /\ HasHotkeys(Current, lists[Current])
  /\ redirects' = 0
  /\ UNCHANGED <<profileOf, known, server>>

-----------------------------------------------------------------------------
(* Moving about *)

\* The hash is kept, and with it the selected row.
HandleTabChange ==
  /\ page.kind = "profile"
  /\ page' = [page EXCEPT !.tab = IF @ = "items" THEN "suggested" ELSE "items"]

\* Sorting: the list is another one, the number of the selected row is kept.
ToggleSort ==
  /\ page.kind = "xref"
  /\ page' = [page EXCEPT !.tab = IF @ = "xref" THEN "random" ELSE "xref"]

\* The link to the original entity.
ViewOriginal ==
  /\ page.kind = "profile" /\ page.via
  /\ page' = EntityPage(TRUE)

\* A link to the entity, or to its profile if the store knows that it has one.
OpenEntity ==
  /\ page' = IF profileOf # NoProfile
             THEN [kind |-> "profile", at |-> profileOf, tab |-> "items", via |-> TRUE,
                   keep |-> FALSE, selected |-> -1]
             ELSE EntityPage(FALSE)

\* The lists of another page are not there yet.
Opened(new) ==
  IF <<new.kind, new.at>> = <<page.kind, page.at>> THEN lists
  ELSE [name \in Names |-> Empty]

\* Once its list is gone, a decision is not drawn.
StillDrawn ==
  [m \in Matches |->
     IF decided[m] # NoList /\ ~lists'[decided[m]].loaded THEN NoList ELSE decided[m]]

Move ==
  /\ HandleTabChange \/ ToggleSort \/ ViewOriginal \/ OpenEntity
  /\ page' # page
  /\ lists' = Opened(page')
  /\ decided' = StillDrawn
  /\ redirects' = 0
  /\ UNCHANGED <<profileOf, known, server, requests, made, lost>>

-----------------------------------------------------------------------------
(* Redirections *)

\* With the mode that was shown and the rest of the hash.
ToProfile ==
  /\ page.kind = "entity" /\ profileOf # NoProfile /\ ~page.keep
  /\ page' = [page EXCEPT !.kind = "profile", !.at = profileOf, !.via = TRUE,
                          !.tab = "suggested"]

\* The profile cannot be read or has no items.
ProfileGone ==
  \/ known[page.at] = "error"
  \/ lists["items"].status = "answered" /\ Rows("items") = <<>>

\* A faulty variant: a link that does not say that the entity is meant.
ToOriginalPlainly ==
  /\ page.kind = "profile" /\ page.via /\ ProfileGone
  /\ page' = EntityPage(FALSE)

\* Without an entity it was opened from, an error is shown.
ToOriginal ==
  /\ page.kind = "profile" /\ page.via /\ ProfileGone
  /\ page' = EntityPage(TRUE)

CleanHash ==
  /\ page.kind = "entity" /\ profileOf = NoProfile /\ page.keep
  /\ page' = [page EXCEPT !.keep = FALSE]

Redirect ==
  /\ ToProfile \/ ToOriginal \/ CleanHash
  /\ redirects' = IF redirects < 4 THEN redirects + 1 ELSE redirects
  /\ lists' = Opened(page')
  /\ decided' = StillDrawn
  /\ UNCHANGED <<profileOf, known, server, requests, made, lost>>

-----------------------------------------------------------------------------
(* Loading *)

OnPage(name) ==
  CASE page.kind = "entity" -> name = "similar"
    [] page.kind = "profile" -> name \in {"items", "suggested"}
    [] page.kind = "xref" -> name = page.tab

Order == SetToSeq(Matches)

Unjudged == {m \in Matches : server.judged[m] = "no_judgement"}

\* The suggestions leave out what the profile has, its items nothing else.
Served(name) ==
  CASE name = "items" -> Filtered(Order, Matches \ Unjudged)
    [] name = "suggested" -> Filtered(Order, Unjudged)
    [] name = "random" -> Reverse(Order)
    [] OTHER -> Order

FetchIfNeeded ==
  /\ \E name \in Names :
       /\ OnPage(name) /\ lists[name].status = "stale"
       /\ lists' = [lists EXCEPT ![name].status = "loading"]
  /\ UNCHANGED <<page, profileOf, known, decided, lost>>

Answerable(name) == name \in {"items", "suggested"} => page.at = server.profile

\* It is drawn as the server has it, whatever is on its way there.
Loaded ==
  \E name \in Names :
    /\ lists[name].status = "loading"
    /\ IF Answerable(name)
       THEN LET new == [rows |-> Served(name), shown |-> server.judged, loaded |-> TRUE,
                        status |-> "answered"] IN
            /\ lists' = [lists EXCEPT ![name] = new]
            /\ page' = DidUpdate(page, name, lists[name], new)
       ELSE /\ lists' = [lists EXCEPT ![name].status = "answered"]
            /\ UNCHANGED page
    /\ decided' = [m \in Matches |-> IF decided[m] = name THEN NoList ELSE decided[m]]
    /\ lost' = {m \in lost : decided[m] # name}
    /\ UNCHANGED <<profileOf, known>>

\* The entity is read again; the index may not have heard of its profile yet.
EntityFetched ==
  /\ page.kind = "entity" /\ profileOf # server.profile
  /\ profileOf' = server.profile
  /\ UNCHANGED <<page, lists, known, decided, lost>>

ProfileFetched ==
  /\ page.kind = "profile" /\ known[page.at] = "new"
  /\ known' = [known EXCEPT ![page.at] = IF server.profile = page.at THEN "ok" ELSE "error"]
  /\ UNCHANGED <<page, lists, profileOf, decided, lost>>

Load ==
  /\ FetchIfNeeded \/ Loaded \/ EntityFetched \/ ProfileFetched
  /\ redirects' = 0
  /\ UNCHANGED <<server, requests, made>>

-----------------------------------------------------------------------------
(* The server decides, and answers *)

Fresh == IF server.gone THEN "q" ELSE "p"

\* A pair is decided in the profile of the entity, which is made if there is
\* none; one that is the same as another profile's member is merged into that.
Applied(r) ==
  LET profile == IF server.profile = NoProfile THEN Fresh ELSE server.profile
      merges == r.judgement = "positive" /\ r.match \in Foreign /\ profile = "p"
  IN  [profile |-> IF merges THEN "q" ELSE profile,
       gone |-> server.gone \/ merges,
       judged |-> [server.judged EXCEPT ![r.match] = r.judgement]]

InProfile(r) == r.list \in {"items", "suggested"}

Possible(r) == InProfile(r) => r.page.at = server.profile

Overtakes(i) == \E k \in 1..(i - 1) : requests[k].match = requests[i].match

\* Everything the store holds is out of date, but for what it is loading.
Outdated(ls) ==
  [name \in Names |-> IF ls[name].status = "answered" THEN [ls[name] EXCEPT !.status = "stale"]
                      ELSE ls[name]]

\* Only the suggestions look for the profile where the answer has it: the
\* items look beside it and stay.  The address is the one of the moment of
\* the decision, whatever is open by now.
Followed(r) ==
  IF r.list = "suggested" /\ server'.profile # r.page.at
  THEN [r.page EXCEPT !.at = server'.profile] ELSE page

Succeed(i) ==
  LET r == requests[i] IN
  /\ Possible(r)
  /\ server' = Applied(r)
  /\ page' = Followed(r)
  /\ IF InProfile(r)
     THEN /\ lists' = Outdated(Opened(page'))
          /\ known' = [p \in Profiles |-> "new"]
          /\ UNCHANGED profileOf
     ELSE /\ profileOf' = server'.profile
          /\ UNCHANGED <<lists, known>>
  /\ lost' = IF Overtakes(i) THEN lost \cup {r.match} ELSE lost
  /\ decided' = StillDrawn

\* A warning is shown.
Fail(i) ==
  /\ lost' = lost \cup {requests[i].match}
  /\ UNCHANGED <<page, lists, profileOf, known, server, decided>>

Answer ==
  /\ \E i \in DOMAIN requests :
       /\ Succeed(i) \/ Fail(i)
       /\ requests' = RemoveAt(requests, i)
  /\ redirects' = 0
  /\ UNCHANGED made

\* Somebody deletes the profile.
Outside ==
  /\ server.profile = "p"
  /\ server' = [profile |-> NoProfile, gone |-> TRUE,
                judged |-> [m \in Matches |-> "no_judgement"]]
  /\ decided' = [m \in Matches |-> NoList]
  /\ lost' = lost \cup {m \in Matches : Waiting(m)}
  /\ UNCHANGED <<page, lists, profileOf, known, requests, made, redirects>>

-----------------------------------------------------------------------------

Init ==
  /\ \E kind \in {"entity", "profile", "xref"} :
       /\ page = [kind |-> kind, at |-> IF kind = "profile" THEN "p" ELSE NoProfile,
                  tab |-> CASE kind = "entity" -> "similar"
                            [] kind = "profile" -> "items"
                            [] kind = "xref" -> "xref",
                  via |-> FALSE, keep |-> FALSE, selected |-> -1]
       /\ server = [profile |-> IF kind = "profile" THEN "p" ELSE NoProfile,
                    gone |-> FALSE, judged |-> [m \in Matches |-> "no_judgement"]]
  /\ lists = [name \in Names |-> Empty]
  /\ profileOf = NoProfile
  /\ known = [p \in Profiles |-> "new"]
  /\ requests = <<>> /\ made = 0
  /\ decided = [m \in Matches |-> NoList] /\ lost = {}
  /\ redirects = 0

Next == User \/ Move \/ Redirect \/ Load \/ Answer \/ Outside

Spec == Init /\ [][Next]_vars

-----------------------------------------------------------------------------

TypeOK ==
  /\ page.selected \in -1..Len(Order)
  /\ page.at \in Profiles \cup {NoProfile} /\ Current \in Names
  /\ \A name \in Names : ToSet(Rows(name)) \subseteq Matches
  /\ known \in [Profiles -> {"new", "ok", "error"}]
  /\ server.judged \in [Matches -> Offered \cup {"no_judgement"}] /\ made <= MaxDecisions

\* The pages do not redirect to each other for ever: an entity's to that of
\* its profile, that back to the entity's because the profile is gone, and
\* there the address stays (EntityScreen.jsx, ProfileScreen.jsx).
RedirectsEnd == redirects <= 2

\* What is drawn as decided, is decided: when the last request for a match
\* has been answered, the server has the judgement that is drawn in the list
\* it was decided in, unless a request failed or was overtaken by an earlier one.
DecisionsArrive ==
  \A m \in Matches :
    decided[m] # NoList /\ ~Waiting(m) /\ m \notin lost
      => server.judged[m] = lists[decided[m]].shown[m]

DecisionsSettle == RedirectsEnd /\ DecisionsArrive

\* An inductive invariant from which DecisionsSettle follows.
Judgements == Offered \cup {"no_judgement"}

Pages ==
  [kind : {"entity", "profile", "xref"}, at : Profiles \cup {NoProfile}, tab : Names,
   via : BOOLEAN, keep : BOOLEAN, selected : Int]

TypesKept ==
  /\ page \in Pages
  /\ lists \in [Names -> [rows : Seq(Matches), shown : [Matches -> Judgements],
                         loaded : BOOLEAN, status : {"stale", "loading", "answered"}]]
  /\ profileOf \in Profiles \cup {NoProfile}
  /\ server \in [profile : Profiles \cup {NoProfile}, gone : BOOLEAN,
                judged : [Matches -> Judgements]]
  /\ requests \in Seq([match : Matches, judgement : Judgements, list : Names, page : Pages])
  /\ decided \in [Matches -> Names \cup {NoList}]
  /\ redirects \in Nat

\* What is drawn is what the last request for the match says or, if there is
\* none on its way, what the server has.
Arriving(m, judgement) ==
  IF Waiting(m)
  THEN \E i \in DOMAIN requests :
         /\ requests[i].match = m /\ requests[i].judgement = judgement
         /\ \A j \in DOMAIN requests : j > i => requests[j].match # m
  ELSE server.judged[m] = judgement

\* The redirections that can still follow each other.
RedirectsLeft ==
  CASE page.kind = "entity" /\ ~page.keep /\ profileOf # NoProfile -> 2
    [] page.kind = "entity" /\ page.keep /\ profileOf = NoProfile -> 1
    [] page.kind = "profile" /\ page.via /\ ProfileGone ->
         IF profileOf = NoProfile THEN 2 ELSE 1
    [] OTHER -> 0

Inv ==
  /\ TypesKept
  /\ \A name \in Names : Rows(name) # <<>> => lists[name].loaded
  /\ \A m \in Matches : decided[m] # NoList =>
       /\ lists[decided[m]].loaded
       /\ m \notin lost => Arriving(m, lists[decided[m]].shown[m])
  /\ redirects + RedirectsLeft <= 2
=============================================================================
