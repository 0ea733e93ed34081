----------------------------- MODULE UiSession -----------------------------
(***************************************************************************)
(* The session of the browser: signing in and out, what is loaded about    *)
(* the installation and the user, the messages of the operators, the       *)
(* settings of the user and the page that follows the server's tasks.      *)
(*                                                                         *)
(* Any answer may say that the token is not accepted any more.  The page   *)
(* then signs out, which is a request again, while other requests with the *)
(* same token are still under way.  The store's session and messages       *)
(* outlive the page: they are saved whenever they change and are what the  *)
(* next page starts with.  The dialogs, the form and the timers do not;    *)
(* some of them do not even outlive a change of the store.                 *)
(***************************************************************************)
EXTENDS UiLists

CONSTANTS
  Tokens,          \* that the server may issue, each once
  Roles, RoleOf,   \* users, and the one a token begins with
  Locales,         \* languages of the UI
  DefaultLocale,   \* before anything is known
  Messages,        \* of the operators
  Lasting,         \* those that cannot be dismissed
  Expiring,        \* those with a time after which they are not shown
  DismissedLimit,  \* dismissed messages that are remembered
  Sites,           \* installations: [single, forced, url, banner, languages]
  Passwords,       \* that can be typed, with "" among them
  MaxAsked,        \* requests under way
  MaxVisits,       \* visits to the page of the tasks
  MaxPolls         \* loads and timers of that page together

VARIABLES
  part,      \* what is explored: "session", "messages", "settings" or "status"
  site,      \* the installation and whether the page requires a session
  session,   \* [token, loggedIn]
  metadata,  \* [status, locale]: the locale is None until it has been loaded
  roles,     \* role -> [status, known, locale]
  messages,  \* [status, shown, dismissed]
  arrived,   \* the token the provider sent the user back with
  dialog,    \* [open, section, submitted] of the sign-in dialog
  server,    \* [live, issued]: tokens
  refused,   \* tokens this page was told are not accepted
  requests,  \* <<[kind, token, data]>> under way
  form,      \* [name, locale, password, confirm] in the settings, or NoForm
  tasks,     \* [status, rows]: the state of the tasks, as it was loaded
  polling    \* [visit, mounted, held, loose]: timers that load it again

store == <<session, metadata, roles, messages, tasks>>
vars == <<part, site, store, arrived, dialog, server, refused, requests, form, polling>>

None == "none"
Empty == ""  \* what has been cleared
Statuses == {"new", "pending", "loaded", "shallow", "outdated", "failed", "refused"}
Visits == 1..MaxVisits

\* What a mutation makes of what is loaded.
Mutated(status) == IF status \in {"loaded", "shallow"} THEN "outdated" ELSE status

\* Loading: what failed is not asked for again.
ShouldLoad(status) == status \in {"new", "outdated"}

-----------------------------------------------------------------------------
(* What is shown *)

CurrentRole == IF session.token = None THEN None ELSE RoleOf[session.token]
CurrentRoleKnown == CurrentRole # None /\ roles[CurrentRole].known

\* The user's, the installation's or the default one.
Locale ==
  IF CurrentRoleKnown /\ roles[CurrentRole].locale # None THEN roles[CurrentRole].locale
  ELSE IF metadata.locale # None THEN metadata.locale
  ELSE DefaultLocale

\* The page is drawn once there is metadata, and as long as loading it works.
Drawn == metadata.locale # None /\ metadata.status \notin {"failed", "refused"}

\* The button to sign in: nobody is known, and nobody is being looked for.
SignInShown ==
  /\ Drawn /\ ~site.single
  /\ ~CurrentRoleKnown
  /\ CurrentRole # None => roles[CurrentRole].status \notin {"new", "pending"}

\* A page for signed-in users shows the dialog to all others.
DialogShown == IF site.forced THEN Drawn /\ ~session.loggedIn ELSE SignInShown

SettingsShown == part = "settings" /\ Drawn /\ session.loggedIn /\ CurrentRoleKnown

ClosedDialog == [open |-> FALSE, section |-> "login", submitted |-> FALSE]
NewDialog == [ClosedDialog EXCEPT !.open = site.forced /\ DialogShown]

NoForm == [name |-> None, locale |-> None, password |-> None, confirm |-> None]

\* The form is made anew of the user that is stored.
NewForm ==
  IF SettingsShown THEN [NoForm EXCEPT !.name = "long", !.locale = Locale] ELSE NoForm

\* The dialog that asked is gone when its code is sent.
Detached(rs) ==
  [i \in DOMAIN rs |-> [rs[i] EXCEPT !.data = IF rs[i].kind = "code" THEN None ELSE @]]

\* Leaving the page of the tasks clears the timer it knows of.
Left(p) == [p EXCEPT !.mounted = FALSE, !.held = @ \ {p.visit}]

\* What a change of the store makes of what is shown.  Another language
\* draws everything anew.
Rendered(rs, p) ==
  /\ IF DialogShown /\ DialogShown' /\ Locale' = Locale
     THEN dialog' = dialog /\ requests' = rs
     ELSE dialog' = NewDialog' /\ requests' = Detached(rs)
  /\ polling' = IF p.mounted /\ ~(Drawn' /\ Locale' = Locale) THEN Left(p) ELSE p
  /\ form' = NewForm'

-----------------------------------------------------------------------------
(* The session's reducer *)

\* Nobody is signed in.
NoSession == [token |-> None, loggedIn |-> FALSE]

\* A faulty variant: metadata without a token signs in.
HandleLoginAnyway(token) == [token |-> token, loggedIn |-> TRUE]

HandleLogin(token) ==
  IF token = None THEN session ELSE [token |-> token, loggedIn |-> TRUE]

\* Whether the request succeeded or not.
HandleLogout == NoSession

\* A mutation outdates all that is loaded.
Mutate ==
  /\ metadata' = [metadata EXCEPT !.status = Mutated(@)]
  /\ messages' = [messages EXCEPT !.status = Mutated(@)]
  /\ tasks' = [tasks EXCEPT !.status = Mutated(@)]

MutatedRoles == [r \in Roles |-> [roles[r] EXCEPT !.status = Mutated(@)]]

\* Signing in is a mutation.
LoginWithToken(token) ==
  /\ session' = HandleLogin(token)
  /\ roles' = MutatedRoles
  /\ Mutate

-----------------------------------------------------------------------------
(* Requests carry the token of the moment *)

Asked(kind, data) ==
  [kind |-> kind, token |-> IF session.loggedIn THEN session.token ELSE None, data |-> data]

Busy == Len(requests) >= MaxAsked

\* Asking again after a refusal, and whenever the user speaks another
\* language than the metadata.
FetchMetadata ==
  /\ ~Busy
  /\ \/ ShouldLoad(metadata.status) \/ metadata.status = "refused"
     \/ metadata.status = "loaded" /\ metadata.locale # Locale
  /\ metadata' = [metadata EXCEPT !.status = "pending"]
  /\ UNCHANGED <<session, roles, messages, tasks, arrived, server, refused>>
  /\ Rendered(Append(requests, Asked("metadata", Locale)), polling)

FetchRole ==
  /\ ~Busy /\ Drawn /\ CurrentRole # None
  /\ ShouldLoad(roles[CurrentRole].status) \/ roles[CurrentRole].status = "shallow"
  /\ roles' = [roles EXCEPT ![CurrentRole].status = "pending"]
  /\ UNCHANGED <<session, metadata, messages, tasks, arrived, server, refused>>
  /\ Rendered(Append(requests, Asked("role", CurrentRole)), polling)

\* On opening the page that signs out.
Logout ==
  /\ ~Busy /\ Drawn
  /\ requests' = Append(requests, Asked("logout", None))
  /\ UNCHANGED <<store, arrived, dialog, server, refused, form, polling>>

-----------------------------------------------------------------------------
(* The messages *)

\* From the address in the metadata, without a token; when they are missing,
\* but not after an error, and every quarter of an hour.
FetchMessages ==
  /\ ~Busy /\ metadata.locale # None /\ site.url
  /\ messages' = [messages EXCEPT !.status = "pending"]
  /\ UNCHANGED <<session, metadata, roles, tasks, arrived, server, refused>>
  /\ Rendered(Append(requests, [kind |-> "messages", token |-> None, data |-> None]), polling)

\* Neither dismissed nor over by now.
Active(over) == Filtered(messages.shown, Messages \ (ToSet(messages.dismissed) \cup over))

\* A faulty variant: one more than can be is remembered.
DismissedTooMany(m) == <<m>> \o messages.dismissed

Dismissed(m) ==
  <<m>> \o SubSeq(messages.dismissed, 1,
                  IF Len(messages.dismissed) < DismissedLimit THEN Len(messages.dismissed)
                  ELSE DismissedLimit - 1)

\* The first of them is shown, unless the installation has a banner; some had
\* been over when it was drawn.
DismissMessage ==
  /\ Drawn /\ ~site.banner
  /\ \E over \in SUBSET Expiring :
       /\ Active(over) # <<>> /\ Head(Active(over)) \notin Lasting
       /\ messages' = [messages EXCEPT !.dismissed = Dismissed(Head(Active(over)))]
  /\ UNCHANGED <<session, metadata, roles, tasks, arrived, server, refused>>
  /\ Rendered(requests, polling)

-----------------------------------------------------------------------------
(* The page of the tasks *)

Polls == Len(requests) + Cardinality(polling.held) + Len(polling.loose)

\* The timer that is known is cleared; a load under way cannot be cancelled.
FetchStatus(v, p) ==
  /\ ~Busy
  /\ tasks' = [tasks EXCEPT !.status = "pending"]
  /\ UNCHANGED <<session, metadata, roles, messages, arrived, server, refused>>
  /\ Rendered(Append(requests, Asked("status", v)), [p EXCEPT !.held = @ \ {v}])

VisitStatus ==
  /\ Drawn /\ ~polling.mounted /\ polling.visit < MaxVisits
  /\ FetchStatus(polling.visit + 1, [polling EXCEPT !.visit = @ + 1, !.mounted = TRUE])

LeaveStatus ==
  /\ polling.mounted
  /\ polling' = Left(polling)
  /\ UNCHANGED <<store, arrived, dialog, server, refused, requests, form>>

\* After a mutation.
StatusOutdated ==
  polling.mounted /\ ShouldLoad(tasks.status) /\ FetchStatus(polling.visit, polling)

\* A timer of this visit or an earlier one.
TimerFires ==
  \/ \E v \in polling.held : FetchStatus(v, polling)
  \/ \E i \in DOMAIN polling.loose :
       FetchStatus(polling.loose[i], [polling EXCEPT !.loose = RemoveAt(@, i)])

\* A row is of a dataset the user may write to, with tasks left to do.
CancelCollection ==
  /\ ~Busy /\ Polls < MaxPolls
  /\ polling.mounted /\ session.loggedIn
  /\ tasks.status # "failed" /\ tasks.rows = "active"
  /\ requests' = Append(requests, Asked("cancel", polling.visit))
  /\ UNCHANGED <<store, arrived, dialog, server, refused, form, polling>>

-----------------------------------------------------------------------------
(* Answers *)

Accepted(r) == r.token = None \/ r.token \in server.live

Answered(i) == RemoveAt(requests, i)

\* A faulty variant: a refusal is an error like any other.
RefusedQuietly(i) == Answered(i)

\* Every refusal asks for signing out, with the token of the moment.
Refused(i) == Append(Answered(i), Asked("logout", None))

\* What becomes of the requests if the answer is an error: one of the errors
\* says that the token is not accepted.
Failed(i, rs) ==
  \/ /\ rs = Answered(i)
     /\ UNCHANGED refused
  \/ /\ ~Accepted(requests[i]) /\ rs = Refused(i)
     /\ refused' = refused \cup {requests[i].token}

Errors(i) == {Answered(i), Refused(i)}

NewToken(t) ==
  /\ t \in Tokens \ server.issued
  /\ server' = [live |-> server.live \cup {t}, issued |-> server.issued \cup {t}]

\* A server for a single user issues a token with the metadata.
MetadataAnswered(i) ==
  \/ /\ Accepted(requests[i])
     /\ IF site.single
        THEN \E t \in Tokens : NewToken(t) /\ session' = HandleLogin(t)
        ELSE session' = HandleLogin(None) /\ UNCHANGED server
     /\ metadata' = [status |-> "loaded", locale |-> requests[i].data]
     /\ UNCHANGED <<roles, messages, tasks, arrived, refused>>
     /\ Rendered(Answered(i), polling)
  \/ \E rs \in Errors(i) :
       /\ Failed(i, rs)
       /\ metadata' = [metadata EXCEPT !.status = IF rs = Answered(i) THEN "failed" ELSE "refused"]
       /\ UNCHANGED <<session, roles, messages, tasks, arrived, server>>
       /\ Rendered(rs, polling)

\* The user may have changed the language from another page.
RoleAnswered(i) ==
  LET id == requests[i].data IN
  \/ /\ Accepted(requests[i])
     /\ \E l \in site.languages \cup {None} :
          roles' = [roles EXCEPT ![id] = [status |-> "loaded", known |-> TRUE, locale |-> l]]
     /\ UNCHANGED <<session, metadata, messages, tasks, arrived, server, refused>>
     /\ Rendered(Answered(i), polling)
  \/ \E rs \in Errors(i) :
       /\ Failed(i, rs)
       /\ roles' = [roles EXCEPT ![id].status = "failed"]
       /\ UNCHANGED <<session, metadata, messages, tasks, arrived, server>>
       /\ Rendered(rs, polling)

MessagesLoaded ==
  \E some \in SUBSET Messages :
    messages' = [messages EXCEPT !.status = "loaded", !.shown = SetToSeq(some)]

\* From another server: it refuses no token.
MessagesAnswered(i) ==
  /\ MessagesLoaded \/ messages' = [messages EXCEPT !.status = "failed"]
  /\ UNCHANGED <<session, metadata, roles, tasks, arrived, server, refused>>
  /\ Rendered(Answered(i), polling)

LogoutAnswered(i) ==
  /\ session' = HandleLogout
  /\ \/ /\ Accepted(requests[i])
        /\ server' = [server EXCEPT !.live = @ \ {requests[i].token}]
        /\ UNCHANGED <<metadata, roles, messages, tasks, arrived, refused>>
        /\ Rendered(Answered(i), polling)
     \/ \E rs \in Errors(i) :
          /\ Failed(i, rs)
          /\ UNCHANGED <<metadata, roles, messages, tasks, arrived, server>>
          /\ Rendered(rs, polling)

\* Shown by the dialog that asked, if it is still there.
CodeAnswered(i) ==
  /\ UNCHANGED <<store, arrived, server, form, polling>>
  /\ \/ /\ Accepted(requests[i])
        /\ requests' = Answered(i)
        /\ dialog' = [dialog EXCEPT !.submitted = @ \/ requests[i].data = "dialog"]
        /\ UNCHANGED refused
     \/ /\ requests' \in Errors(i) /\ Failed(i, requests')
        /\ UNCHANGED dialog

\* After signing in with the dialog the page is replaced (Reload).
LoginAnswered(i) ==
  \/ /\ Accepted(requests[i])
     /\ \E t \in Tokens : NewToken(t) /\ LoginWithToken(t)
     /\ UNCHANGED <<arrived, refused>>
     /\ Rendered(Answered(i), polling)
  \/ /\ requests' \in Errors(i) /\ Failed(i, requests')
     /\ UNCHANGED <<store, arrived, dialog, server, form, polling>>

\* The new account signs in with the password that was chosen for it.
ActivateAnswered(i) ==
  /\ \/ /\ Accepted(requests[i])
        /\ requests' = Append(Answered(i), Asked("login", None))
        /\ UNCHANGED refused
     \/ requests' \in Errors(i) /\ Failed(i, requests')
  /\ UNCHANGED <<store, arrived, dialog, server, form, polling>>

\* The user that is stored has not been loaded deeply.
UpdateAnswered(i) ==
  LET updated == requests[i].data IN
  \/ /\ Accepted(requests[i])
     /\ roles' = [MutatedRoles EXCEPT ![updated.id] =
                    [status |-> "shallow", known |-> TRUE, locale |-> updated.locale]]
     /\ Mutate
     /\ UNCHANGED <<session, arrived, server, refused>>
     /\ Rendered(Answered(i), polling)
  \/ /\ requests' \in Errors(i) /\ Failed(i, requests')
     /\ UNCHANGED <<store, arrived, dialog, server, form, polling>>

\* A faulty variant: only a load that succeeds is followed by another.
TimedIfLoaded(v) ==
  IF tasks'.status = "loaded" THEN [polling EXCEPT !.held = @ \cup {v}] ELSE polling

\* However it ends, the next load is in ten seconds.
Timed(v) ==
  [polling EXCEPT !.held = @ \cup {v},
                  !.loose = IF v \in polling.held THEN Append(@, v) ELSE @]

StatusAnswered(i) ==
  LET v == requests[i].data IN
  /\ UNCHANGED <<session, metadata, roles, messages, arrived, server>>
  /\ \/ /\ Accepted(requests[i])
        /\ \E rows \in {"idle", "active"} : tasks' = [status |-> "loaded", rows |-> rows]
        /\ UNCHANGED refused
        /\ Rendered(Answered(i), Timed(v))
     \/ \E rs \in Errors(i) :
          /\ Failed(i, rs)
          /\ tasks' = [tasks EXCEPT !.status = "failed"]
          /\ Rendered(rs, Timed(v))

\* The mutation makes the page load what it shows; then the handler goes on,
\* of whatever visit it is, and loads it once more.
CancelAnswered(i) ==
  LET v == requests[i].data
      again == Append(Answered(i), Asked("status", v))
  IN
  \/ /\ Accepted(requests[i])
     /\ roles' = MutatedRoles
     /\ metadata' = [metadata EXCEPT !.status = Mutated(@)]
     /\ messages' = [messages EXCEPT !.status = Mutated(@)]
     /\ tasks' = [tasks EXCEPT !.status = "pending"]
     /\ UNCHANGED <<session, arrived, server, refused>>
     /\ IF polling.mounted /\ Mutated(tasks.status) = "outdated"
        THEN Rendered(Append(again, Asked("status", polling.visit)),
                      [polling EXCEPT !.held = @ \ {v, polling.visit}])
        ELSE Rendered(again, [polling EXCEPT !.held = @ \ {v}])
  \/ /\ requests' \in Errors(i) /\ Failed(i, requests')
     /\ UNCHANGED <<store, arrived, dialog, server, form, polling>>

Answer ==
  \E i \in DOMAIN requests :
    \/ requests[i].kind = "metadata" /\ MetadataAnswered(i)
    \/ requests[i].kind = "role" /\ RoleAnswered(i)
    \/ requests[i].kind = "messages" /\ MessagesAnswered(i)
    \/ requests[i].kind = "logout" /\ LogoutAnswered(i)
    \/ requests[i].kind = "code" /\ CodeAnswered(i)
    \/ requests[i].kind = "login" /\ LoginAnswered(i)
    \/ requests[i].kind = "activate" /\ ActivateAnswered(i)
    \/ requests[i].kind = "update" /\ UpdateAnswered(i)
    \/ requests[i].kind = "status" /\ StatusAnswered(i)
    \/ requests[i].kind = "cancel" /\ CancelAnswered(i)

\* The server's session comes to its end.
Expire ==
  /\ \E t \in server.live : server' = [server EXCEPT !.live = @ \ {t}]
  /\ UNCHANGED <<store, arrived, dialog, refused, requests, form, polling>>

-----------------------------------------------------------------------------
(* Another page *)

\* What the store starts with.
NewMetadata == [status |-> "new", locale |-> None]
NewRoles == [r \in Roles |-> [status |-> "new", known |-> FALSE, locale |-> None]]
NewMessages == [status |-> "new", shown |-> <<>>, dismissed |-> <<>>]
NewTasks == [status |-> "new", rows |-> None]
NewPolling == [visit |-> 0, mounted |-> FALSE, held |-> {}, loose |-> <<>>]

\* What is saved of the messages, with all their flags; what was loaded then
\* is older than the page.
Persisted == [messages EXCEPT !.shown = <<>>, !.status = Mutated(@)]

Load ==
  /\ metadata' = NewMetadata /\ roles' = NewRoles
  /\ messages' = Persisted /\ tasks' = NewTasks
  /\ dialog' = ClosedDialog /\ form' = NoForm /\ polling' = NewPolling
  /\ refused' = {} /\ requests' = <<>>

\* Also after a password has been accepted, after signing out, and at an error.
Reload == Load /\ UNCHANGED <<session, arrived, server>>

\* To the provider and back; the page signs in once it is drawn.
OnOAuthLogin ==
  /\ dialog.open
  /\ \E t \in Tokens : NewToken(t) /\ arrived' = t
  /\ Load /\ UNCHANGED session

OAuthScreen ==
  /\ Drawn /\ arrived # None
  /\ LoginWithToken(arrived)
  /\ arrived' = None
  /\ UNCHANGED <<server, refused>>
  /\ Rendered(requests, polling)

-----------------------------------------------------------------------------
(* The dialog *)

ToggleDialog ==
  /\ DialogShown /\ ~site.forced
  /\ dialog' = [ClosedDialog EXCEPT !.open = ~dialog.open]

OnRegisterClick ==
  /\ dialog.open /\ dialog.section = "login"
  /\ dialog' = [dialog EXCEPT !.section = "register", !.submitted = FALSE]

OnSignInClick ==
  /\ dialog.open /\ dialog.section = "register"
  /\ dialog' = [dialog EXCEPT !.section = "login", !.submitted = FALSE]

DialogSteps ==
  /\ ToggleDialog \/ OnRegisterClick \/ OnSignInClick
  /\ UNCHANGED <<store, arrived, server, refused, requests, form, polling>>

\* The forms of the dialog and of the page that activates an account, once
\* they are complete: the latter asks for the password twice.
Submit ==
  /\ ~Busy
  /\ \/ /\ dialog.open /\ dialog.section = "register" /\ ~dialog.submitted
        /\ requests' = Append(requests, Asked("code", "dialog"))
     \/ /\ dialog.open /\ dialog.section = "login"
        /\ requests' = Append(requests, Asked("login", None))
     \/ /\ Drawn /\ ~session.loggedIn /\ ~site.single
        /\ requests' = Append(requests, Asked("activate", None))
  /\ UNCHANGED <<store, arrived, dialog, server, refused, form, polling>>

-----------------------------------------------------------------------------
(* The settings *)

ValidName(f) == f.name = "long"
ValidPassword(f) == f.password \in {None, Empty, "long", "longer"}

\* A faulty variant: the confirmation is looked at when there is one.
ConfirmedIfTyped(f) == f.confirm \in {None, f.password}

ValidPasswordConfirm(f) == f.password = f.confirm

Valid(f) == ValidName(f) /\ ValidPassword(f) /\ ValidPasswordConfirm(f)

OnChangeInput ==
  /\ form # NoForm
  /\ \/ \E n \in {"long", "short"} : form' = [form EXCEPT !.name = n]
     \/ \E l \in site.languages : form' = [form EXCEPT !.locale = l]
     \/ \E p \in Passwords : form' = [form EXCEPT !.password = p]
     \/ \E p \in Passwords : form' = [form EXCEPT !.confirm = p]
  /\ UNCHANGED <<store, arrived, dialog, server, refused, requests, polling>>

\* What is sent: the form, with the user it is of.
Update(f) ==
  [id |-> CurrentRole, name |-> f.name, locale |-> f.locale,
   password |-> f.password, confirm |-> f.confirm]

\* An empty password is left out.
WithoutBlank(f) == [f EXCEPT !.password = IF @ = Empty THEN None ELSE @]

OnSave ==
  /\ ~Busy /\ form # NoForm /\ Valid(form)
  /\ form' = WithoutBlank(form)
  /\ requests' = Append(requests, Asked("update", Update(WithoutBlank(form))))
  /\ UNCHANGED <<store, arrived, dialog, server, refused, polling>>

-----------------------------------------------------------------------------

\* A page that has just been opened; some are opened by a user who signed in
\* at an earlier one.
Init ==
  /\ part \in {"session", "messages", "settings", "status"}
  /\ site \in Sites
  /\ part \in {"settings", "status"} => site.forced
  /\ \E t \in Tokens \cup {None} :
       /\ session = IF t = None THEN NoSession ELSE [token |-> t, loggedIn |-> TRUE]
       /\ server = [live |-> {t} \ {None}, issued |-> {t} \ {None}]
  /\ metadata = NewMetadata /\ roles = NewRoles
  /\ messages = NewMessages /\ tasks = NewTasks
  /\ arrived = None /\ dialog = ClosedDialog /\ form = NoForm
  /\ refused = {} /\ requests = <<>> /\ polling = NewPolling

\* One concern of the user is followed at a time.
SessionSteps ==
  part \in {"session", "settings"} /\ (FetchRole \/ Expire)

SignInSteps ==
  part = "session" /\ (Logout \/ DialogSteps \/ Submit \/ OnOAuthLogin \/ OAuthScreen)

MessagesSteps == part = "messages" /\ (FetchMessages \/ DismissMessage)

SettingsSteps == part = "settings" /\ (OnChangeInput \/ OnSave)

StatusSteps ==
  /\ part = "status"
  /\ \/ VisitStatus \/ LeaveStatus \/ StatusOutdated \/ TimerFires
     \/ CancelCollection \/ Expire

Steps ==
  \/ FetchMetadata \/ Answer \/ Reload
  \/ SessionSteps \/ SignInSteps \/ MessagesSteps \/ SettingsSteps \/ StatusSteps

Next == UNCHANGED <<part, site>> /\ Steps

Spec == Init /\ [][Next]_vars

-----------------------------------------------------------------------------

TypeOK ==
  /\ session \in [token : Tokens \cup {None}, loggedIn : BOOLEAN]
  /\ {metadata.status, messages.status, tasks.status} \subseteq Statuses
  /\ metadata.locale \in Locales \cup {None}
  /\ roles \in [Roles -> [status : Statuses, known : BOOLEAN, locale : Locales \cup {None}]]
  /\ ToSet(messages.shown) \cup ToSet(messages.dismissed) \subseteq Messages
  /\ Len(messages.dismissed) <= DismissedLimit
  /\ arrived \in Tokens \cup {None}
  /\ server.live \subseteq server.issued /\ server.issued \subseteq Tokens
  /\ refused \subseteq Tokens
  /\ \A i \in DOMAIN requests : requests[i].token \in Tokens \cup {None}
  /\ polling.visit \in 0..MaxVisits /\ polling.held \subseteq Visits
  /\ ToSet(polling.loose) \subseteq Visits

Awaited(kind) == \E i \in DOMAIN requests : requests[i].kind = kind
AwaitedFor(kind, data) ==
  \E i \in DOMAIN requests : requests[i].kind = kind /\ requests[i].data = data

\* Whoever is signed in has a token to sign requests with, and nobody else
\* has one (reducers/session.js).
LoggedInHasToken == session.loggedIn <=> session.token # None

\* A session the server has refused is being ended: nobody goes on with a
\* token that this page knows to be worthless, whatever else is under way
\* and whatever becomes of the request to sign out (App.jsx).
RefusedEnds == session.token \in refused => Awaited("logout")

\* What is marked as being loaded has been asked for and will be answered
\* (reducers/metadata.js, reducers/roles.js, reducers/systemStatus.js).
LoadsAnswered ==
  /\ metadata.status = "pending" => Awaited("metadata")
  /\ tasks.status = "pending" => Awaited("status")
  /\ \A r \in Roles : roles[r].status = "pending" => AwaitedFor("role", r)

\* Only a form that is complete, with the new password typed twice, is sent,
\* and it is sent for the user whose it is (SettingsScreen.jsx).
UpdatesValid ==
  \A i \in DOMAIN requests :
    requests[i].kind = "update" =>
      LET f == requests[i].data IN
      /\ ValidName(f) /\ (f.password # None => f.password = f.confirm)
      /\ f.id = RoleOf[requests[i].token]

\* As long as the page of the tasks is open, it is being loaded or will be,
\* whatever was cancelled, cleared or refused (SystemStatusScreen.jsx).
StatusPolled ==
  polling.mounted =>
    \/ AwaitedFor("status", polling.visit)
    \/ polling.visit \in polling.held \cup ToSet(polling.loose)

SessionHolds ==
  LoggedInHasToken /\ RefusedEnds /\ LoadsAnswered /\ UpdatesValid /\ StatusPolled

\* Of the messages only the dismissed ones outlive the page: a page that has
\* just been loaded asks for the messages (store.js).
OnlyDismissedPersists ==
  requests = <<>> /\ metadata.status = "new" => ShouldLoad(messages.status)

-----------------------------------------------------------------------------
(* An inductive invariant from which SessionHolds follows *)

Typed == Passwords \cup {None}
Forms == [name : {None, "long", "short"}, locale : Locales \cup {None},
          password : Typed, confirm : Typed]

\* What is asked for by a request of a kind.
DataOf(kind) ==
  CASE kind = "metadata" -> Locales
    [] kind = "role" -> Roles
    [] kind = "code" -> {"dialog", None}
    [] kind = "update" -> [id : Roles, name : {"long"}, locale : Locales \cup {None},
                           password : Typed, confirm : Typed]
    [] kind \in {"status", "cancel"} -> Visits
    [] OTHER -> {None}

Kinds == {"metadata", "role", "messages", "logout", "code", "login", "activate",
          "update", "status", "cancel"}

Requests ==
  UNION {[kind : {k}, token : Tokens \cup {None}, data : DataOf(k)] : k \in Kinds}

TypesKept ==
  /\ site \in Sites
  /\ session \in [token : Tokens \cup {None}, loggedIn : BOOLEAN]
  /\ metadata \in [status : Statuses, locale : Locales \cup {None}]
  /\ roles \in [Roles -> [status : Statuses, known : BOOLEAN, locale : Locales \cup {None}]]
  /\ messages \in [status : Statuses, shown : Seq(Messages), dismissed : Seq(Messages)]
  /\ Len(messages.dismissed) <= DismissedLimit
  /\ tasks \in [status : Statuses, rows : {None, "idle", "active"}]
  /\ server \in [live : SUBSET Tokens, issued : SUBSET Tokens]
  /\ server.live \subseteq server.issued
  /\ requests \in Seq(Requests) /\ form \in Forms
  /\ polling \in [visit : 0..MaxVisits, mounted : BOOLEAN, held : SUBSET Visits,
                  loose : Seq(Visits)]
  /\ polling.mounted => polling.visit # 0

\* Only tokens that were issued are around, and the one the user came back
\* with has not been used.
TokensIssued ==
  LET issued == server.issued \cup {None}
      used == {requests[i].token : i \in DOMAIN requests} IN
  /\ session.token \in issued /\ arrived \in issued /\ used \subseteq issued
  /\ refused \subseteq server.issued
  /\ arrived # None => arrived \notin refused \cup used \cup {session.token}

\* Somebody is signed in while there is a form with their settings.
FormOfUser == form # NoForm => session.loggedIn

Inv == TypesKept /\ TokensIssued /\ FormOfUser /\ SessionHolds
=============================================================================
