---------------------------- MODULE UiAutosave ----------------------------
(***************************************************************************)
(* How the editors of the browser application save: every edit of a        *)
(* network diagram or of a timeline is sent at once, as requests of its    *)
(* own, and nothing waits for the requests before it.                      *)
(* ui/src/components/Entity/entityEditorWrapper.jsx and                    *)
(* ui/src/components/Diagram/DiagramEditor.jsx for diagrams,               *)
(* ui/src/screens/TimelineScreen/TimelineScreen.jsx for timelines.         *)
(*                                                                         *)
(* An entity's value is the number of the edit that gave it, 0 if it is    *)
(* not there; the layout is the number of the edit that changed it.        *)
(***************************************************************************)
EXTENDS Naturals, Sequences, FiniteSets, UiLists

CONSTANTS
  Entities,  \* the entities of the diagram or timeline
  MaxEdits,  \* bound on the edits
  MaxOpen    \* bound on the requests that are out when an edit is made

VARIABLES
  editor,     \* "diagram" or "timeline"
  held,       \* what the editor holds: entity -> value
  drawn,      \* the layout on the screen
  sent,       \* requests without an answer, in the order they were sent
  members,    \* the server's entity set: the entities that are in it
  values,     \* the server's entities: entity -> value
  saved,      \* the server's layout
  status,     \* updateStatus of the screen
  online,     \* navigator.onLine
  edits,      \* number of edits
  failed,     \* a request has failed
  overtaken   \* two requests about one object were served in the wrong order

vars == <<editor, held, drawn, sent, members, values, saved, status, online,
          edits, failed, overtaken>>

Statuses == {"SUCCESS", "ERROR", "IN_PROGRESS"}

-----------------------------------------------------------------------------
(* The requests *)

Request(op, about, value) ==
  [op |-> op, about |-> about, value |-> value, served |-> FALSE]

PutEntity(e, n) == Request("put", e, n)
CreateEntity(e, n) == Request("create", e, n)
UpdateEntity(e, n) == Request("update", e, n)
RemoveEntity(e) == Request("remove", e, 0)
UpdateLayout(n) == Request("layout", "layout", n)

BatchWithoutUpdates(put, update, remove, n) ==
  SetToSeq({PutEntity(e, n) : e \in put})
    \o SetToSeq({RemoveEntity(e) : e \in remove})
    \o <<UpdateLayout(n)>>

\* A recorded edit of a diagram, undo and redo included: the entity manager
\* sends one request for each entity, and the editor the layout.
Batch(put, update, remove, n) ==
  SetToSeq({PutEntity(e, n) : e \in put})
    \o SetToSeq({UpdateEntity(e, n) : e \in update})
    \o SetToSeq({RemoveEntity(e) : e \in remove})
    \o <<UpdateLayout(n)>>

\* Every sender first reports that saving has begun.
Send(requests) ==
  /\ sent' = sent \o requests
  /\ status' = "IN_PROGRESS"
  /\ edits' = edits + 1

CanEdit == edits < MaxEdits /\ Len(sent) < MaxOpen

-----------------------------------------------------------------------------
(* The editors *)

\* Entities appear, change or go, and the layout changes, in one edit.
EditDiagram(put, update, remove) ==
  LET n == edits + 1
  IN /\ editor = "diagram" /\ CanEdit
     /\ \A e \in put : held[e] = 0
     /\ \A e \in update \cup remove : held[e] # 0
     /\ held' = [e \in Entities |->
                  IF e \in put \cup update THEN n
                  ELSE IF e \in remove THEN 0 ELSE held[e]]
     /\ drawn' = n
     /\ Send(Batch(put, update, remove, n))
     /\ UNCHANGED <<editor, members, values, saved, online, failed, overtaken>>

\* EntityViewer's new reference target: created, but not drawn by this edit.
CreateReferenced(e) ==
  /\ editor = "diagram" /\ CanEdit
  /\ held[e] = 0
  /\ held' = [held EXCEPT ![e] = edits + 1]
  /\ Send(<<PutEntity(e, edits + 1)>>)
  /\ UNCHANGED <<editor, drawn, members, values, saved, online, failed,
                 overtaken>>

\* A timeline waits for the answer before it shows a new item (onCreate),
\* which has an id of its own...
CreateItem(e) ==
  /\ editor = "timeline" /\ CanEdit
  /\ held[e] = 0 /\ values[e] = 0
  /\ ~\E i \in DOMAIN sent : sent[i].about = e
  /\ Send(<<CreateEntity(e, edits + 1)>>)
  /\ UNCHANGED <<editor, held, drawn, members, values, saved, online, failed,
                 overtaken>>

\* ... but shows a change, a removal or a colour before it is saved.
ChangeItem(e) ==
  /\ editor = "timeline" /\ CanEdit
  /\ held[e] # 0
  /\ \/ /\ held' = [held EXCEPT ![e] = edits + 1]
        /\ Send(<<PutEntity(e, edits + 1)>>)
     \/ held' = [held EXCEPT ![e] = 0] /\ Send(<<RemoveEntity(e)>>)
  /\ UNCHANGED <<editor, drawn, members, values, saved, online, failed,
                 overtaken>>

ChangeVertex ==
  /\ editor = "timeline" /\ CanEdit
  /\ drawn' = edits + 1
  /\ Send(<<UpdateLayout(edits + 1)>>)
  /\ UNCHANGED <<editor, held, members, values, saved, online, failed,
                 overtaken>>

-----------------------------------------------------------------------------
(* The server and the network *)

\* Any request may be served next; each takes effect as it is served.
Serve(i) ==
  LET r == sent[i]
  IN /\ ~r.served
     /\ sent' = [sent EXCEPT ![i].served = TRUE]
     /\ members' = CASE r.op \in {"put", "create"} -> members \cup {r.about}
                     [] r.op = "remove" -> members \ {r.about}
                     [] OTHER -> members
     /\ values' = IF r.op \in {"put", "create", "update"}
                  THEN [values EXCEPT ![r.about] = r.value] ELSE values
     /\ saved' = IF r.op = "layout" THEN r.value ELSE saved
     /\ overtaken' = (overtaken \/ \E j \in 1..(i - 1) :
                        ~sent[j].served /\ sent[j].about = r.about)
     /\ UNCHANGED <<editor, held, drawn, status, online, edits, failed>>

\* The answer: createEntity, updateEntity, deleteEntity, updateLayout and
\* saveChanges each report success for themselves.
Succeed(i) ==
  /\ sent[i].served
  /\ sent' = RemoveAt(sent, i)
  /\ status' = "SUCCESS"
  /\ held' = IF sent[i].op = "create"
             THEN [held EXCEPT ![sent[i].about] = sent[i].value] ELSE held
  /\ UNCHANGED <<editor, drawn, members, values, saved, online, edits, failed,
                 overtaken>>

RejectKeepsStatus(i) ==
  /\ sent' = RemoveAt(sent, i)
  /\ failed' = TRUE
  /\ UNCHANGED <<editor, held, drawn, members, values, saved, status, online,
                 edits, overtaken>>

\* A refused request, or one whose answer is lost after it was served.
\* Nothing is sent again and nothing is taken back.
Reject(i) ==
  /\ sent' = RemoveAt(sent, i)
  /\ failed' = TRUE
  /\ status' = "ERROR"
  /\ UNCHANGED <<editor, held, drawn, members, values, saved, online, edits,
                 overtaken>>

\* useOnlineStatus
ChangeOnline ==
  /\ online' = ~online
  /\ UNCHANGED <<editor, held, drawn, sent, members, values, saved, status,
                 edits, failed, overtaken>>

-----------------------------------------------------------------------------

\* The editor is constructed from the entity set; no status is shown yet.
Init ==
  /\ editor \in {"diagram", "timeline"}
  /\ \E e \in Entities : held = [f \in Entities |-> IF f = e THEN 1 ELSE 0]
  /\ members = {e \in Entities : held[e] # 0}
  /\ values = held
  /\ drawn = 1 /\ saved = 1
  /\ sent = << >> /\ status = "NONE" /\ online = TRUE
  /\ edits = 1 /\ failed = FALSE /\ overtaken = FALSE

Next ==
  \/ \E put, update, remove \in SUBSET Entities :
       /\ Cardinality(put \cup update \cup remove) <= 2
       /\ update = {} \/ (put = {} /\ remove = {})
       /\ EditDiagram(put, update, remove)
  \/ \E e \in Entities :
       CreateReferenced(e) \/ CreateItem(e) \/ ChangeItem(e)
  \/ ChangeVertex
  \/ \E i \in DOMAIN sent : Serve(i) \/ Succeed(i) \/ Reject(i)
  \/ ChangeOnline

Spec == Init /\ [][Next]_vars

-----------------------------------------------------------------------------
(* Properties *)

\* The tag in the breadcrumbs: anything that is not an error or in progress
\* is shown as saved.
ShownStatus ==
  CASE ~online -> "Offline"
    [] online /\ status = "ERROR" -> "Error saving"
    [] online /\ status = "IN_PROGRESS" -> "Saving"
    [] OTHER -> "Saved"

\* The type invariant (entityEditorWrapper.jsx:28, UpdateStatus.tsx:7).
TypeOK ==
  /\ editor \in {"diagram", "timeline"}
  /\ held \in [Entities -> 0..MaxEdits] /\ values \in [Entities -> 0..MaxEdits]
  /\ members \subseteq Entities
  /\ drawn \in 1..MaxEdits /\ saved \in 1..MaxEdits /\ edits \in 1..MaxEdits
  /\ status \in Statuses \cup {"NONE"}
  /\ \A i \in DOMAIN sent :
       sent[i].op \in {"put", "create", "update", "remove", "layout"}
  /\ {online, failed, overtaken} \subseteq BOOLEAN

\* When all requests are answered, none failed and none about the same object
\* overtook another, the server holds what the editor shows: no edit of a
\* diagram or a timeline forgets one of its requests
\* (entityEditorWrapper.jsx:87, DiagramEditor.jsx:63, TimelineScreen.jsx:98).
ServerFollows ==
  sent = << >> /\ ~failed /\ ~overtaken =>
    /\ members = {e \in Entities : held[e] # 0}
    /\ \A e \in members : values[e] = held[e]
    /\ saved = drawn

\* "Saving" is never shown for ever: there is a request whose answer, either
\* way, will replace it (entityEditorWrapper.jsx:104, TimelineScreen.jsx:105).
SavingHasRequest == status = "IN_PROGRESS" => sent # << >>

\* What the tag says: "Saved" (UpdateStatus.tsx:59).  The status is the last
\* answer's, so the tag says so while other requests are still out.
SavedIsSaved == ShownStatus = "Saved" => sent = << >>

-----------------------------------------------------------------------------
(* The invariant that ServerFollows follows from: what the last request     *)
(* that is not served yet asks for is what the editor shows; where no such  *)
(* request is left, it is what the server holds.                            *)

Operations == {"put", "create", "update", "remove", "layout"}

Requests ==
  [op : Operations, about : Entities \cup {"layout"}, value : 0..MaxEdits,
   served : BOOLEAN]

\* Only a layout is about the layout, and only a removal has no value.
RequestsOK ==
  /\ sent \in Seq(Requests)
  /\ \A i \in DOMAIN sent :
       /\ sent[i].op = "layout" <=> sent[i].about = "layout"
       /\ sent[i].op # "remove" => sent[i].value # 0

Unserved(o, ops) ==
  {r \in Requests : ~r.served /\ r.about = o /\ r.op \in ops}

NoneOf(s, K) == \A i \in DOMAIN s : s[i] \notin K

IsLastOf(s, K, i) ==
  /\ i \in DOMAIN s /\ s[i] \in K
  /\ \A j \in DOMAIN s : j > i => s[j] \notin K

Creating(e) == \E i \in DOMAIN sent : sent[i].op = "create" /\ sent[i].about = e

\* The item that is created is shown later, and no other request is about it.
CreatesAlone ==
  \A i \in DOMAIN sent :
    sent[i].op = "create" =>
      /\ editor = "timeline" /\ held[sent[i].about] = 0
      /\ \A j \in DOMAIN sent : sent[j].about = sent[i].about => j = i
      /\ sent[i].served =>
           sent[i].about \in members /\ values[sent[i].about] = sent[i].value

MembersFollow ==
  \A e \in Entities :
    LET K == Unserved(e, {"put", "remove"})
    IN ~Creating(e) =>
         /\ NoneOf(sent, K) => (e \in members <=> held[e] # 0)
         /\ \A i \in DOMAIN sent :
              IsLastOf(sent, K, i) => (sent[i].op = "put" <=> held[e] # 0)

ValuesFollow ==
  \A e \in Entities :
    LET K == Unserved(e, {"put", "update"})
    IN ~Creating(e) /\ held[e] # 0 =>
         /\ NoneOf(sent, K) => values[e] = held[e]
         /\ \A i \in DOMAIN sent :
              IsLastOf(sent, K, i) => sent[i].value = held[e]

LayoutFollows ==
  LET K == Unserved("layout", {"layout"})
  IN /\ NoneOf(sent, K) => saved = drawn
     /\ \A i \in DOMAIN sent : IsLastOf(sent, K, i) => sent[i].value = drawn

Follows ==
  ~failed /\ ~overtaken =>
    CreatesAlone /\ MembersFollow /\ ValuesFollow /\ LayoutFollows

Inv == TypeOK /\ RequestsOK /\ Follows /\ SavingHasRequest
=============================================================================
