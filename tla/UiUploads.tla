----------------------------- MODULE UiUploads -----------------------------
(***************************************************************************)
(* The documents of a folder: uploading a tree of files, with a limit on   *)
(* the requests in flight, retry and cancellation; selecting documents and *)
(* deleting them one after the other; making a folder.                     *)
(*                                                                         *)
(* A step is what happens between two turns of the browser's event loop:   *)
(* an answer and everything that was waiting for it.                       *)
(***************************************************************************)
EXTENDS UiLists

CONSTANTS
  Folders, Files,  \* the nodes of the tree that can be chosen
  ParentOf,        \* node -> folder, or Root
  Root,            \* where the upload starts
  Typed,           \* files whose type the browser knows
  UploadConcurrencyLimit,
  Documents,       \* that the folder lists at first
  MaxRequests      \* deletions and new folders that are asked for

VARIABLES
  panel,       \* "upload" or "manager"
  dropped,     \* the dialog was opened by dropping files
  files,       \* chosen so far
  checked,     \* and not unchecked
  meta,        \* [status, total]; status "none" before it starts
  trace,       \* node -> "none", "pending", "error" or "success"
  uploading,   \* uploadPromises
  waiting,     \* for one of them to end
  stored,      \* nodes the server has
  listed,      \* documents of the folder
  selection,
  deleteOpen, blocking, left, deletedEntities,
  folder,      \* the dialog for a new folder: [open, blocking]
  requests

upload == <<dropped, files, checked, meta, trace, uploading, waiting, stored>>
manager == <<listed, selection, deleteOpen, blocking, left, deletedEntities,
             folder, requests>>
vars == <<panel, upload, manager>>

Nodes == Folders \cup Files

-----------------------------------------------------------------------------
(* Choosing files *)

NoMeta == [status |-> "none", total |-> 0]
NoTrace == [n \in Nodes |-> "none"]

SetTraces(nodes, status) ==
  [n \in Nodes |-> IF n \in nodes THEN status ELSE trace[n]]

\* The files are shown, to be unchecked and sent.
ViewShown == files # {} /\ meta = NoMeta

\* The forms take only files with a type; dropped files are taken as they are.
OnFilesChange ==
  /\ files = {} /\ meta = NoMeta
  /\ \E chosen \in SUBSET Files :
       LET taken == IF dropped THEN chosen ELSE chosen \cap Typed IN
       /\ chosen # {} /\ taken # {}
       /\ files' = taken /\ checked' = taken
  /\ UNCHANGED <<dropped, meta, trace, uploading, waiting, stored>>

ToggleFile ==
  /\ ViewShown
  /\ \E f \in files :
       checked' = IF f \in checked THEN checked \ {f} ELSE checked \cup {f}
  /\ UNCHANGED <<dropped, files, meta, trace, uploading, waiting, stored>>

\* A set of folders with the one around n, and around each of its own.
ClosedAround(n, S) == \A d \in {n} \cup S : ParentOf[d] \in S \cup {Root}

\* The folders on the way to the chosen files are made as well, at any depth.
Ancestors(n) == {d \in Folders : \A S \in SUBSET Folders : ClosedAround(n, S) => d \in S}

Tree == checked \cup UNION {Ancestors(f) : f \in checked}

Children(parent) == {n \in Tree : ParentOf[n] = parent}

-----------------------------------------------------------------------------
(* Uploading *)

Count(status, nodes) == Cardinality({n \in nodes : trace'[n] = status})

\* A faulty variant: a request that starts does not count at once.
StartAll(busy, ready) ==
  IF Cardinality(busy) < UploadConcurrencyLimit
  THEN uploading' = busy \cup ready /\ waiting' = {}
  ELSE uploading' = busy /\ waiting' = ready

\* Requests start until the limit is reached, the others go on waiting.
StartWaiting(busy, ready) ==
  LET free == UploadConcurrencyLimit - Cardinality(busy)
      n == IF Cardinality(ready) < free THEN Cardinality(ready) ELSE free IN
  \E started \in SUBSET ready :
    /\ Cardinality(started) = n
    /\ uploading' = busy \cup started /\ waiting' = ready \ started

DoTracedIngest(busy, nodes) ==
  IF Cardinality(busy) < UploadConcurrencyLimit
  THEN StartWaiting(busy, nodes)
  ELSE uploading' = busy /\ waiting' = nodes

\* After the last answer: what has reached the server decides.
OnUploadDone ==
  meta' = IF uploading' # {} THEN meta
          ELSE [meta EXCEPT !.status = IF Count("success", Nodes) > 0 THEN "success"
                                       ELSE "error"]

OnFormSubmit ==
  /\ ViewShown
  /\ trace' = SetTraces(Children(Root), "pending")
  /\ DoTracedIngest({}, Children(Root))
  /\ meta' = [status |-> IF checked = {} THEN "error" ELSE "pending",
              total |-> Cardinality(checked)]
  /\ UNCHANGED <<dropped, files, checked, stored>>

\* A faulty variant: the content of a folder that could not be made is uploaded.
ContentAnyway(n, ok) == IF n \in Folders THEN Children(n) ELSE {}

\* The content of a folder follows when the folder has an id.
Content(n, ok) == IF n \in Folders /\ ok THEN Children(n) ELSE {}

\* An answer.  An answer that is lost is an error, and the server has the node.
Answered ==
  \E n \in uploading, ok \in BOOLEAN :
    LET more == Content(n, ok) IN
    /\ trace' = [t \in Nodes |-> IF t = n THEN (IF ok THEN "success" ELSE "error")
                                 ELSE IF t \in more THEN "pending" ELSE trace[t]]
    /\ DoTracedIngest(uploading \ {n}, waiting \cup more)
    /\ OnUploadDone
    /\ \/ stored' = stored \cup {n}
       \/ ~ok /\ UNCHANGED stored
    /\ UNCHANGED <<dropped, files, checked>>

\* All is done and there are errors.
RetryOffered(failed) == meta.status \in {"success", "error"} /\ failed # {}

OnRetry ==
  LET failed == {n \in Nodes : trace[n] = "error"} IN
  /\ RetryOffered(failed)
  /\ meta' = [meta EXCEPT !.status = "pending"]
  /\ trace' = SetTraces(failed, "pending")
  /\ DoTracedIngest({}, failed)
  /\ UNCHANGED <<dropped, files, checked, stored>>

\* The dialog is opened by a button, or by dropping files on the list.
Reopened == dropped' \in BOOLEAN

\* While it is pending closing cancels: what is in flight may arrive or not,
\* and nothing that waits is sent.
OnClose ==
  /\ IF meta.status = "pending"
     THEN \E arrived \in SUBSET uploading : stored' = stored \cup arrived
     ELSE UNCHANGED stored
  /\ meta # NoMeta
  /\ files' = {} /\ checked' = {} /\ meta' = NoMeta
  /\ trace' = NoTrace /\ uploading' = {} /\ waiting' = {}
  /\ Reopened

Upload ==
  /\ OnFilesChange \/ ToggleFile \/ OnFormSubmit \/ Answered \/ OnRetry \/ OnClose
  /\ UNCHANGED manager

-----------------------------------------------------------------------------
(* The list and its dialogs *)

\* While a dialog is open nothing behind it can be clicked.
Behind == ~deleteOpen /\ ~folder.open

UpdateSelection ==
  /\ Behind
  /\ \E d \in listed :
       selection' = IF d \in ToSet(selection) THEN Filtered(selection, Documents \ {d})
                    ELSE Append(selection, d)
  /\ UNCHANGED <<listed, deleteOpen, blocking, left, deletedEntities, folder, requests>>

\* The dialog is toggled, not closed; with success the selection is dropped.
Toggle(success) ==
  /\ deleteOpen' = ~deleteOpen
  /\ selection' = IF success THEN <<>> ELSE selection

OpenDelete ==
  /\ Behind /\ selection # <<>>
  /\ Toggle(FALSE)
  /\ UNCHANGED <<listed, blocking, left, deletedEntities, folder, requests>>

\* The click is the argument, and counts as success.
CancelDelete ==
  /\ deleteOpen
  /\ Toggle(TRUE)
  /\ UNCHANGED <<listed, blocking, left, deletedEntities, folder, requests>>

\* The entities of the moment, one after the other, also those that an
\* earlier attempt has deleted.
OnDelete ==
  /\ deleteOpen /\ ~blocking /\ requests < MaxRequests
  /\ requests' = requests + 1
  /\ IF selection = <<>>
     THEN Toggle(TRUE) /\ UNCHANGED <<blocking, left>>
     ELSE /\ blocking' = TRUE /\ left' = selection
          /\ UNCHANGED <<deleteOpen, selection>>
  /\ UNCHANGED <<listed, deletedEntities, folder>>

\* A faulty variant: the next one is deleted although one could not be.
Proceed(ok) ==
  IF Len(left) > 1
  THEN left' = Tail(left) /\ UNCHANGED <<blocking, deleteOpen, selection>>
  ELSE blocking' = FALSE /\ left' = <<>> /\ Toggle(ok)

Continue(ok) ==
  IF ok /\ Len(left) > 1
  THEN left' = Tail(left) /\ UNCHANGED <<blocking, deleteOpen, selection>>
  ELSE /\ blocking' = FALSE /\ left' = <<>>
       /\ IF ok THEN Toggle(TRUE) ELSE UNCHANGED <<deleteOpen, selection>>

\* What is gone cannot be deleted again.
DeleteAnswered ==
  /\ blocking
  /\ \E ok \in BOOLEAN :
       LET d == Head(left) IN
       /\ ok => d \in listed
       /\ listed' = IF ok THEN listed \ {d} ELSE listed
       /\ deletedEntities' = IF ok THEN deletedEntities \cup {d} ELSE deletedEntities
       /\ Continue(ok)
  /\ UNCHANGED <<folder, requests>>

FolderDialog == [open |-> FALSE, blocking |-> FALSE]

OpenFolder ==
  /\ Behind /\ ~folder.blocking
  /\ folder' = [folder EXCEPT !.open = TRUE]
  /\ UNCHANGED <<listed, selection, deleteOpen, blocking, left, deletedEntities, requests>>

\* A form that waits for an answer does not submit.
CanSubmit == folder.open /\ ~folder.blocking

SubmitFolder ==
  /\ CanSubmit /\ requests < MaxRequests
  /\ folder' = [folder EXCEPT !.blocking = TRUE]
  /\ requests' = requests + 1
  /\ UNCHANGED <<listed, selection, deleteOpen, blocking, left, deletedEntities>>

CloseFolder ==
  /\ folder.open
  /\ folder' = [folder EXCEPT !.open = FALSE]
  /\ UNCHANGED <<listed, selection, deleteOpen, blocking, left, deletedEntities, requests>>

\* The new folder is opened, and has nothing in it, selected or open.
FolderAnswered ==
  /\ folder.blocking
  /\ \/ /\ folder' = [folder EXCEPT !.blocking = FALSE]
        /\ UNCHANGED <<listed, selection, deleteOpen, blocking, left, deletedEntities>>
     \/ /\ folder' = FolderDialog
        /\ listed' = {} /\ selection' = <<>> /\ deleteOpen' = FALSE
        /\ blocking' = FALSE /\ left' = <<>> /\ deletedEntities' = {}
  /\ UNCHANGED requests

Manager ==
  /\ \/ UpdateSelection \/ OpenDelete \/ CancelDelete \/ OnDelete \/ DeleteAnswered
     \/ OpenFolder \/ SubmitFolder \/ CloseFolder \/ FolderAnswered
  /\ UNCHANGED upload

-----------------------------------------------------------------------------

NewManager == listed = Documents /\ selection = <<>>

NewDeletion == blocking = FALSE /\ left = <<>> /\ deletedEntities = {}

Init ==
  /\ panel \in {"upload", "manager"}
  /\ dropped = FALSE /\ files = {} /\ checked = {} /\ meta = NoMeta
  /\ trace = NoTrace /\ uploading = {} /\ waiting = {} /\ stored = {}
  /\ NewManager /\ NewDeletion /\ deleteOpen = FALSE /\ folder = FolderDialog
  /\ requests = 0

Steps ==
  \/ panel = "upload" /\ Upload
  \/ panel = "manager" /\ Manager

Next == Steps /\ UNCHANGED panel

Spec == Init /\ [][Next]_vars

-----------------------------------------------------------------------------

TypeOK ==
  /\ checked \subseteq files /\ files \subseteq Files
  /\ meta \in [status : {"none", "pending", "error", "success"}, total : Nat]
  /\ trace \in [Nodes -> {"none", "pending", "error", "success"}]
  /\ uploading \cup waiting \subseteq Nodes /\ stored \subseteq Nodes
  /\ ToSet(selection) \subseteq Documents /\ ToSet(left) \subseteq Documents
  /\ deleteOpen \in BOOLEAN /\ blocking \in BOOLEAN /\ folder \in [open : BOOLEAN, blocking : BOOLEAN]

\* At most so many requests are in flight, and no upload waits while there is
\* room: none is left behind when several wait for the same answer
\* (DocumentUploadDialog.jsx doTracedIngest).
LimitKept ==
  /\ Cardinality(uploading) <= UploadConcurrencyLimit
  /\ waiting # {} => Cardinality(uploading) = UploadConcurrencyLimit
  /\ \A n \in Nodes : trace[n] = "pending" <=> n \in uploading \cup waiting

\* Nothing is in the folder before the folder, and a folder that could not be
\* made has nothing in it that the dialog lists.
FoldersFirst ==
  \A n \in Nodes :
    /\ n \in stored /\ ParentOf[n] # Root => ParentOf[n] \in stored
    /\ trace[n] # "none" /\ ParentOf[n] # Root => trace[ParentOf[n]] = "success"

\* When the dialog says it is done, each file that was chosen has arrived, or
\* an error is listed for it or for a folder around it, and "Retry" will
\* send it again, whatever was retried before.
NothingLost ==
  meta.status \in {"success", "error"} =>
    \A f \in checked :
      \/ trace[f] = "success" /\ f \in stored
      \/ \E n \in {f} \cup Ancestors(f) : trace[n] = "error"

\* The three together.
UploadsArrive == LimitKept /\ FoldersFirst /\ NothingLost

\* Deleting stops at the first error: when an answer deletes nothing, nothing
\* behind it is asked for, and the dialog can be used again
\* (EntityDeleteDialog.jsx onDelete).
StopsAtError == blocking /\ listed' = listed /\ left' # left => ~blocking'
DeletionStops == [][StopsAtError]_vars

-----------------------------------------------------------------------------
(* An inductive invariant from which they follow *)

TypesKept ==
  /\ dropped \in BOOLEAN /\ checked \subseteq files /\ files \subseteq Files
  /\ meta \in [status : {"none", "pending", "error", "success"}, total : Nat]
  /\ trace \in [Nodes -> {"none", "pending", "error", "success"}]
  /\ uploading \subseteq Nodes /\ waiting \subseteq Nodes /\ stored \subseteq Nodes
  /\ listed \subseteq Documents
  /\ selection \in Seq(Documents) /\ left \in Seq(Documents)
  /\ deleteOpen \in BOOLEAN /\ blocking \in BOOLEAN
  /\ folder \in [open : BOOLEAN, blocking : BOOLEAN]

\* What the dialog knows of a node, and what it has sent of the tree.
Traced ==
  /\ uploading \cap waiting = {}
  /\ \A n \in Nodes : trace[n] = "success" => n \in stored
  /\ meta.status = "none" => meta = NoMeta /\ trace = NoTrace
  /\ meta.status \in {"success", "error"} => uploading = {}
  /\ meta # NoMeta =>
       \A n \in Tree :
         ParentOf[n] = Root \/ trace[ParentOf[n]] = "success" => trace[n] # "none"

Inv == TypesKept /\ LimitKept /\ FoldersFirst /\ Traced
=============================================================================
