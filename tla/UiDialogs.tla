----------------------------- MODULE UiDialogs -----------------------------
(***************************************************************************)
(* The dialogs that make, change, share and delete a collection or a set   *)
(* of entities.  They stay mounted while they are closed, so what was      *)
(* typed stays in them; and they are closed by toggling, so an answer that *)
(* arrives after the user has closed one opens it again.                   *)
(*                                                                         *)
(* label and rights are what the server has, cached and listed what the    *)
(* store has of it.  Another user may change the former.                   *)
(***************************************************************************)
EXTENDS UiLists

CONSTANTS
  Labels,      \* that can be typed
  LongLabels,  \* those of at least three characters
  FirstLabel,
  Roles,
  FirstRights, \* role -> [read, write] of those that have rights at first
  MaxRoles,    \* entries of a list of roles
  MaxMade,     \* collections that are made
  Imported     \* labels of files a set is imported from

VARIABLES
  dialog,     \* which one is used
  label, cached,
  rights, listed,
  edit,       \* [open, form, changed, blocking, sent]
  setEdit,    \* [open, form, processing, sent]
  create,     \* [open, label, roles, suggested, blocking, step]
  made,       \* collections that were made, unshared ones too
  setCreate,  \* [label, collection, layout, processing, stored]
  access,     \* [open, permissions, blocking, fetching, sent]
  delete,     \* [open, field, typed, loading, gone]
  xref        \* [open, blocking, asked]

vars == <<dialog, label, cached, rights, listed, edit, setEdit, create, made,
          setCreate, access, delete, xref>>

None == "none"
NoList == <<>>

\* toggleDialog of the button that opens the dialog.
ToggleDialog(d) == [d EXCEPT !.open = ~@]

-----------------------------------------------------------------------------
(* Editing a collection *)

\* What the form shows: the store's collection until something is changed.
Form == IF edit.changed THEN edit.form ELSE cached

OpenEdit == ~edit.open /\ edit' = ToggleDialog(edit) /\ UNCHANGED <<label, cached>>
CloseEdit == edit.open /\ edit' = ToggleDialog(edit) /\ UNCHANGED <<label, cached>>

OnFieldChange ==
  /\ edit.open
  /\ \E v \in Labels \ {Form} : edit' = [edit EXCEPT !.form = v, !.changed = TRUE]
  /\ UNCHANGED <<label, cached>>

SubmitEdit ==
  /\ edit.open /\ ~edit.blocking
  /\ edit' = [edit EXCEPT !.blocking = TRUE, !.sent = Form]
  /\ UNCHANGED <<label, cached>>

\* A faulty variant: after an error the dialog goes on waiting.
SavedOnly(ok) ==
  IF ok THEN [ToggleDialog(edit) EXCEPT !.blocking = FALSE, !.changed = FALSE, !.sent = None]
  ELSE [edit EXCEPT !.changed = FALSE, !.sent = None]

\* With an error, too, what was typed is given up.
Saved(ok) ==
  LET d == IF ok THEN ToggleDialog(edit) ELSE edit IN
  [d EXCEPT !.blocking = FALSE, !.changed = FALSE, !.sent = None]

EditAnswered ==
  /\ edit.sent # None
  /\ \E ok \in BOOLEAN :
       /\ label' = IF ok THEN edit.sent ELSE label
       /\ cached' = IF ok THEN edit.sent ELSE cached
       /\ edit' = Saved(ok)

Edit ==
  /\ OpenEdit \/ CloseEdit \/ OnFieldChange \/ SubmitEdit \/ EditAnswered
  /\ UNCHANGED <<rights, listed, setEdit, create, made, setCreate, access, delete, xref>>

-----------------------------------------------------------------------------
(* Editing a set.  Its form is filled once, when the dialog is mounted.    *)

ToggleSetEdit == setEdit' = ToggleDialog(setEdit) /\ UNCHANGED <<label, cached>>

OnChangeLabel ==
  /\ setEdit.open
  /\ \E v \in Labels \cup {""} : setEdit' = [setEdit EXCEPT !.form = v]
  /\ UNCHANGED <<label, cached>>

SubmitSetEdit ==
  /\ setEdit.open /\ ~setEdit.processing /\ setEdit.form # ""
  /\ setEdit' = [setEdit EXCEPT !.processing = TRUE, !.sent = setEdit.form]
  /\ UNCHANGED <<label, cached>>

SetEditAnswered ==
  /\ setEdit.sent # None
  /\ \E ok \in BOOLEAN :
       LET d == IF ok THEN ToggleDialog(setEdit) ELSE setEdit IN
       /\ setEdit' = [d EXCEPT !.processing = FALSE, !.sent = None]
       /\ label' = IF ok THEN setEdit.sent ELSE label
       /\ cached' = IF ok THEN setEdit.sent ELSE cached

SetEdit ==
  /\ ToggleSetEdit \/ OnChangeLabel \/ SubmitSetEdit \/ SetEditAnswered
  /\ UNCHANGED <<rights, listed, edit, create, made, setCreate, access, delete, xref>>

-----------------------------------------------------------------------------
(* A new investigation, from the dialog for a new set *)

Rights == [role : Roles, read : BOOLEAN, write : BOOLEAN]
RolesOf(perms) == {perms[i].role : i \in DOMAIN perms}

\* Those on the list are left out when it asks; what it has got stays.
OnSuggest ==
  /\ create.open
  /\ create' = [create EXCEPT !.suggested = Roles \ RolesOf(create.roles)]
  /\ UNCHANGED <<made, setCreate>>

OnAddRole ==
  /\ create.open /\ Len(create.roles) < MaxRoles
  /\ \E r \in create.suggested :
       create' = [create EXCEPT !.roles =
                    Append(@, [role |-> r, read |-> TRUE, write |-> TRUE])]
  /\ UNCHANGED <<made, setCreate>>

OnDeleteRole ==
  /\ create.open
  /\ \E r \in RolesOf(create.roles) :
       create' = [create EXCEPT !.roles = Filtered(@, {p \in Rights : p.role # r})]
  /\ UNCHANGED <<made, setCreate>>

OnChangeTitle ==
  /\ create.open
  /\ \E v \in Labels : v # create.label /\ create' = [create EXCEPT !.label = v]
  /\ UNCHANGED <<made, setCreate>>

LongEnough == create.label \in LongLabels

SubmitCreate ==
  /\ create.open /\ ~create.blocking /\ LongEnough
  /\ create' = [create EXCEPT !.blocking = TRUE, !.step = "create"]
  /\ UNCHANGED <<made, setCreate>>

\* It is made first and shared then.  If sharing fails it is there all the
\* same, and submitting again makes another one.
CreateAnswered ==
  /\ create.step = "create"
  /\ \/ /\ made < MaxMade /\ made' = made + 1
        /\ create' = [create EXCEPT !.step = "share"]
     \/ /\ create' = [create EXCEPT !.step = None, !.blocking = FALSE]
        /\ UNCHANGED made
  /\ UNCHANGED setCreate

\* The dialog below takes the new one, if the sharing was answered.
ShareAnswered ==
  /\ create.step = "share"
  /\ \/ /\ create' = [ToggleDialog(create) EXCEPT !.step = None, !.blocking = FALSE]
        /\ setCreate' = [setCreate EXCEPT !.collection = made]
     \/ /\ create' = [create EXCEPT !.step = None, !.blocking = FALSE]
        /\ UNCHANGED setCreate
  /\ UNCHANGED made

ToggleCreate == create' = ToggleDialog(create) /\ UNCHANGED <<made, setCreate>>

Investigation ==
  \/ OnSuggest \/ OnAddRole \/ OnDeleteRole \/ OnChangeTitle \/ SubmitCreate
  \/ CreateAnswered \/ ShareAnswered \/ ToggleCreate

(* The dialog for a new set: typed, or imported from a file *)

CheckValid == setCreate.collection # 0 /\ setCreate.label # ""

ChooseCollection ==
  /\ ~create.open
  /\ \E c \in 1..made : setCreate' = [setCreate EXCEPT !.collection = c]
  /\ UNCHANGED <<create, made>>

TypeSet ==
  /\ ~create.open
  /\ \E v \in Labels \cup {""} : setCreate' = [setCreate EXCEPT !.label = v]
  /\ UNCHANGED <<create, made>>

OnImport(f) == setCreate' = [setCreate EXCEPT !.label = f, !.layout = TRUE]

\* A file that can be read is handed on with its label.
ImportFile ==
  /\ ~create.open
  /\ \E f \in Imported : OnImport(f)
  /\ UNCHANGED <<create, made>>

SubmitSet ==
  /\ ~create.open /\ ~setCreate.processing /\ CheckValid
  /\ setCreate' = [setCreate EXCEPT !.processing = TRUE]
  /\ UNCHANGED <<create, made>>

SetAnswered ==
  /\ setCreate.processing
  /\ \E ok \in BOOLEAN :
       setCreate' = [setCreate EXCEPT !.processing = FALSE, !.stored = ok \/ @]
  /\ UNCHANGED <<create, made>>

Create ==
  /\ \/ Investigation
     \/ ChooseCollection \/ TypeSet \/ ImportFile \/ SubmitSet \/ SetAnswered
  /\ UNCHANGED <<label, cached, rights, listed, edit, setEdit, access, delete, xref>>

-----------------------------------------------------------------------------
(* Sharing a collection *)

AsList(r) ==
  LET roles == SetToSeq(DOMAIN r) IN
  [i \in DOMAIN roles |-> [role |-> roles[i], read |-> r[roles[i]].read,
                           write |-> r[roles[i]].write]]

\* The list is taken over while the dialog has none, and only then: rights
\* that arrive later are not shown.
DidUpdate(d, store) ==
  IF d.permissions = <<>> /\ store # NoList
  THEN [d EXCEPT !.permissions = store, !.blocking = FALSE] ELSE d

OpenAccess ==
  /\ ~access.open
  /\ access' = ToggleDialog(access)
  /\ UNCHANGED <<rights, listed>>

CloseAccess == access.open /\ access' = ToggleDialog(access) /\ UNCHANGED <<rights, listed>>

\* With an error nothing is listed: the dialog stays blocked.
PermissionsFetched ==
  /\ access.fetching
  /\ \/ listed' = AsList(rights)
     \/ UNCHANGED listed
  /\ access' = DidUpdate([access EXCEPT !.fetching = FALSE], listed')
  /\ UNCHANGED rights

Toggled(list, role, flag) ==
  [i \in DOMAIN list |->
     IF list[i].role = role THEN [list[i] EXCEPT ![flag] = ~@] ELSE list[i]]

OnToggle ==
  /\ access.open /\ ~access.blocking
  /\ \E p \in ToSet(access.permissions), flag \in {"read", "write"} :
       access' = [access EXCEPT !.permissions = Toggled(@, p.role, flag)]
  /\ UNCHANGED <<rights, listed>>

AddPermission ==
  /\ access.open /\ ~access.blocking /\ Len(access.permissions) < MaxRoles
  /\ \E r \in Roles \ RolesOf(access.permissions) :
       access' = [access EXCEPT !.permissions =
                    Append(@, [role |-> r, read |-> TRUE, write |-> FALSE])]
  /\ UNCHANGED <<rights, listed>>

SubmitAccess ==
  /\ access.open /\ ~access.blocking
  /\ access' = [access EXCEPT !.blocking = TRUE, !.sent = access.permissions]
  /\ UNCHANGED <<rights, listed>>

Given(list) ==
  [r \in RolesOf(list) |->
     LET p == CHOOSE q \in ToSet(list) : q.role = r IN [read |-> p.read, write |-> p.write]]

\* The whole list is sent, with the rights that nobody has touched.
AccessAnswered ==
  /\ access.sent # <<>>
  /\ \E ok \in BOOLEAN :
       LET d == IF ok THEN ToggleDialog(access) ELSE access IN
       /\ rights' = IF ok THEN Given(access.sent) ELSE rights
       /\ listed' = IF ok THEN access.sent ELSE listed
       /\ access' = [d EXCEPT !.blocking = FALSE, !.sent = <<>>]

Access ==
  /\ \/ OpenAccess \/ CloseAccess \/ PermissionsFetched \/ OnToggle \/ AddPermission
     \/ SubmitAccess \/ AccessAnswered
  /\ UNCHANGED <<label, cached, edit, setEdit, create, made, setCreate, delete, xref>>

-----------------------------------------------------------------------------
(* Deleting, and comparing with the other collections *)

\* The field is new each time the dialog opens; what was typed is remembered.
ToggleDelete == delete' = [ToggleDialog(delete) EXCEPT !.field = ""]

TypeConfirmation ==
  /\ delete.open
  /\ \E v \in Labels \cup {""} :
       v # delete.field /\ delete' = [delete EXCEPT !.field = v, !.typed = v]

\* A faulty variant: the field need not be filled.
EnabledByMemory == delete.typed = cached /\ ~delete.loading

\* The field is required, and the button compares what is remembered.
Enabled == delete.field # "" /\ delete.typed = cached /\ ~delete.loading

\* The deletion is not awaited: after an error the button goes on loading.
SubmitDelete == delete.open /\ Enabled /\ delete' = [delete EXCEPT !.loading = TRUE]

DeleteAnswered ==
  /\ delete.loading /\ ~delete.gone
  /\ delete' = [delete EXCEPT !.gone = TRUE, !.open = FALSE]

Delete ==
  /\ ~delete.gone
  /\ ToggleDelete \/ TypeConfirmation \/ SubmitDelete \/ DeleteAnswered
  /\ UNCHANGED <<label, cached, rights, listed, edit, setEdit, create, made,
                 setCreate, access, xref>>

ToggleXref == xref' = ToggleDialog(xref)

ConfirmXref ==
  /\ xref.open /\ ~xref.blocking
  /\ xref' = [xref EXCEPT !.blocking = TRUE, !.asked = TRUE]

XrefAnswered ==
  /\ xref.asked
  /\ \E ok \in BOOLEAN :
       LET d == IF ok THEN ToggleDialog(xref) ELSE xref IN
       xref' = [d EXCEPT !.blocking = FALSE, !.asked = FALSE]

Xref ==
  /\ ToggleXref \/ ConfirmXref \/ XrefAnswered
  /\ UNCHANGED <<label, cached, rights, listed, edit, setEdit, create, made,
                 setCreate, access, delete>>

-----------------------------------------------------------------------------

\* Another user renames or shares the collection, or the store reads it again.
Outside ==
  /\ \/ /\ \E v \in Labels : label' = v
        /\ UNCHANGED <<cached, rights>>
     \/ cached' = label /\ UNCHANGED <<label, rights>>
     \/ /\ \E r \in DOMAIN rights : rights' = [rights EXCEPT ![r].write = ~@]
        /\ UNCHANGED <<label, cached>>
  /\ UNCHANGED <<listed, edit, setEdit, create, made, setCreate, access, delete, xref>>

(* The dialogs when they are mounted *)

EditDialog ==
  [open |-> FALSE, form |-> FirstLabel, changed |-> FALSE, blocking |-> FALSE,
   sent |-> None]

SetEditDialog == [open |-> FALSE, form |-> FirstLabel, processing |-> FALSE, sent |-> None]

InvestigationDialog ==
  [open |-> FALSE, label |-> FirstLabel, roles |-> <<>>, suggested |-> {},
   blocking |-> FALSE, step |-> None]

SetCreateDialog ==
  [label |-> "", collection |-> 0, layout |-> FALSE, processing |-> FALSE,
   stored |-> FALSE]

AccessDialog ==
  [open |-> FALSE, permissions |-> <<>>, blocking |-> TRUE, fetching |-> TRUE,
   sent |-> <<>>]

DeleteDialog == [open |-> FALSE, field |-> "", typed |-> "", loading |-> FALSE, gone |-> FALSE]

XrefDialog == [open |-> FALSE, blocking |-> FALSE, asked |-> FALSE]

Init ==
  /\ dialog \in {"edit", "setEdit", "create", "access", "delete", "xref"}
  /\ label = FirstLabel /\ cached = FirstLabel
  /\ rights = FirstRights
  /\ listed \in IF dialog = "access" THEN {NoList, AsList(FirstRights)} ELSE {NoList}
  /\ edit = EditDialog /\ setEdit = SetEditDialog
  /\ create = InvestigationDialog /\ made = 0 /\ setCreate = SetCreateDialog
  /\ access = DidUpdate(AccessDialog, listed)
  /\ delete = DeleteDialog /\ xref = XrefDialog

Steps ==
  \/ dialog = "edit" /\ Edit
  \/ dialog = "setEdit" /\ SetEdit
  \/ dialog = "create" /\ Create
  \/ dialog = "access" /\ Access
  \/ dialog = "delete" /\ Delete
  \/ dialog = "xref" /\ Xref
  \/ dialog \in {"edit", "setEdit", "access", "delete"} /\ Outside

Next == Steps /\ UNCHANGED dialog

Spec == Init /\ [][Next]_vars

-----------------------------------------------------------------------------

TypeOK ==
  /\ {label, cached} \subseteq Labels
  /\ ToSet(listed) \cup ToSet(access.permissions) \subseteq Rights
  /\ Form \in Labels /\ Len(create.roles) <= MaxRoles /\ made <= MaxMade
  /\ setCreate.collection \in 0..made

\* A dialog is blocked while it waits for an answer and not longer, whatever
\* the answer was and whatever was done to the dialog meanwhile; one that
\* waits is blocked, so that nothing is submitted twice.
BlockedWhileWaiting ==
  /\ edit.blocking = (edit.sent # None)
  /\ setEdit.processing = (setEdit.sent # None)
  /\ create.blocking = (create.step # None)
  /\ access.sent # <<>> => access.blocking
  /\ access.blocking => access.sent # <<>> \/ access.permissions = <<>>
  /\ xref.blocking = xref.asked

\* A collection is deleted only by somebody who has its present name before
\* them in the field: not by a name typed before the dialog was closed, and
\* not by one it had before it was renamed (DeleteDialog.tsx).
Confirms ==
  delete'.loading /\ ~delete.loading => delete.open /\ delete.field = cached
DeletionConfirmed == [][Confirms]_vars

-----------------------------------------------------------------------------
(* An inductive invariant from which they follow *)

TypesKept ==
  /\ label \in Labels /\ cached \in Labels
  /\ rights \in UNION {[D -> [read : BOOLEAN, write : BOOLEAN]] : D \in SUBSET Roles}
  /\ listed \in Seq(Rights)
  /\ edit \in [open : BOOLEAN, form : Labels, changed : BOOLEAN, blocking : BOOLEAN,
               sent : Labels \cup {None}]
  /\ setEdit \in [open : BOOLEAN, form : Labels \cup {""}, processing : BOOLEAN,
                  sent : Labels \cup {None}]
  /\ create \in [open : BOOLEAN, label : Labels, roles : Seq(Rights),
                 suggested : SUBSET Roles, blocking : BOOLEAN,
                 step : {None, "create", "share"}]
  /\ Len(create.roles) <= MaxRoles /\ made \in 0..MaxMade
  /\ setCreate \in [label : Labels \cup Imported \cup {""}, collection : 0..made,
                    layout : BOOLEAN, processing : BOOLEAN, stored : BOOLEAN]
  /\ access \in [open : BOOLEAN, permissions : Seq(Rights), blocking : BOOLEAN,
                 fetching : BOOLEAN, sent : Seq(Rights)]
  /\ delete \in [open : BOOLEAN, field : Labels \cup {""}, typed : Labels \cup {""},
                 loading : BOOLEAN, gone : BOOLEAN]
  /\ xref \in [open : BOOLEAN, blocking : BOOLEAN, asked : BOOLEAN]

\* A dialog that has no list of rights waits for one, and has sent none.
WaitsForRights ==
  access.permissions = <<>> => access.blocking /\ access.sent = <<>>

\* What is in the field is what is remembered of it.
Remembered == delete.field \in {"", delete.typed}

Inv == TypesKept /\ BlockedWhileWaiting /\ WaitsForRights /\ Remembered
=============================================================================
