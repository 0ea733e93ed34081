------------------------------ MODULE Profiles ------------------------------
(***************************************************************************)
(* The profiles of one collection: sets of entities judged to be the same  *)
(* thing, or not (aleph/model/entityset.py, aleph/logic/profiles.py,       *)
(* aleph/logic/entitysets.py).                                             *)
(*                                                                         *)
(* A request reads the database, writes fragments to the aggregator as     *)
(* it goes, and commits its changes to the database at the end.  Nothing   *)
(* locks what it has read: requests overlap.  Two rows for one profile and *)
(* one entity, which only overlapping requests create, are kept as one:    *)
(* the later.                                                              *)
(***************************************************************************)
EXTENDS Naturals

CONSTANTS
  Entity,
  Local,        \* the entities that belong to the profiles' own collection
  Process,      \* requests in progress
  MaxProfiles,  \* bound on the number of profiles ever created
  MaxRequests,  \* bound on the number of judgements ever requested
  None

Profile == 1 .. MaxProfiles   \* in the order of their created_at
Judgement == {"positive", "negative", "unsure"}

ASSUME LocalEntities == Local \subseteq Entity
ASSUME NoneIsNoProfile == None \notin Profile /\ None \notin Judgement
ASSUME BoundsType == MaxProfiles \in Nat /\ MaxRequests \in Nat

VARIABLES
  judged,     \* the items: [Profile -> [Entity -> Judgement, or None]]
  live,       \* the profiles that exist and are not deleted
  created,    \* how many profiles have been created
  fragments,  \* the profile a local entity has a profile fragment for
  proc,       \* what each request has read and will commit
  requests    \* how many judgements were requested (bounds the model)

vars == <<judged, live, created, fragments, proc, requests>>

View == [judged : [Profile -> [Entity -> Judgement \cup {None}]],
         live : SUBSET Profile]
Verdict == Judgement \cup {"no_judgement"}
\* saved and verdict are auxiliary: what the request judges, and how.
Request == [before : View, after : View, saved : Entity, verdict : Verdict]

TypeOK ==
  /\ judged \in [Profile -> [Entity -> Judgement \cup {None}]]
  /\ live \subseteq 1 .. created
  /\ created \in 0 .. MaxProfiles
  /\ fragments \in [Local -> Profile \cup {None}]
  /\ proc \in [Process -> Request \cup {None}]
  /\ requests \in Nat

Init ==
  /\ judged = [p \in Profile |-> [e \in Entity |-> None]]
  /\ live = {}
  /\ created = 0
  /\ fragments = [e \in Local |-> None]
  /\ proc = [r \in Process |-> None]
  /\ requests = 0

-----------------------------------------------------------------------------
(* Judging and merging, on the view a request has of the database.         *)

\* Mutant: a negative judgement does not prevail.
PlusUnsure(js) ==
  IF js = {} THEN None
  ELSE IF \E j \in js : js = {j} THEN CHOOSE j \in js : TRUE
  ELSE "unsure"

\* Judgement.__add__, for all judgements of an entity that are added up.
Plus(js) ==
  IF js = {} THEN None
  ELSE IF \E j \in js : js = {j} THEN CHOOSE j \in js : TRUE
  ELSE IF "negative" \in js THEN "negative"
  ELSE "unsure"

\* The newest of some profiles.
Newest(P) == CHOOSE p \in P : \A q \in P : q <= p

\* Mutant: items the retained profile does not have are left behind.
CombineLocal(v, P, e) ==
  IF v.judged[Newest(P)][e] = None THEN None
  ELSE Plus({v.judged[p][e] : p \in P} \ {None})

\* What the profiles P that are merged say of an entity together.
Combine(v, P, e) == Plus({v.judged[p][e] : p \in P} \ {None})

\* EntitySet.merge, of one after the other: all items move to the profile
\* that was created last.
Merge(v, P) ==
  [live |-> (v.live \ P) \cup {Newest(P)},
   judged |-> [p \in Profile |->
     IF p \notin P THEN v.judged[p]
     ELSE [e \in Entity |->
             IF p = Newest(P) THEN Combine(v, P, e) ELSE None]]]

\* The live profiles an entity is positively linked to.
PositiveIn(v, e) == {p \in v.live : v.judged[p][e] = "positive"}

Item(verdict) == IF verdict = "no_judgement" THEN None ELSE verdict

\* Mutant: a second profile of the entity is not merged.
SaveUnmerged(v, set, e, verdict) ==
  [v EXCEPT !.judged[set][e] = Item(verdict)]

\* A positive item merges its profile with every profile the entity is in.
MergedBy(v, set, e, verdict) ==
  IF verdict = "positive" THEN {set} \cup PositiveIn(v, e) ELSE {set}

\* Mutant: "no_judgement" is stored like the others.
SaveNoJudgement(v, set, e, verdict) ==
  LET P == MergedBy(v, set, e, verdict)
  IN [Merge(v, P) EXCEPT !.judged[Newest(P)][e] = verdict]

\* EntitySetItem.save: merge, then replace the entity's item, or remove it
\* by "no_judgement".
Save(v, set, e, verdict) ==
  LET P == MergedBy(v, set, e, verdict)
  IN [Merge(v, P) EXCEPT !.judged[Newest(P)][e] = Item(verdict)]

\* profile_fragments for one entity: all profile fragments are deleted, and
\* the entity's is written again.
FragmentsOf(v, e) ==
  {[f \in Local |-> IF f = e THEN p ELSE None] :
     p \in IF PositiveIn(v, e) = {} THEN {None} ELSE PositiveIn(v, e)}

-----------------------------------------------------------------------------
(* Requests.                                                               *)

Committed == [judged |-> judged, live |-> live]

\* save_entityset_item for a local entity rewrites the fragments at once.
Refragment(v, e) ==
  IF e \in Local THEN fragments' \in FragmentsOf(v, e)
  ELSE UNCHANGED fragments

CanRequest(r) == proc[r] = None /\ requests < MaxRequests

Requested(r, after, e, verdict) ==
  /\ proc' = [proc EXCEPT ![r] = [before |-> Committed, after |-> after,
                                  saved |-> e, verdict |-> verdict]]
  /\ requests' = requests + 1

\* decide_pairwise, in the entity's profile if there is one.
DecidePairwise(r, e, m, verdict) ==
  /\ CanRequest(r)
  /\ \E p \in PositiveIn(Committed, e) :
       LET after == Save(Committed, p, m, verdict)
       IN Refragment(after, m) /\ Requested(r, after, m, verdict)
  /\ UNCHANGED <<judged, live, created>>

\* The same in a new profile: the entity itself is saved first.
DecideInNewProfile(r, e, m, verdict) ==
  /\ CanRequest(r)
  /\ PositiveIn(Committed, e) = {}
  /\ created < MaxProfiles
  /\ created' = created + 1
  /\ LET fresh == [Committed EXCEPT !.live = @ \cup {created'}]
         first == Save(fresh, created', e, "positive")
         after == Save(first, created', m, verdict)
     IN /\ IF m \in Local THEN Refragment(after, m) ELSE Refragment(first, e)
        /\ Requested(r, after, m, verdict)
  /\ UNCHANGED <<judged, live>>

\* entitysets_api.item_update: judge one entity in a profile of one's choice.
ItemUpdate(r, p, e, verdict) ==
  /\ CanRequest(r)
  /\ p \in live
  /\ LET after == Save(Committed, p, e, verdict)
     IN Refragment(after, e) /\ Requested(r, after, e, verdict)
  /\ UNCHANGED <<judged, live, created>>

\* The commit writes the rows that the request changed.
Commit(r) ==
  /\ proc[r] # None
  /\ proc' = [proc EXCEPT ![r] = None]
  /\ LET b == proc[r].before
         a == proc[r].after
     IN /\ judged' = [p \in Profile |-> [e \in Entity |->
             IF a.judged[p][e] # b.judged[p][e] THEN a.judged[p][e]
             ELSE judged[p][e]]]
        /\ live' = (live \ (b.live \ a.live)) \cup (a.live \ b.live)
  /\ UNCHANGED <<created, fragments, requests>>

\* The request fails: the database rolls back, the other stores do not.
Rollback(r) ==
  /\ proc[r] # None
  /\ proc' = [proc EXCEPT ![r] = None]
  /\ UNCHANGED <<judged, live, created, fragments, requests>>

\* entitysets_api.delete: the profile is marked, its items are not.
Delete(r, p) ==
  /\ proc[r] = None
  /\ p \in live
  /\ live' = live \ {p}
  /\ UNCHANGED <<judged, created, fragments, proc, requests>>

-----------------------------------------------------------------------------
(* Fragments outside of requests.                                          *)

\* update_entity and upsert_entity rewrite the fragments for one entity.
UpdateEntity(e) ==
  /\ fragments' \in FragmentsOf(Committed, e)
  /\ UNCHANGED <<judged, live, created, proc, requests>>

\* reindex_collection rewrites them for all entities.
Reindex ==
  /\ fragments' \in {f \in [Local -> Profile \cup {None}] :
       \A e \in Local :
         LET P == PositiveIn(Committed, e)
         IN f[e] \in IF P = {} THEN {None} ELSE P}
  /\ UNCHANGED <<judged, live, created, proc, requests>>

Step(r) ==
  \/ \E e \in Local, m \in Entity, j \in Verdict :
       e # m /\ (DecidePairwise(r, e, m, j) \/ DecideInNewProfile(r, e, m, j))
  \/ \E p \in Profile, e \in Entity, j \in Verdict :
       ItemUpdate(r, p, e, j)
  \/ \E p \in Profile : Delete(r, p)
  \/ Commit(r) \/ Rollback(r)

Next ==
  \/ \E r \in Process : Step(r)
  \/ \E e \in Local : UpdateEntity(e)
  \/ Reindex

Spec == Init /\ [][Next]_vars
-----------------------------------------------------------------------------
(* What overlapping requests may and may not do to each other.             *)

\* What the database holds of an entity.
Known(v, e) == [p \in Profile |-> IF p \in v.live THEN v.judged[p][e] ELSE None]

\* What a request has read of an entity still holds.
UpToDate(r, e) == Known(proc[r].before, e) = Known(Committed, e)

\* What it will commit about the entity is what it read.
LeavesAlone(r, e) == Known(proc[r].after, e) = Known(proc[r].before, e)

InOne(e) == \A p, q \in PositiveIn(Committed, e) : p = q

(* Adding an entity to a second profile merges the two: a commit never     *)
(* brings an entity into a second profile, and a positive judgement leaves *)
(* it in one even if it was in several, unless another request changed     *)
(* what is known of the entity since this one read it (EntitySetItem.save).*)
AddingMerges ==
  [][\A r \in Process : Commit(r) =>
       \A e \in Entity :
         \/ LeavesAlone(r, e) /\ InOne(e)
         \/ UpToDate(r, e) /\ InOne(e)
         \/ UpToDate(r, e) /\ proc[r].saved = e /\ proc[r].verdict = "positive"
         => InOne(e)']_vars

Together(e, f) == \E p \in live : {judged[p][e], judged[p][f]} = {"positive"}

Doubted(e) == \E p \in live : judged[p][e] \in {"negative", "unsure"}

\* A request judges neither of two entities, and has read both as they are.
JudgesNeither(r, e, f) ==
  proc[r].saved \notin {e, f} /\ UpToDate(r, e) /\ UpToDate(r, f)

(* Two entities in one profile stay in one profile, whatever others are    *)
(* judged and however profiles are merged, unless a profile holds a doubt  *)
(* about one of them, or a profile has been deleted or merged away since   *)
(* the request read it (EntitySet.merge).                                  *)
MergesKeepTogether ==
  [][\A r \in Process : Commit(r) /\ proc[r].before.live \subseteq live =>
       \A e, f \in Entity :
         Together(e, f) /\ ~Doubted(e) /\ ~Doubted(f) /\ JudgesNeither(r, e, f)
         => Together(e, f)']_vars

\* Wherever f is linked, e is judged to be something else.
Apart(e, f) == \A p \in PositiveIn(Committed, f) : judged[p][e] = "negative"

(* What was judged different from an entity of a profile stays so: a merge *)
(* never loses a negative judgement (EntitySet.merge, Judgement.__add__).  *)
NegativesKept ==
  [][\A r \in Process : Commit(r) =>
       \A e, f \in Entity :
         /\ PositiveIn(Committed, f) # {} /\ Apart(e, f)
         /\ JudgesNeither(r, e, f)
         => Apart(e, f)']_vars

-----------------------------------------------------------------------------
(* What the documentation says.                                            *)

(* "An entity can only be positively linked to one profile in its own      *)
(* collection, adding it to a second would merge both profiles"            *)
(* (logic/profiles.py, EntitySetItem.save).                                *)
OneProfile == \A e \in Entity : InOne(e)

(* "Merge two entity_sets into each other. The older one is retained."     *)
(* Of two live profiles, a commit never removes the older and keeps the    *)
(* newer (EntitySet.merge).                                                *)
OlderRetained ==
  [][\A p, q \in live :
       p < q /\ proc' # proc => ~(p \notin live' /\ q \in live')]_vars

(* "In order to make the profile_id visible on entities in a collection,   *)
(* we generate stub entities": while no request is in progress, an entity  *)
(* of a profile has a fragment that names it (profile_fragments).          *)
ProfileVisible ==
  (\A r \in Process : proc[r] = None) =>
    \A e \in Local, p \in live :
      judged[p][e] = "positive" => fragments[e] = p
=============================================================================
