-------------------------- MODULE AuthzCacheProofs --------------------------
(* Proofs about AuthzCache, for any users, groups, collections, processes. *)
EXTENDS AuthzCache, TLAPS

\* Computed lists are lists.
LEMMA GrantedType ==
  ASSUME NEW roles
  PROVE  Granted(roles) \in Lists
BY DEF Granted, Lists

\* A process state is known by its pc.
LEMMA ProcCases ==
  ASSUME NEW s \in ProcState
  PROVE  /\ s.pc = "lookup" => s \in LookupState
         /\ s.pc = "fill" => s \in FillState
         /\ s.pc \in {"granting", "granted"} => s \in EditState
         /\ s.pc = "unflushed" => s \in FlushState
         /\ s.pc = "unrefreshed" => s \in RefreshState
         /\ s.pc = "token" => s \in TokenState
BY DEF ProcState, Idle, LookupState, FillState, EditState, FlushState,
       RefreshState, TokenState

\* Marking entries as outrun keeps their type.
LEMMA OutrunEntriesType ==
  ASSUME TypeOK, NEW K
  PROVE  OutrunEntries(K) \in [Key -> Computed \cup {None}]
<1>1. ASSUME NEW k \in Key, access[k] # None
      PROVE  [access[k] EXCEPT !.outrun = TRUE] \in Computed
  <2>1. access[k] \in Computed
    BY <1>1 DEF TypeOK
  <2> QED
    BY <2>1 DEF Computed
<1> QED
  BY <1>1 DEF OutrunEntries, TypeOK

\* Marking reads as overtaken keeps their type.
LEMMA OvertakenType ==
  ASSUME TypeOK, NEW p \in Process, NEW R, NEW next \in ProcState
  PROVE  Overtaken(p, R, next) \in [Process -> ProcState]
<1> SUFFICES ASSUME NEW q \in Process, q # p, proc[q].pc = "fill"
             PROVE  [proc[q] EXCEPT !.entry.outrun = TRUE] \in ProcState
  BY DEF Overtaken, TypeOK
<1>1. proc[q] \in FillState
  BY ProcCases DEF TypeOK
<1>2. [proc[q] EXCEPT !.entry.outrun = TRUE] \in FillState
  BY <1>1 DEF FillState, Computed
<1> QED
  BY <1>2 DEF ProcState

\* So does marking the reads of one user.
LEMMA OvertakenUserType ==
  ASSUME TypeOK, NEW p \in Process, NEW u \in User, NEW next \in ProcState
  PROVE  OvertakenUser(p, u, next) \in [Process -> ProcState]
<1>1. ASSUME NEW q \in Process, proc[q].pc = "fill"
      PROVE  [proc[q] EXCEPT !.entry.outrun = TRUE] \in ProcState
  <2>1. proc[q] \in FillState
    BY <1>1, ProcCases DEF TypeOK
  <2>2. [proc[q] EXCEPT !.entry.outrun = TRUE] \in FillState
    BY <2>1 DEF FillState, Computed
  <2> QED
    BY <2>2 DEF ProcState
<1>2. ASSUME NEW q \in Process, proc[q].pc = "lookup"
      PROVE  [proc[q] EXCEPT !.outrun = proc[q].fresh] \in ProcState
  <2>1. proc[q] \in LookupState
    BY <1>2, ProcCases DEF TypeOK
  <2>2. [proc[q] EXCEPT !.outrun = proc[q].fresh] \in LookupState
    BY <2>1 DEF LookupState
  <2> QED
    BY <2>2 DEF ProcState
<1> QED
  BY <1>1, <1>2 DEF OvertakenUser, TypeOK

\* So does marking those that depend on a role.
LEMMA OvertakenRoleType ==
  ASSUME TypeOK, NEW p \in Process, NEW r
  PROVE  OvertakenRole(p, r) \in [Process -> ProcState]
<1>1. ASSUME NEW q \in Process, proc[q].pc = "fill"
      PROVE  [proc[q] EXCEPT !.entry.outrun = TRUE] \in ProcState
  <2>1. proc[q] \in FillState
    BY <1>1, ProcCases DEF TypeOK
  <2>2. [proc[q] EXCEPT !.entry.outrun = TRUE] \in FillState
    BY <2>1 DEF FillState, Computed
  <2> QED
    BY <2>2 DEF ProcState
<1>2. ASSUME NEW q \in Process, proc[q].pc = "lookup"
      PROVE  [proc[q] EXCEPT !.outrun = proc[q].fresh] \in ProcState
  <2>1. proc[q] \in LookupState
    BY <1>2, ProcCases DEF TypeOK
  <2>2. [proc[q] EXCEPT !.outrun = proc[q].fresh] \in LookupState
    BY <2>1 DEF LookupState
  <2> QED
    BY <2>2 DEF ProcState
<1>3. Idle \in ProcState
  BY DEF ProcState
<1> QED
  BY <1>1, <1>2, <1>3 DEF OvertakenRole, TypeOK

\* What a request does after its lookup is a process state.
LEMMA AfterLookupType ==
  ASSUME NEW k \in Key, NEW login \in BOOLEAN, login => k \in User
  PROVE  AfterLookup(k, login) \in ProcState
BY DEF AfterLookup, ProcState, TokenState

(***************************************************************************)
(* Every variable stays within its type.                                   *)
(***************************************************************************)
THEOREM TypeCorrect == Spec => []TypeOK
<1>1. Init => TypeOK
  BY DEF Init, TypeOK, NoRight, Right, ProcState
<1>2. TypeOK /\ [Next]_vars => TypeOK'
  <2> SUFFICES ASSUME TypeOK, [Next]_vars
               PROVE  TypeOK'
    OBVIOUS
  <2> USE DEF TypeOK
  <2>1. ASSUME NEW p \in Process, BeginRequest(p)
        PROVE  TypeOK'
    <3>1. ASSUME NEW k \in Key, NEW groups \in SUBSET Group, NEW fresh \in BOOLEAN
          PROVE  LookingUp(k, groups, fresh, FALSE) \in ProcState
      BY DEF LookingUp, ProcState, LookupState
    <3>2. CASE proc' = [proc EXCEPT ![p] = LookingUp(Anonymous, {}, TRUE, FALSE)]
      BY <2>1, <3>1, <3>2 DEF BeginRequest, Key
    <3>3. CASE \E u \in User \cap known : proc' = [proc EXCEPT ![p] =
                 LookingUp(u, membership[u], TRUE, FALSE)]
      <4>1. PICK u \in User : proc' = [proc EXCEPT ![p] =
                                  LookingUp(u, membership[u], TRUE, FALSE)]
        BY <3>3
      <4>2. membership[u] \in SUBSET Group /\ u \in Key
        BY DEF Key
      <4> QED
        BY <2>1, <3>1, <4>1, <4>2 DEF BeginRequest
    <3>4. CASE \E u \in User : \E groups \in sessions[u] :
                 proc' = [proc EXCEPT ![p] = LookingUp(u, groups, FALSE, FALSE)]
      <4>0. PICK u \in User : \E groups \in sessions[u] :
              proc' = [proc EXCEPT ![p] = LookingUp(u, groups, FALSE, FALSE)]
        BY <3>4
      <4>1. PICK groups \in sessions[u] :
              proc' = [proc EXCEPT ![p] = LookingUp(u, groups, FALSE, FALSE)]
        BY <4>0
      <4>2. groups \in SUBSET Group /\ u \in Key
        BY DEF Key
      <4> QED
        BY <2>1, <3>1, <4>1, <4>2 DEF BeginRequest
    <3> QED
      BY <2>1, <3>2, <3>3, <3>4 DEF BeginRequest
  <2>2. ASSUME NEW p \in Process, CacheHit(p)
        PROVE  TypeOK'
    <3>1. proc[p] \in LookupState
      BY <2>2, ProcCases DEF CacheHit
    <3>2. QED
      BY <2>2, <3>1, AfterLookupType DEF CacheHit, LookupState
  <2>3. ASSUME NEW p \in Process, CacheMiss(p)
        PROVE  TypeOK'
    <3>1. proc[p] \in LookupState
      BY <2>3, ProcCases DEF CacheMiss
    <3>2. proc'[p] \in FillState
      BY <2>3, <3>1, GrantedType DEF CacheMiss, LookupState, FillState, Computed
    <3> QED
      BY <2>3, <3>2 DEF CacheMiss, ProcState
  <2>4. ASSUME NEW p \in Process, StoreLists(p)
        PROVE  TypeOK'
    <3>1. proc[p] \in FillState
      BY <2>4, ProcCases DEF StoreLists
    <3>2. access' \in [Key -> Computed \cup {None}]
      BY <2>4, <3>1 DEF StoreLists, FillState
    <3>3. ASSUME NEW q \in Process, proc[q].pc = "granted"
          PROVE  [proc[q] EXCEPT !.late = @ \cup {proc[p].key}] \in ProcState
      <4>1. proc[q] \in EditState
        BY <3>3, ProcCases
      <4>2. [proc[q] EXCEPT !.late = @ \cup {proc[p].key}] \in EditState
        BY <3>1, <4>1 DEF EditState, FillState
      <4> QED
        BY <4>2 DEF ProcState
    <3>4. AfterLookup(proc[p].key, proc[p].login) \in ProcState
      BY <3>1, AfterLookupType DEF FillState
    <3> QED
      BY <2>4, <3>2, <3>3, <3>4 DEF StoreLists
  <2>5. ASSUME NEW p \in Process, NEW c \in Collection, BeginPermissions(p, c)
        PROVE  TypeOK'
    BY <2>5 DEF BeginPermissions, ProcState, EditState
  <2>6. ASSUME NEW p \in Process, NEW r \in Role, NEW right \in Right,
               proc[p].pc = "granting", Stage(p, r, right)
        PROVE  TypeOK'
    <3>1. proc[p] \in EditState
      BY <2>6, ProcCases
    <3>2. [proc[p] EXCEPT !.staged[r] = right] \in EditState
      BY <3>1 DEF EditState
    <3> QED
      BY <2>6, <3>2 DEF Stage, FlushRole, ProcState
  <2>7. ASSUME NEW p \in Process, NEW r \in Role, UpdatePermission(p, r)
        PROVE  TypeOK'
    BY <2>7, <2>6 DEF UpdatePermission, Permitted, Grant, Right
  <2>8. ASSUME NEW p \in Process, Publish(p)
        PROVE  TypeOK'
    BY <2>8, <2>6 DEF Publish, Grant, Right, Role, PublicRole
  <2>9. ASSUME NEW p \in Process, FlushBeforeCommit(p)
        PROVE  TypeOK'
    <3>1. proc[p] \in EditState
      BY <2>9, ProcCases DEF FlushBeforeCommit
    <3>2. [proc[p] EXCEPT !.pc = "granted"] \in EditState
      BY <3>1 DEF EditState
    <3> QED
      BY <2>9, <3>2 DEF FlushBeforeCommit, Flushed, ProcState
  <2>10. ASSUME NEW p \in Process, CommitPermissions(p)
         PROVE  TypeOK'
    <3>1. proc[p] \in EditState
      BY <2>10, ProcCases DEF CommitPermissions
    <3>2. permission' \in [Role -> [Collection -> Right]]
      BY <2>10, <3>1 DEF CommitPermissions, EditState
    <3>3. Idle \in ProcState
      BY DEF ProcState
    <3> QED
      BY <2>10, <3>2, <3>3, OvertakenType, OutrunEntriesType
      DEF CommitPermissions
  <2>11. ASSUME NEW R \in SUBSET Role
         PROVE  Unflushed(R) \in ProcState
    BY DEF ProcState, FlushState, Unflushed
  <2>12. ASSUME NEW p \in Process, NEW c \in Collection, NEW u \in User,
                CreateCollection(p, c, u)
         PROVE  TypeOK'
    <3>1. permission' \in [Role -> [Collection -> Right]]
      BY <2>12 DEF CreateCollection, Grant, Right, Role
    <3>2. live' \in SUBSET Collection /\ commits' \in Nat
      BY <2>12 DEF CreateCollection
    <3>3. proc' \in [Process -> ProcState]
      <4>1. Unflushed({u}) \in ProcState
        BY <2>11 DEF Role
      <4>2. proc' = Overtaken(p, {u}, Unflushed({u}))
        BY <2>12 DEF CreateCollection
      <4> QED
        BY <4>1, <4>2, OvertakenType
    <3> QED
      BY <2>12, <3>1, <3>2, <3>3 DEF CreateCollection
  <2>13. ASSUME NEW p \in Process, NEW c \in Collection, DeleteCollection(p, c)
         PROVE  TypeOK'
    <3>1. permission' \in [Role -> [Collection -> Right]]
      BY <2>13 DEF DeleteCollection, NoRight, Right
    <3> QED
      BY <2>11, <2>13, <3>1, OvertakenType DEF DeleteCollection, RolesWith
  <2>14. ASSUME NEW p \in Process, FlushAfterCommit(p)
         PROVE  TypeOK'
    BY <2>14 DEF FlushAfterCommit, Flushed, ProcState
  <2>15. ASSUME NEW p \in Process, NEW u \in User, NEW groups \in SUBSET Group,
                NEW login \in BOOLEAN, CommitGroups(p, u, groups, login)
         PROVE  TypeOK'
    <3>1. [pc |-> "unrefreshed", user |-> u, login |-> login] \in ProcState
      BY DEF ProcState, RefreshState
    <3> QED
      BY <2>15, <3>1, OvertakenUserType DEF CommitGroups
  <2>a. ASSUME NEW p \in Process, NEW u \in User, NEW login \in BOOLEAN,
               UpdateRole(p, u, login)
        PROVE  TypeOK'
    <3>1. proc'[p] \in LookupState
      BY <2>a DEF UpdateRole, LookingUp, LookupState, Key
    <3> QED
      BY <2>a, <3>1 DEF UpdateRole, FlushRole, ProcState
  <2>16. ASSUME NEW p \in Process, RefreshRole(p)
         PROVE  TypeOK'
    <3>1. proc[p] \in RefreshState
      BY <2>16, ProcCases DEF RefreshRole
    <3> QED
      BY <2>16, <2>a, <3>1 DEF RefreshRole, RefreshState
  <2>b. ASSUME NEW p \in Process, NEW u \in User, UpdateRoles(p, u)
        PROVE  TypeOK'
    BY <2>a, <2>b DEF UpdateRoles
  <2>c. ASSUME NEW p \in Process, NEW r \in User \cup Group, DeleteRole(p, r)
        PROVE  TypeOK'
    <3>1. permission' \in [Role -> [Collection -> Right]]
      BY <2>c DEF DeleteRole, NoRight, Right
    <3>2. /\ membership' \in [User -> SUBSET Group]
          /\ known' \in SUBSET (User \cup Group)
          /\ commits' \in Nat
      BY <2>c DEF DeleteRole
    <3>3. /\ access' \in [Key -> Computed \cup {None}]
          /\ proc' \in [Process -> ProcState]
      BY <2>c, OutrunEntriesType, OvertakenRoleType DEF DeleteRole
    <3> QED
      BY <2>c, <3>1, <3>2, <3>3 DEF DeleteRole
  <2>17. ASSUME NEW p \in Process, StoreToken(p)
         PROVE  TypeOK'
    <3>1. proc[p] \in TokenState
      BY <2>17, ProcCases DEF StoreToken
    <3> QED
      BY <2>17, <3>1 DEF StoreToken, TokenState, ProcState
  <2>18. ASSUME NEW u \in User, NEW groups \in sessions[u],
                Logout(u, groups) \/ ExpireSession(u, groups)
         PROVE  TypeOK'
    BY <2>18 DEF Logout, ExpireSession, FlushRole
  <2>19. ASSUME NEW p \in Process, Crash(p)
         PROVE  TypeOK'
    BY <2>19, OutrunEntriesType DEF Crash, ProcState
  <2>20. CASE UNCHANGED vars
    BY <2>20 DEF vars
  <2> HIDE DEF TypeOK
  <2>21. ASSUME NEW p \in Process, Step(p)
         PROVE  TypeOK'
    BY <2>1, <2>2, <2>3, <2>4, <2>5, <2>7, <2>8, <2>9, <2>10, <2>12, <2>13,
       <2>14, <2>15, <2>16, <2>17, <2>19, <2>21, <2>b, <2>c DEF Step
  <2> QED
    BY <2>18, <2>20, <2>21 DEF Next, EndSession
<1> QED
  BY <1>1, <1>2, PTL DEF Spec

-----------------------------------------------------------------------------
(* Rights are well formed: the rows that edits have staged and the lists   *)
(* that requests are about to store are so too.                            *)

StagedWellFormed ==
  \A p \in Process : proc[p].pc \in {"granting", "granted"} =>
    \A r \in Role : proc[p].staged[r] # None =>
      (proc[p].staged[r].write => proc[p].staged[r].read /\ r \notin PublicRole)

FillsWellFormed ==
  \A p \in Process : proc[p].pc = "fill" =>
    /\ WellFormed(proc[p].entry.lists)
    /\ proc[p].key = Anonymous => proc[p].entry.lists.write = {}

RightsInv == RightsWellFormed /\ StagedWellFormed /\ FillsWellFormed

\* Lists computed from well-formed rows are well formed.
LEMMA GrantedWellFormed ==
  ASSUME TypeOK, RightsWellFormed, NEW k \in Key, NEW groups \in SUBSET Group
  PROVE  /\ WellFormed(Granted(RolesOf(k, groups)))
         /\ k = Anonymous => Granted(RolesOf(k, groups)).write = {}
<1>1. RolesOf(k, groups) \subseteq Role
  BY DEF RolesOf, Role, Key, PublicRole
<1> QED
  BY <1>1 DEF RightsWellFormed, WellFormed, Granted, RolesOf, Role, PublicRole

\* Overtaking marks the reads of some roles and changes nothing else.
LEMMA OvertakenSame ==
  ASSUME TypeOK, NEW p \in Process, NEW R, NEW next, NEW q \in Process,
         q # p, proc' = Overtaken(p, R, next)
  PROVE  /\ proc'[q].pc = proc[q].pc
         /\ proc[q].pc # "fill" => proc'[q] = proc[q]
         /\ proc[q].pc = "fill" =>
              /\ proc'[q].key = proc[q].key
              /\ proc'[q].entry.lists = proc[q].entry.lists
              /\ \/ proc'[q].entry.outrun
                 \/ /\ proc'[q] = proc[q]
                    /\ ~OfRoles(proc[q].key, proc[q].entry.groups, R)
<1>1. CASE proc[q].pc = "fill"
  <2>1. proc[q] \in FillState
    BY <1>1, ProcCases DEF TypeOK
  <2>2. \/ proc'[q] = [proc[q] EXCEPT !.entry.outrun = TRUE]
        \/ /\ proc'[q] = proc[q]
           /\ ~OfRoles(proc[q].key, proc[q].entry.groups, R)
    BY <1>1 DEF Overtaken
  <2> QED
    BY <1>1, <2>1, <2>2 DEF FillState, Computed
<1>2. CASE proc[q].pc # "fill"
  BY <1>2 DEF Overtaken
<1> QED
  BY <1>1, <1>2

\* The deletion of a role marks the reads that depend on it.
LEMMA OvertakenRoleSame ==
  ASSUME TypeOK, NEW p \in Process, NEW r, NEW q \in Process,
         q # p, proc' = OvertakenRole(p, r)
  PROVE  /\ proc'[q].pc = proc[q].pc
         /\ proc[q].pc \notin {"lookup", "fill"} => proc'[q] = proc[q]
         /\ proc[q].pc = "lookup" =>
              /\ proc'[q].key = proc[q].key
              /\ proc'[q].fresh = proc[q].fresh
              /\ \/ proc'[q].outrun = proc[q].fresh
                 \/ /\ proc'[q] = proc[q]
                    /\ ~OfRoles(proc[q].key, proc[q].groups, {r})
         /\ proc[q].pc = "fill" =>
              /\ proc'[q].key = proc[q].key
              /\ proc'[q].entry.lists = proc[q].entry.lists
              /\ \/ proc'[q].entry.outrun
                 \/ /\ proc'[q] = proc[q]
                    /\ ~OfRoles(proc[q].key, proc[q].entry.groups, {r})
<1>1. CASE proc[q].pc = "fill"
  <2>1. proc[q] \in FillState
    BY <1>1, ProcCases DEF TypeOK
  <2>2. \/ proc'[q] = [proc[q] EXCEPT !.entry.outrun = TRUE]
        \/ /\ proc'[q] = proc[q]
           /\ ~OfRoles(proc[q].key, proc[q].entry.groups, {r})
    BY <1>1 DEF OvertakenRole
  <2> QED
    BY <1>1, <2>1, <2>2 DEF FillState, Computed
<1>2. CASE proc[q].pc = "lookup"
  <2>1. proc[q] \in LookupState
    BY <1>2, ProcCases DEF TypeOK
  <2>2. \/ proc'[q] = [proc[q] EXCEPT !.outrun = proc[q].fresh]
        \/ /\ proc'[q] = proc[q]
           /\ ~OfRoles(proc[q].key, proc[q].groups, {r})
    BY <1>2 DEF OvertakenRole
  <2> QED
    BY <1>2, <2>1, <2>2 DEF LookupState
<1>3. CASE proc[q].pc \notin {"lookup", "fill"}
  BY <1>3 DEF OvertakenRole
<1> QED
  BY <1>1, <1>2, <1>3

\* Overtaking the reads of a user marks them and changes nothing else.
LEMMA OvertakenUserSame ==
  ASSUME TypeOK, NEW p \in Process, NEW next \in ProcState, NEW u \in User,
         NEW q \in Process, q # p, proc' = OvertakenUser(p, u, next)
  PROVE  /\ proc'[q].pc = proc[q].pc
         /\ proc[q].pc \notin {"lookup", "fill"} => proc'[q] = proc[q]
         /\ proc[q].pc = "lookup" =>
              /\ proc'[q].key = proc[q].key
              /\ proc'[q].fresh = proc[q].fresh
              /\ proc'[q].groups = proc[q].groups
              /\ proc[q].key = u => (proc[q].fresh => proc'[q].outrun)
              /\ proc[q].key # u => proc'[q].outrun = proc[q].outrun
         /\ proc[q].pc = "fill" =>
              /\ proc'[q].key = proc[q].key
              /\ proc'[q].entry.lists = proc[q].entry.lists
              /\ proc'[q].entry.groups = proc[q].entry.groups
              /\ proc'[q].entry.fresh = proc[q].entry.fresh
              /\ proc[q].entry.outrun => proc'[q].entry.outrun
              /\ proc[q].key = u /\ proc[q].entry.fresh => proc'[q].entry.outrun
<1>1. CASE proc[q].pc = "fill"
  <2>1. proc[q] \in FillState
    BY <1>1, ProcCases DEF TypeOK
  <2>2. \/ proc'[q] = proc[q] /\ ~(proc[q].key = u /\ proc[q].entry.fresh)
        \/ proc'[q] = [proc[q] EXCEPT !.entry.outrun = TRUE]
    BY <1>1 DEF OvertakenUser
  <2> QED
    BY <1>1, <2>1, <2>2 DEF FillState, Computed
<1>2. CASE proc[q].pc = "lookup"
  <2>1. proc[q] \in LookupState
    BY <1>2, ProcCases DEF TypeOK
  <2>2. \/ proc'[q] = proc[q] /\ proc[q].key # u
        \/ /\ proc'[q] = [proc[q] EXCEPT !.outrun = proc[q].fresh]
           /\ proc[q].key = u
    BY <1>2 DEF OvertakenUser
  <2> QED
    BY <1>2, <2>1, <2>2 DEF LookupState
<1>3. CASE proc[q].pc \notin {"lookup", "fill"}
  BY <1>3 DEF OvertakenUser
<1> QED
  BY <1>1, <1>2, <1>3

\* Marking entries changes nothing else about them.
LEMMA OutrunEntriesSame ==
  ASSUME TypeOK, NEW K, access' = OutrunEntries(K), NEW k \in Key
  PROVE  /\ access'[k] = None <=> access[k] = None
         /\ access[k] # None =>
              /\ access'[k].lists = access[k].lists
              /\ access'[k].groups = access[k].groups
              /\ access'[k].fresh = access[k].fresh
              /\ k \in K => access'[k].outrun
              /\ k \notin K => access'[k] = access[k]
<1>1. CASE access[k] = None
  BY <1>1 DEF OutrunEntries
<1>2. CASE access[k] # None
  <2>1. access[k] \in Computed
    BY <1>2 DEF TypeOK
  <2>2. access'[k] = IF k \in K THEN [access[k] EXCEPT !.outrun = TRUE]
                     ELSE access[k]
    BY <1>2 DEF OutrunEntries
  <2>3. access'[k] \in Computed
    BY <2>1, <2>2 DEF Computed
  <2> QED
    BY <1>2, <2>1, <2>2, <2>3, NoneIsNew DEF Computed
<1> QED
  BY <1>1, <1>2

(***************************************************************************)
(* Writing implies reading and public roles never write, in the rows and   *)
(* in every cached list.                                                   *)
(***************************************************************************)
THEOREM RightsAlwaysWellFormed == Spec => []RightsWellFormed
<1>1. Init => RightsInv
  BY DEF Init, RightsInv, RightsWellFormed, StagedWellFormed, FillsWellFormed,
         NoRight, Idle
<1>2. TypeOK /\ TypeOK' /\ RightsInv /\ [Next]_vars => RightsInv'
  <2> SUFFICES ASSUME TypeOK, TypeOK', RightsInv, [Next]_vars
               PROVE  RightsInv'
    OBVIOUS
  <2> USE DEF RightsInv
  <2>1. ASSUME NEW p \in Process, BeginRequest(p)
        PROVE  RightsInv'
    <3>1. proc'[p].pc = "lookup" /\ \A q \in Process \ {p} : proc'[q] = proc[q]
      BY <2>1 DEF BeginRequest, LookingUp, TypeOK
    <3> QED
      BY <2>1, <3>1 DEF BeginRequest, RightsWellFormed, StagedWellFormed,
                        FillsWellFormed
  <2>2. ASSUME NEW p \in Process, CacheHit(p)
        PROVE  RightsInv'
    BY <2>2 DEF CacheHit, AfterLookup, Idle, TypeOK, RightsWellFormed,
                StagedWellFormed, FillsWellFormed
  <2>3. ASSUME NEW p \in Process, CacheMiss(p)
        PROVE  RightsInv'
    <3>1. proc[p] \in LookupState
      BY <2>3, ProcCases DEF CacheMiss, TypeOK
    <3>2. /\ proc'[p].pc = "fill" /\ proc'[p].key = proc[p].key
          /\ proc'[p].entry.lists =
               Granted(RolesOf(proc[p].key, proc[p].groups))
      BY <2>3 DEF CacheMiss, TypeOK
    <3>3. /\ WellFormed(proc'[p].entry.lists)
          /\ proc'[p].key = Anonymous => proc'[p].entry.lists.write = {}
      BY <3>1, <3>2, GrantedWellFormed DEF LookupState
    <3>4. FillsWellFormed'
      BY <2>3, <3>3 DEF CacheMiss, TypeOK, FillsWellFormed
    <3> QED
      BY <2>3, <3>4 DEF CacheMiss, TypeOK, RightsWellFormed, StagedWellFormed
  <2>4. ASSUME NEW p \in Process, StoreLists(p)
        PROVE  RightsInv'
    <3>1. proc[p] \in FillState
      BY <2>4, ProcCases DEF StoreLists, TypeOK
    <3>2. /\ StagedWellFormed'
          /\ FillsWellFormed'
      <4>1. proc'[p].pc \in {"idle", "token"}
        BY <2>4 DEF StoreLists, AfterLookup, Idle
      <4>2. ASSUME NEW q \in Process, q # p
            PROVE  \/ proc'[q] = proc[q]
                   \/ /\ proc[q].pc = "granted" /\ proc'[q].pc = "granted"
                      /\ proc'[q].staged = proc[q].staged
        <5>1. CASE proc[q].pc = "granted"
          <6>1. proc[q] \in EditState
            BY <5>1, ProcCases DEF TypeOK
          <6> QED
            BY <2>4, <4>2, <5>1, <6>1 DEF StoreLists, EditState
        <5>2. CASE proc[q].pc # "granted"
          BY <2>4, <4>2, <5>2 DEF StoreLists
        <5> QED
          BY <5>1, <5>2
      <4> QED
        BY <4>1, <4>2 DEF StagedWellFormed, FillsWellFormed
    <3>3. RightsWellFormed'
      BY <2>4, <3>1 DEF StoreLists, TypeOK, RightsWellFormed, FillsWellFormed,
                        FillState
    <3> QED
      BY <3>2, <3>3
  <2>5. ASSUME NEW p \in Process, NEW c \in Collection, BeginPermissions(p, c)
        PROVE  RightsInv'
    BY <2>5 DEF BeginPermissions, TypeOK, RightsWellFormed, StagedWellFormed,
                FillsWellFormed
  <2>6. ASSUME NEW p \in Process, NEW r \in Role, NEW right \in Right,
               right.write => right.read /\ r \notin PublicRole,
               proc[p].pc = "granting", Stage(p, r, right)
        PROVE  RightsInv'
    <3>1. proc[p] \in EditState
      BY <2>6, ProcCases DEF TypeOK
    <3>2. /\ proc'[p].pc = "granting"
          /\ \A x \in Role : proc'[p].staged[x] =
               IF x = r THEN right ELSE proc[p].staged[x]
          /\ \A q \in Process \ {p} : proc'[q] = proc[q]
      BY <2>6, <3>1 DEF Stage, TypeOK, EditState
    <3>3. StagedWellFormed' /\ FillsWellFormed'
      BY <2>6, <3>2 DEF StagedWellFormed, FillsWellFormed
    <3>4. \A k \in Key : access'[k] = access[k] \/ access'[k] = None
      BY <2>6 DEF Stage, FlushRole, TypeOK
    <3>5. RightsWellFormed'
      BY <2>6, <3>4 DEF Stage, RightsWellFormed
    <3> QED
      BY <3>3, <3>5
  <2>7. ASSUME NEW p \in Process, NEW r \in Role, UpdatePermission(p, r)
        PROVE  RightsInv'
    BY <2>7, <2>6 DEF UpdatePermission, Permitted, Grant, Right
  <2>8. ASSUME NEW p \in Process, Publish(p)
        PROVE  RightsInv'
    BY <2>8, <2>6 DEF Publish, Grant, Right, Role, PublicRole
  <2>9. ASSUME NEW p \in Process, FlushBeforeCommit(p)
        PROVE  RightsInv'
    <3>1. proc[p] \in EditState
      BY <2>9, ProcCases DEF FlushBeforeCommit, TypeOK
    <3>2. /\ proc'[p].pc = "granted" /\ proc'[p].staged = proc[p].staged
          /\ \A q \in Process \ {p} : proc'[q] = proc[q]
      BY <2>9, <3>1 DEF FlushBeforeCommit, TypeOK, EditState
    <3>3. StagedWellFormed' /\ FillsWellFormed'
      BY <2>9, <3>2 DEF FlushBeforeCommit, StagedWellFormed, FillsWellFormed
    <3> QED
      BY <2>9, <3>3 DEF FlushBeforeCommit, Flushed, RightsWellFormed
  <2>10. ASSUME NEW p \in Process, NEW R, NEW next \in ProcState,
                next.pc # "fill", next.pc \notin {"granting", "granted"},
                proc' = Overtaken(p, R, next)
         PROVE  StagedWellFormed' /\ FillsWellFormed'
    <3>1. proc'[p] = next
      BY <2>10 DEF Overtaken
    <3> QED
      BY <2>10, <3>1, OvertakenSame DEF StagedWellFormed, FillsWellFormed
  <2>11. ASSUME NEW p \in Process, CommitPermissions(p)
         PROVE  RightsInv'
    <3>1. proc[p] \in EditState
      BY <2>11, ProcCases DEF CommitPermissions, TypeOK
    <3>2. \A r \in Role, c \in Collection :
            permission'[r][c].write =>
              permission'[r][c].read /\ r \notin PublicRole
      BY <2>11, <3>1 DEF CommitPermissions, EditState, TypeOK,
                         RightsWellFormed, StagedWellFormed
    <3>3. RightsWellFormed'
      BY <2>11, <3>2, OutrunEntriesSame DEF CommitPermissions, RightsWellFormed
    <3> QED
      BY <2>10, <2>11, <3>3 DEF CommitPermissions, ProcState, Idle
  <2>12. ASSUME NEW R \in SUBSET Role
         PROVE  Unflushed(R) \in ProcState /\ Unflushed(R).pc = "unflushed"
    BY DEF ProcState, FlushState, Unflushed
  <2>13. ASSUME NEW p \in Process, NEW c \in Collection, NEW u \in User,
                CreateCollection(p, c, u)
         PROVE  RightsInv'
    <3>1. u \in Role /\ u \notin PublicRole
      BY RolesDistinct DEF Role
    <3>2. RightsWellFormed'
      BY <2>13, <3>1 DEF CreateCollection, Grant, RightsWellFormed, TypeOK
    <3> QED
      BY <2>10, <2>12, <2>13, <3>1, <3>2 DEF CreateCollection
  <2>14. ASSUME NEW p \in Process, NEW c \in Collection, DeleteCollection(p, c)
         PROVE  RightsInv'
    <3>1. RightsWellFormed'
      BY <2>14 DEF DeleteCollection, NoRight, RightsWellFormed, TypeOK
    <3> QED
      BY <2>10, <2>12, <2>14, <3>1 DEF DeleteCollection, RolesWith
  <2>15. ASSUME NEW p \in Process, FlushAfterCommit(p)
         PROVE  RightsInv'
    BY <2>15 DEF FlushAfterCommit, Flushed, Idle, TypeOK, RightsWellFormed,
                 StagedWellFormed, FillsWellFormed
  <2>16. ASSUME NEW p \in Process, NEW u \in User, NEW groups \in SUBSET Group,
                NEW login \in BOOLEAN, CommitGroups(p, u, groups, login)
         PROVE  RightsInv'
    <3> DEFINE next == [pc |-> "unrefreshed", user |-> u, login |-> login]
    <3>1. next \in ProcState /\ proc' = OvertakenUser(p, u, next)
      BY <2>16 DEF CommitGroups, ProcState, RefreshState
    <3>2. proc'[p] = next
      BY <3>1 DEF OvertakenUser
    <3>3. StagedWellFormed' /\ FillsWellFormed'
      BY <3>1, <3>2, OvertakenUserSame DEF StagedWellFormed, FillsWellFormed
    <3> QED
      BY <2>16, <3>3 DEF CommitGroups, RightsWellFormed
  <2>a. ASSUME NEW p \in Process, NEW u \in User, NEW login \in BOOLEAN,
               UpdateRole(p, u, login)
        PROVE  RightsInv'
    BY <2>a DEF UpdateRole, LookingUp, FlushRole, TypeOK, RightsWellFormed,
                StagedWellFormed, FillsWellFormed
  <2>17. ASSUME NEW p \in Process, RefreshRole(p)
         PROVE  RightsInv'
    <3>1. proc[p] \in RefreshState
      BY <2>17, ProcCases DEF RefreshRole, TypeOK
    <3> QED
      BY <2>17, <2>a, <3>1 DEF RefreshRole, RefreshState
  <2>b. ASSUME NEW p \in Process, NEW u \in User, UpdateRoles(p, u)
        PROVE  RightsInv'
    BY <2>a, <2>b DEF UpdateRoles
  <2>c. ASSUME NEW p \in Process, NEW r \in User \cup Group, DeleteRole(p, r)
        PROVE  RightsInv'
    <3>1. proc'[p] = Idle
      BY <2>c DEF DeleteRole, OvertakenRole
    <3>2. ASSUME NEW q \in Process, q # p
          PROVE  /\ proc'[q].pc = proc[q].pc
                 /\ proc[q].pc \in {"granting", "granted"} =>
                      proc'[q] = proc[q]
                 /\ proc[q].pc = "fill" =>
                      /\ proc'[q].key = proc[q].key
                      /\ proc'[q].entry.lists = proc[q].entry.lists
      BY <2>c, <3>2, OvertakenRoleSame DEF DeleteRole
    <3>3. StagedWellFormed' /\ FillsWellFormed'
      BY <3>1, <3>2 DEF Idle, StagedWellFormed, FillsWellFormed
    <3>4. RightsWellFormed'
      BY <2>c, OutrunEntriesSame
      DEF DeleteRole, NoRight, RightsWellFormed, TypeOK
    <3> QED
      BY <3>3, <3>4
  <2>18. ASSUME NEW p \in Process, StoreToken(p)
         PROVE  RightsInv'
    BY <2>18 DEF StoreToken, Idle, TypeOK, RightsWellFormed, StagedWellFormed,
                 FillsWellFormed
  <2>19. ASSUME NEW u \in User, EndSession(u)
         PROVE  RightsInv'
    BY <2>19 DEF EndSession, Logout, ExpireSession, FlushRole, TypeOK,
                 RightsWellFormed, StagedWellFormed, FillsWellFormed
  <2>20. ASSUME NEW p \in Process, Crash(p)
         PROVE  RightsInv'
    <3>1. StagedWellFormed' /\ FillsWellFormed'
      BY <2>20 DEF Crash, Idle, TypeOK, StagedWellFormed, FillsWellFormed
    <3>2. access' = access \/ \E K : access' = OutrunEntries(K)
      BY <2>20 DEF Crash
    <3>3. RightsWellFormed'
      BY <2>20, <3>2, OutrunEntriesSame DEF Crash, RightsWellFormed
    <3> QED
      BY <3>1, <3>3
  <2>21. CASE UNCHANGED vars
    BY <2>21 DEF vars, RightsWellFormed, StagedWellFormed, FillsWellFormed
  <2> HIDE DEF RightsInv
  <2>22. ASSUME NEW p \in Process, Step(p)
         PROVE  RightsInv'
    BY <2>1, <2>2, <2>3, <2>4, <2>5, <2>7, <2>8, <2>9, <2>11, <2>13, <2>14,
       <2>15, <2>16, <2>17, <2>18, <2>20, <2>22, <2>b, <2>c DEF Step
  <2> QED
    BY <2>19, <2>21, <2>22 DEF Next
<1>3. RightsInv => RightsWellFormed
  BY DEF RightsInv
<1> QED
  BY <1>1, <1>2, <1>3, TypeCorrect, PTL DEF Spec

-----------------------------------------------------------------------------
(* Coherence: what a read has taken from the database is still what the    *)
(* database holds, unless a commit outran the read; and an edit between    *)
(* its flush and its commit knows every list that was stored since.        *)

FillCoherent(p) ==
  (proc[p].pc = "fill" /\ ~proc[p].entry.outrun) =>
    /\ Matches(proc[p].key, proc[p].entry)
    /\ (proc[p].key \in User /\ proc[p].entry.fresh) =>
         proc[p].entry.groups = membership[proc[p].key]

LookupCoherent(p) ==
  (/\ proc[p].pc = "lookup" /\ ~proc[p].outrun
   /\ proc[p].key \in User /\ proc[p].fresh)
  => proc[p].groups = membership[proc[p].key]

LateKnown(p) ==
  proc[p].pc = "granted" =>
    \A k \in Key : access[k] # None => k \in proc[p].late

ProcCoherent(p) == FillCoherent(p) /\ LookupCoherent(p) /\ LateKnown(p)

CoherenceInv == CacheCoherent /\ \A p \in Process : ProcCoherent(p)

\* Rows that stay the same grant the same.
LEMMA GrantedSame ==
  ASSUME UNCHANGED permission, NEW roles
  PROVE  Granted(roles)' = Granted(roles)
BY DEF Granted

\* So they do to roles that are not among those whose rows changed.
LEMMA GrantedOther ==
  ASSUME NEW R, \A r \in Role \ R : permission'[r] = permission[r],
         NEW k \in Key, NEW groups \in SUBSET Group, ~OfRoles(k, groups, R)
  PROVE  Granted(RolesOf(k, groups))' = Granted(RolesOf(k, groups))
<1>1. RolesOf(k, groups) \subseteq Role \ R
  BY DEF OfRoles, RolesOf, Role, Key, PublicRole
<1> QED
  BY <1>1 DEF Granted

\* Everything that could be read at a key stays, or nothing is there.
Kept == \A k \in Key : access'[k] # None => access[k] # None

\* A process that stays the same stays coherent when the rows of the roles R
\* change that its read does not depend on, and its user's groups do not.
LEMMA ProcSame ==
  ASSUME TypeOK, NEW R, \A r \in Role \ R : permission'[r] = permission[r],
         NEW q \in Process, ProcCoherent(q), proc'[q] = proc[q], Kept,
         proc[q].pc = "fill" =>
           ~OfRoles(proc[q].key, proc[q].entry.groups, R),
         proc[q].pc \in {"lookup", "fill"} /\ proc[q].key \in User =>
           membership'[proc[q].key] = membership[proc[q].key]
  PROVE  ProcCoherent(q)'
<1>1. LookupCoherent(q)'
  BY DEF ProcCoherent, LookupCoherent
<1>2. FillCoherent(q)'
  <2>1. CASE proc[q].pc = "fill"
    <3>1. proc[q] \in FillState
      BY <2>1, ProcCases DEF TypeOK
    <3>2. proc[q].key \in Key /\ proc[q].entry.groups \in SUBSET Group
      BY <3>1 DEF FillState, Computed
    <3>3. Granted(RolesOf(proc[q].key, proc[q].entry.groups))' =
            Granted(RolesOf(proc[q].key, proc[q].entry.groups))
      BY <2>1, <3>2, GrantedOther
    <3> QED
      BY <2>1, <3>3 DEF ProcCoherent, FillCoherent, Matches
  <2>2. CASE proc[q].pc # "fill"
    BY <2>2 DEF FillCoherent
  <2> QED
    BY <2>1, <2>2
<1>3. LateKnown(q)'
  BY DEF ProcCoherent, LateKnown, Kept
<1> QED
  BY <1>1, <1>2, <1>3 DEF ProcCoherent

\* An entry that stays the same stays coherent when the rows of the roles R
\* change that it does not depend on, while the pending flushes remain.
LEMMA EntrySame ==
  ASSUME TypeOK, CacheCoherent,
         NEW R, \A r \in Role \ R : permission'[r] = permission[r],
         NEW k \in Key, access'[k] = access[k],
         access[k] # None => ~OfRoles(k, access[k].groups, R),
         k \in User => membership'[k] = membership[k],
         FlushPending(k, access[k]) => FlushPending(k, access[k])',
         RefreshPending(k) => RefreshPending(k)'
  PROVE  EntryCoherent(k)'
<1>1. CASE access[k] # None
  <2>1. access[k] \in Computed
    BY <1>1 DEF TypeOK
  <2>2. Granted(RolesOf(k, access[k].groups))' =
          Granted(RolesOf(k, access[k].groups))
    BY <1>1, <2>1, GrantedOther DEF Computed
  <2> QED
    BY <1>1, <2>2 DEF CacheCoherent, EntryCoherent, Matches
<1>2. CASE access[k] = None
  BY <1>2 DEF EntryCoherent
<1> QED
  BY <1>1, <1>2

\* No list depends on no role.
LEMMA OfNoRole ==
  ASSUME NEW k, NEW groups
  PROVE  ~OfRoles(k, groups, {})
BY DEF OfRoles

(***************************************************************************)
(* A cached list agrees with the database unless a flush is due, or a      *)
(* commit outran it: every list depends on the rows of its roles only, an  *)
(* edit of permissions knows the lists stored since it flushed, and every  *)
(* other commit of rows leaves a flush due, but the deletion of a role.    *)
(***************************************************************************)
THEOREM CacheAlwaysCoherent == Spec => []CacheCoherent
<1>1. Init => CoherenceInv
  BY DEF Init, CoherenceInv, CacheCoherent, EntryCoherent, ProcCoherent,
         FillCoherent, LookupCoherent, LateKnown, Idle
<1>2. TypeOK /\ TypeOK' /\ CoherenceInv /\ [Next]_vars => CoherenceInv'
  <2> SUFFICES ASSUME TypeOK, TypeOK', CoherenceInv, [Next]_vars
               PROVE  CoherenceInv'
    OBVIOUS
  <2>0. CacheCoherent /\ \A q \in Process : ProcCoherent(q)
    BY DEF CoherenceInv
  \* It is enough to look at each process and each entry on its own.
  <2>a. ASSUME \A q \in Process : ProcCoherent(q)',
               \A k \in Key : EntryCoherent(k)'
        PROVE  CoherenceInv'
    BY <2>a DEF CoherenceInv, CacheCoherent
  \* Steps of one process that commit nothing and leave no flush undone.
  <2>b. ASSUME NEW p \in Process,
               UNCHANGED <<permission, membership>>,
               \A q \in Process \ {p} : proc'[q].pc = proc[q].pc
                 /\ (proc[q].pc # "granted" => proc'[q] = proc[q]),
               proc[p].pc \notin {"unflushed", "unrefreshed"},
               NEW k \in Key, access'[k] \in {access[k], None}
        PROVE  EntryCoherent(k)'
    <3>1. FlushPending(k, access[k]) /\ access'[k] = access[k] =>
            FlushPending(k, access[k])'
      BY <2>b DEF FlushPending
    <3>2. RefreshPending(k) => RefreshPending(k)'
      BY <2>b DEF RefreshPending
    <3>3. CASE access'[k] = None
      BY <3>3 DEF EntryCoherent
    <3>4. CASE access'[k] = access[k]
      BY <2>0, <2>b, <3>1, <3>2, <3>4, OfNoRole, EntrySame
    <3> QED
      BY <2>b, <3>3, <3>4
  \* The processes that such a step does not touch.
  <2>c. ASSUME NEW q \in Process, proc'[q] = proc[q], Kept,
               UNCHANGED <<permission, membership>>
        PROVE  ProcCoherent(q)'
    BY <2>0, <2>c, OfNoRole, ProcSame
  <2>1. ASSUME NEW p \in Process, BeginRequest(p)
        PROVE  CoherenceInv'
    <3>1. /\ \A q \in Process \ {p} : proc'[q] = proc[q]
          /\ proc'[p].pc = "lookup"
          /\ proc'[p].key \in User /\ proc'[p].fresh =>
               proc'[p].groups = membership[proc'[p].key]
      BY <2>1, RolesDistinct DEF BeginRequest, LookingUp, TypeOK
    <3>2. ProcCoherent(p)'
      BY <2>1, <3>1
      DEF BeginRequest, ProcCoherent, FillCoherent, LookupCoherent, LateKnown
    <3>3. UNCHANGED <<permission, membership, access>> /\ proc[p] = Idle
      BY <2>1 DEF BeginRequest
    <3> QED
      BY <2>a, <2>b, <2>c, <3>1, <3>2, <3>3 DEF Idle, Kept
  \* Steps after which the process is neither reading nor about to commit.
  <2>2. ASSUME NEW p \in Process,
               UNCHANGED <<permission, membership>>,
               \A q \in Process \ {p} : proc'[q] = proc[q],
               \A k \in Key : access'[k] \in {access[k], None},
               proc[p].pc \notin {"unflushed", "unrefreshed"},
               proc'[p].pc \notin {"lookup", "fill", "granted"}
        PROVE  CoherenceInv'
    <3>1. ProcCoherent(p)'
      BY <2>2 DEF ProcCoherent, FillCoherent, LookupCoherent, LateKnown
    <3>2. Kept
      BY <2>2 DEF Kept
    <3>3. \A k \in Key : EntryCoherent(k)'
      BY <2>b, <2>2
    <3> QED
      BY <2>a, <2>c, <2>2, <3>1, <3>2, <3>3
  <2>3. ASSUME NEW p \in Process, CacheHit(p)
        PROVE  CoherenceInv'
    BY <2>2, <2>3 DEF CacheHit, AfterLookup, Idle, TypeOK
  <2>4. ASSUME NEW p \in Process, CacheMiss(p)
        PROVE  CoherenceInv'
    <3> DEFINE key == proc[p].key
               groups == proc[p].groups
    <3>1. proc[p] \in LookupState
      BY <2>4, ProcCases DEF CacheMiss, TypeOK
    <3>2. /\ \A q \in Process \ {p} : proc'[q] = proc[q]
          /\ proc'[p].pc = "fill" /\ proc'[p].key = key
          /\ proc'[p].entry.lists = Granted(RolesOf(key, groups))
          /\ proc'[p].entry.groups = groups
          /\ proc'[p].entry.fresh = proc[p].fresh
          /\ proc'[p].entry.outrun = proc[p].outrun
          /\ proc[p].pc = "lookup"
          /\ UNCHANGED <<permission, membership, access>>
      BY <2>4 DEF CacheMiss, TypeOK
    <3>3. ~proc[p].outrun /\ key \in User /\ proc[p].fresh =>
            groups = membership[key]
      BY <2>0, <3>2 DEF ProcCoherent, LookupCoherent
    <3>4. Matches(proc[p].key, proc[p].entry)'
      BY <3>2, GrantedSame DEF Matches
    <3>5. ProcCoherent(p)'
      BY <3>2, <3>3, <3>4
      DEF ProcCoherent, FillCoherent, LookupCoherent, LateKnown
    <3> QED
      BY <2>a, <2>b, <2>c, <3>2, <3>5 DEF Kept
  <2>5. ASSUME NEW p \in Process, StoreLists(p)
        PROVE  CoherenceInv'
    <3> DEFINE key == proc[p].key
    <3>1. proc[p] \in FillState /\ key \in Key
      BY <2>5, ProcCases DEF StoreLists, TypeOK, FillState
    <3>2. /\ proc[p].pc = "fill" /\ proc'[p].pc \in {"idle", "token"}
          /\ UNCHANGED <<permission, membership>>
      BY <2>5 DEF StoreLists, AfterLookup, Idle, TypeOK
    <3>3. \A k \in Key : access'[k] =
            IF k = key THEN proc[p].entry ELSE access[k]
      BY <2>5 DEF StoreLists, TypeOK
    <3>4. ASSUME NEW q \in Process \ {p}
          PROVE  /\ proc'[q].pc = proc[q].pc
                 /\ proc[q].pc # "granted" => proc'[q] = proc[q]
                 /\ proc[q].pc = "granted" =>
                      proc'[q].late = proc[q].late \cup {key}
      <4>1. CASE proc[q].pc = "granted"
        <5>1. proc[q] \in EditState
          BY <4>1, ProcCases DEF TypeOK
        <5> QED
          BY <2>5, <4>1, <5>1 DEF StoreLists, EditState
      <4>2. CASE proc[q].pc # "granted"
        BY <2>5, <4>2 DEF StoreLists
      <4> QED
        BY <4>1, <4>2
    <3>5. FillCoherent(p)
      BY <2>0 DEF ProcCoherent
    <3>6. ASSUME NEW k \in Key, k = key
          PROVE  EntryCoherent(k)'
      <4>1. access'[k] = proc[p].entry
        BY <3>3, <3>6
      <4>2. ~proc[p].entry.outrun =>
              proc[p].entry.lists = Granted(RolesOf(k, proc[p].entry.groups))
        BY <3>2, <3>5, <3>6 DEF FillCoherent, Matches
      <4>3. ~access[k].outrun' => Matches(k, access[k])'
        BY <3>2, <4>1, <4>2, GrantedSame DEF Matches
      <4>4. (~access[k].outrun' /\ k \in User /\ access[k].fresh') =>
              access[k].groups' = membership[k]'
        BY <3>2, <3>5, <3>6, <4>1 DEF FillCoherent
      <4> QED
        BY <4>3, <4>4 DEF EntryCoherent
    <3>7. ProcCoherent(p)'
      BY <3>2 DEF ProcCoherent, FillCoherent, LookupCoherent, LateKnown
    <3>8. ASSUME NEW k \in Key, k # key
          PROVE  EntryCoherent(k)'
      BY <2>b, <3>2, <3>3, <3>4, <3>8
    <3>9. ASSUME NEW q \in Process \ {p}
          PROVE  ProcCoherent(q)'
      <4>1. ProcCoherent(q)
        BY <2>0
      <4>2. LateKnown(q)'
        BY <3>3, <3>4, <4>1 DEF ProcCoherent, LateKnown
      <4>3. LookupCoherent(q)'
        BY <3>2, <3>4, <4>1 DEF ProcCoherent, LookupCoherent
      <4>4. FillCoherent(q)'
        BY <3>2, <3>4, <4>1, GrantedSame
        DEF ProcCoherent, FillCoherent, Matches
      <4> QED
        BY <4>2, <4>3, <4>4 DEF ProcCoherent
    <3> QED
      BY <2>a, <3>6, <3>7, <3>8, <3>9
  <2>6. ASSUME NEW p \in Process, NEW c \in Collection, BeginPermissions(p, c)
        PROVE  CoherenceInv'
    BY <2>2, <2>6 DEF BeginPermissions, Idle, TypeOK
  <2>7. ASSUME NEW p \in Process, NEW r \in Role, NEW right \in Right,
               proc[p].pc = "granting", Stage(p, r, right)
        PROVE  CoherenceInv'
    <3>1. proc[p] \in EditState
      BY <2>7, ProcCases DEF TypeOK
    <3>2. /\ proc'[p].pc = "granting"
          /\ \A q \in Process \ {p} : proc'[q] = proc[q]
      BY <2>7, <3>1 DEF Stage, TypeOK, EditState
    <3>3. \A k \in Key : access'[k] \in {access[k], None}
      BY <2>7 DEF Stage, FlushRole, TypeOK
    <3> QED
      BY <2>2, <2>7, <3>2, <3>3 DEF Stage
  <2>8. ASSUME NEW p \in Process, NEW r \in Role, UpdatePermission(p, r)
        PROVE  CoherenceInv'
    BY <2>7, <2>8 DEF UpdatePermission, Permitted, Grant, Right
  <2>9. ASSUME NEW p \in Process, Publish(p)
        PROVE  CoherenceInv'
    BY <2>7, <2>9 DEF Publish, Grant, Right, Role, PublicRole
  <2>10. ASSUME NEW p \in Process, FlushBeforeCommit(p)
         PROVE  CoherenceInv'
    <3>1. proc[p] \in EditState
      BY <2>10, ProcCases DEF FlushBeforeCommit, TypeOK
    <3>2. /\ proc[p].pc = "granting" /\ proc'[p].pc = "granted"
          /\ \A q \in Process \ {p} : proc'[q] = proc[q]
          /\ \A k \in Key : access'[k] = None
          /\ UNCHANGED <<permission, membership>>
      BY <2>10, <3>1 DEF FlushBeforeCommit, Flushed, TypeOK, EditState
    <3>3. ProcCoherent(p)'
      BY <3>2 DEF ProcCoherent, FillCoherent, LookupCoherent, LateKnown
    <3>4. \A k \in Key : EntryCoherent(k)'
      BY <3>2 DEF EntryCoherent
    <3>5. ASSUME NEW q \in Process \ {p}
          PROVE  ProcCoherent(q)'
      BY <2>c, <3>2 DEF Kept
    <3> QED
      BY <2>a, <3>3, <3>4, <3>5
  \* A commit of permission rows marks the reads that depend on them.
  <2>11. ASSUME NEW p \in Process, NEW R, NEW next,
                next.pc \notin {"lookup", "fill", "granted"},
                proc' = Overtaken(p, R, next), UNCHANGED membership, Kept,
                \A r \in Role \ R : permission'[r] = permission[r]
         PROVE  \A q \in Process : ProcCoherent(q)'
    <3>1. proc'[p] = next
      BY <2>11 DEF Overtaken
    <3>2. ProcCoherent(p)'
      BY <2>11, <3>1 DEF ProcCoherent, FillCoherent, LookupCoherent, LateKnown
    <3>3. ASSUME NEW q \in Process, q # p
          PROVE  ProcCoherent(q)'
      <4>1. CASE proc'[q] = proc[q] /\ (proc[q].pc = "fill" =>
                   ~OfRoles(proc[q].key, proc[q].entry.groups, R))
        BY <2>0, <2>11, <4>1, ProcSame
      <4>2. CASE proc'[q].pc = "fill" /\ proc'[q].entry.outrun
        BY <4>2 DEF ProcCoherent, FillCoherent, LookupCoherent, LateKnown
      <4> QED
        BY <2>11, <3>3, <4>1, <4>2, OvertakenSame
    <3> QED
      BY <3>2, <3>3
  <2>12. ASSUME NEW p \in Process, CommitPermissions(p)
         PROVE  CoherenceInv'
    <3> DEFINE R == StagedRoles(p)
               K == proc[p].late \cap KeysOf(R)
    <3>1. /\ proc[p].pc = "granted" /\ proc' = Overtaken(p, R, Idle)
          /\ access' = OutrunEntries(K) /\ UNCHANGED membership
      BY <2>12 DEF CommitPermissions
    <3>2. \A r \in Role \ R : permission'[r] = permission[r]
      BY <2>12 DEF CommitPermissions, StagedRoles
    <3>3. Kept
      BY <3>1, OutrunEntriesSame DEF Kept
    <3>4. \A q \in Process : ProcCoherent(q)'
      BY <2>11, <3>1, <3>2, <3>3 DEF Idle
    <3>5. ASSUME NEW k \in Key
          PROVE  EntryCoherent(k)'
      <4>1. CASE k \in K
        BY <3>1, <4>1, OutrunEntriesSame DEF KeysOf, EntryCoherent
      <4>2. CASE k \notin K
        <5>1. access[k] # None => ~OfRoles(k, access[k].groups, R)
          BY <2>0, <3>1, <4>2 DEF ProcCoherent, LateKnown, KeysOf
        <5>2. access'[k] = access[k]
          <6>1. CASE access[k] = None
            BY <3>1, <6>1, OutrunEntriesSame
          <6>2. CASE access[k] # None
            BY <3>1, <4>2, <6>2, OutrunEntriesSame
          <6> QED
            BY <6>1, <6>2
        <5>3. FlushPending(k, access[k]) => FlushPending(k, access[k])'
          BY <3>1, <5>2, OvertakenSame DEF FlushPending
        <5>4. RefreshPending(k) => RefreshPending(k)'
          BY <3>1, OvertakenSame DEF RefreshPending
        <5> QED
          BY <2>0, <3>1, <3>2, <5>1, <5>2, <5>3, <5>4, EntrySame
      <4> QED
        BY <4>1, <4>2
    <3> QED
      BY <2>a, <3>4, <3>5
  \* A commit that leaves a flush of what depends on its rows due.
  <2>13. ASSUME NEW p \in Process, proc[p] = Idle, NEW R \in SUBSET Role,
                proc' = Overtaken(p, R, Unflushed(R)),
                \A r \in Role \ R : permission'[r] = permission[r],
                UNCHANGED <<membership, access>>
         PROVE  CoherenceInv'
    <3>1. Kept
      BY <2>13 DEF Kept
    <3>2. \A q \in Process : ProcCoherent(q)'
      BY <2>11, <2>13, <3>1 DEF Unflushed
    <3>3. ASSUME NEW k \in Key
          PROVE  EntryCoherent(k)'
      <4>1. RefreshPending(k) => RefreshPending(k)'
        BY <2>13, OvertakenSame DEF RefreshPending, Idle
      <4>2. FlushPending(k, access[k]) => FlushPending(k, access[k])'
        BY <2>13, OvertakenSame DEF FlushPending, Idle
      <4>3. CASE OfRoles(k, access[k].groups, R)
        <5>1. proc'[p] = Unflushed(R)
          BY <2>13 DEF Overtaken
        <5>2. FlushPending(k, access[k])'
          BY <2>13, <4>3, <5>1 DEF FlushPending, Unflushed
        <5> QED
          BY <2>0, <2>13, <4>1, <5>2 DEF CacheCoherent, EntryCoherent
      <4>4. CASE ~OfRoles(k, access[k].groups, R)
        BY <2>0, <2>13, <4>1, <4>2, <4>4, EntrySame
      <4> QED
        BY <4>3, <4>4
    <3> QED
      BY <2>a, <3>2, <3>3
  <2>14. ASSUME NEW p \in Process, NEW c \in Collection, NEW u \in User,
                CreateCollection(p, c, u)
         PROVE  CoherenceInv'
    <3>1. {u} \in SUBSET Role
      BY DEF Role
    <3>2. \A r \in Role \ {u} : permission'[r] = permission[r]
      BY <2>14 DEF CreateCollection, TypeOK
    <3> QED
      BY <2>13, <2>14, <3>1, <3>2 DEF CreateCollection
  <2>15. ASSUME NEW p \in Process, NEW c \in Collection, DeleteCollection(p, c)
         PROVE  CoherenceInv'
    <3>1. \A r \in Role \ RolesWith(c) : permission'[r] = permission[r]
      <4> SUFFICES ASSUME NEW r \in Role \ RolesWith(c)
                   PROVE  permission'[r] = permission[r]
        OBVIOUS
      <4>1. permission[r] \in [Collection -> Right] /\ permission[r][c] = NoRight
        BY DEF TypeOK, RolesWith
      <4>2. permission'[r] = [permission[r] EXCEPT ![c] = NoRight]
        BY <2>15 DEF DeleteCollection
      <4> QED
        BY <4>1, <4>2
    <3> QED
      BY <2>13, <2>15, <3>1 DEF DeleteCollection, RolesWith
  <2>16. ASSUME NEW p \in Process, FlushAfterCommit(p)
         PROVE  CoherenceInv'
    <3>1. \A k \in Key : access'[k] = None
      BY <2>16 DEF FlushAfterCommit, Flushed
    <3>2. /\ \A q \in Process \ {p} : proc'[q] = proc[q]
          /\ proc'[p].pc = "idle"
          /\ UNCHANGED <<permission, membership>>
      BY <2>16 DEF FlushAfterCommit, Idle, TypeOK
    <3>3. ProcCoherent(p)'
      BY <3>2 DEF ProcCoherent, FillCoherent, LookupCoherent, LateKnown
    <3>4. \A k \in Key : EntryCoherent(k)'
      BY <3>1 DEF EntryCoherent
    <3> QED
      BY <2>a, <2>c, <3>1, <3>2, <3>3, <3>4 DEF Kept
  <2>17. ASSUME NEW p \in Process, NEW u \in User, NEW groups \in SUBSET Group,
                NEW login \in BOOLEAN, CommitGroups(p, u, groups, login)
         PROVE  CoherenceInv'
    <3> DEFINE next == [pc |-> "unrefreshed", user |-> u, login |-> login]
    <3>1. next \in ProcState /\ proc' = OvertakenUser(p, u, next)
      BY <2>17 DEF CommitGroups, ProcState, RefreshState
    <3>2. proc'[p] = next /\ proc[p] = Idle
      BY <2>17, <3>1 DEF OvertakenUser, CommitGroups
    <3>3. /\ \A x \in User \ {u} : membership'[x] = membership[x]
          /\ UNCHANGED <<permission, access>>
      BY <2>17 DEF CommitGroups, TypeOK
    <3>4. ProcCoherent(p)'
      BY <3>2 DEF ProcCoherent, FillCoherent, LookupCoherent, LateKnown
    <3>5. ASSUME NEW q \in Process, q # p
          PROVE  ProcCoherent(q)'
      <4>1. FillCoherent(q) /\ LookupCoherent(q) /\ LateKnown(q)
        BY <2>0 DEF ProcCoherent
      <4>2. LookupCoherent(q)'
        BY <3>1, <3>3, <3>5, <4>1, OvertakenUserSame DEF LookupCoherent
      <4>3. ASSUME (proc[q].pc = "fill" /\ ~proc[q].entry.outrun)'
            PROVE  FillCoherent(q)'
        <5>1. proc'[q] = proc[q]
          BY <3>1, <3>5, <4>3 DEF OvertakenUser
        <5>2. ~(proc[q].key = u /\ proc[q].entry.fresh)
          BY <3>1, <3>5, <4>3, <5>1 DEF OvertakenUser
        <5>3. Matches(proc[q].key, proc[q].entry)'
          BY <3>3, <4>1, <4>3, <5>1, GrantedSame DEF FillCoherent, Matches
        <5> QED
          BY <3>3, <4>1, <4>3, <5>1, <5>2, <5>3 DEF FillCoherent
      <4>4. (proc[q].pc # "fill" \/ proc[q].entry.outrun)' => FillCoherent(q)'
        BY DEF FillCoherent
      <4>5. LateKnown(q)'
        BY <3>1, <3>3, <3>5, <4>1, OvertakenUserSame DEF LateKnown
      <4> QED
        BY <4>2, <4>3, <4>4, <4>5 DEF ProcCoherent
    <3>6. ASSUME NEW k \in Key
          PROVE  FlushPending(k, access[k]) => FlushPending(k, access[k])'
      BY <3>1, <3>2, <3>3, OvertakenUserSame DEF FlushPending, Idle
    <3>7. \A x : RefreshPending(x) => RefreshPending(x)'
      BY <3>1, <3>2, OvertakenUserSame DEF RefreshPending, Idle
    <3>8. RefreshPending(u)'
      BY <3>2 DEF RefreshPending
    <3>9. ASSUME NEW k \in Key
          PROVE  EntryCoherent(k)'
      <4>1. CASE k = u
        BY <2>0, <3>3, <3>6, <3>8, <4>1
        DEF CacheCoherent, EntryCoherent, Matches, Granted
      <4>2. CASE k # u
        BY <2>0, <3>3, <3>6, <3>7, <4>2, OfNoRole, EntrySame
      <4> QED
        BY <4>1, <4>2
    <3> QED
      BY <2>a, <3>4, <3>5, <3>9
  \* A refresh of u's lists, by a process with nothing else to flush.
  <2>d. ASSUME NEW p \in Process, NEW u \in User, NEW login \in BOOLEAN,
               UpdateRole(p, u, login), proc[p].pc # "unflushed",
               proc[p].pc = "unrefreshed" => proc[p].user = u
        PROVE  CoherenceInv'
    <3>2. /\ \A q \in Process \ {p} : proc'[q] = proc[q]
          /\ proc'[p].pc = "lookup" /\ proc'[p].key = u
          /\ proc'[p].groups = membership[u]
          /\ UNCHANGED <<permission, membership>>
      BY <2>d DEF UpdateRole, LookingUp, TypeOK
    <3>3. ProcCoherent(p)'
      BY <3>2 DEF ProcCoherent, FillCoherent, LookupCoherent, LateKnown
    <3>5. \A x : x # u /\ RefreshPending(x) => RefreshPending(x)'
      BY <2>d, <3>2 DEF RefreshPending
    <3>6. \A k \in Key : access'[k] = IF k = u THEN None ELSE access[k]
      BY <2>d DEF UpdateRole, FlushRole, TypeOK
    <3>4. ASSUME NEW k \in Key, k # u
          PROVE  FlushPending(k, access[k]) => FlushPending(k, access[k])'
      BY <2>d, <3>2, <3>4, <3>6 DEF FlushPending
    <3>7. ASSUME NEW k \in Key
          PROVE  EntryCoherent(k)'
      <4>1. CASE k = u
        BY <3>6, <4>1 DEF EntryCoherent
      <4>2. CASE k # u
        BY <2>0, <3>2, <3>4, <3>5, <3>6, <4>2, OfNoRole, EntrySame
      <4> QED
        BY <4>1, <4>2
    <3>8. Kept
      BY <3>6 DEF Kept
    <3> QED
      BY <2>a, <2>c, <3>2, <3>3, <3>7, <3>8
  <2>18. ASSUME NEW p \in Process, RefreshRole(p)
         PROVE  CoherenceInv'
    <3>1. proc[p] \in RefreshState
      BY <2>18, ProcCases DEF RefreshRole, TypeOK
    <3> QED
      BY <2>18, <2>d, <3>1 DEF RefreshRole, RefreshState
  <2>e. ASSUME NEW p \in Process, NEW u \in User, UpdateRoles(p, u)
        PROVE  CoherenceInv'
    <3>1. proc[p] = Idle /\ UpdateRole(p, u, FALSE)
      BY <2>e DEF UpdateRoles
    <3>2. proc[p].pc = "idle"
      BY <3>1 DEF Idle
    <3> QED
      BY <2>d, <3>1, <3>2
  \* The deletion of a role marks what depends on it.
  <2>f. ASSUME NEW p \in Process, NEW r \in User \cup Group, DeleteRole(p, r)
        PROVE  CoherenceInv'
    <3>1. /\ proc[p] = Idle /\ proc'[p] = Idle
          /\ proc' = OvertakenRole(p, r)
          /\ access' = OutrunEntries(KeysOf({r}))
      BY <2>f DEF DeleteRole, OvertakenRole
    <3>2. \A x \in Role \ {r} : permission'[x] = permission[x]
      BY <2>f DEF DeleteRole, TypeOK
    <3>3. Kept
      BY <3>1, OutrunEntriesSame DEF Kept
    \* A user's groups, once read, change only if r is the user or among them.
    <3>4. ASSUME NEW u \in User, ~OfRoles(u, membership[u], {r})
          PROVE  membership'[u] = membership[u]
      <4>1. u # r /\ r \notin membership[u]
        BY <3>4, RolesDistinct DEF OfRoles, RolesOf
      <4> QED
        BY <2>f, <4>1 DEF DeleteRole, TypeOK
    <3>5. ProcCoherent(p)'
      BY <3>1 DEF Idle, ProcCoherent, FillCoherent, LookupCoherent, LateKnown
    <3>6. ASSUME NEW q \in Process, q # p
          PROVE  ProcCoherent(q)'
      <4>0. ProcCoherent(q)
        BY <2>0
      <4>1. CASE proc[q].pc = "fill"
        <5>1. CASE proc'[q].entry.outrun
          BY <3>1, <3>6, <4>1, <5>1, OvertakenRoleSame
          DEF ProcCoherent, FillCoherent, LookupCoherent, LateKnown
        <5>2. CASE /\ ~proc'[q].entry.outrun /\ proc'[q] = proc[q]
                   /\ ~OfRoles(proc[q].key, proc[q].entry.groups, {r})
          <6>1. proc[q] \in FillState
            BY <4>1, ProcCases DEF TypeOK
          <6>2. proc[q].key \in Key /\ proc[q].entry.groups \in SUBSET Group
            BY <6>1 DEF FillState, Computed
          <6>3. Granted(RolesOf(proc[q].key, proc[q].entry.groups))' =
                  Granted(RolesOf(proc[q].key, proc[q].entry.groups))
            BY <3>2, <5>2, <6>2, GrantedOther
          <6>4. FillCoherent(q)'
            BY <3>4, <4>0, <4>1, <5>2, <6>3
            DEF ProcCoherent, FillCoherent, Matches
          <6> QED
            BY <4>1, <5>2, <6>4 DEF ProcCoherent, LookupCoherent, LateKnown
        <5> QED
          BY <3>1, <3>6, <4>1, <5>1, <5>2, OvertakenRoleSame
      <4>2. CASE proc[q].pc = "lookup"
        <5>1. /\ proc'[q].pc = "lookup" /\ proc'[q].key = proc[q].key
              /\ proc'[q].fresh = proc[q].fresh
              /\ \/ proc'[q].outrun = proc[q].fresh
                 \/ /\ proc'[q] = proc[q]
                    /\ ~OfRoles(proc[q].key, proc[q].groups, {r})
          BY <3>1, <3>6, <4>2, OvertakenRoleSame
        <5>2. LookupCoherent(q)'
          BY <3>4, <4>0, <4>2, <5>1 DEF ProcCoherent, LookupCoherent
        <5> QED
          BY <5>1, <5>2 DEF ProcCoherent, FillCoherent, LateKnown
      <4>3. CASE proc[q].pc \notin {"lookup", "fill"}
        <5>1. proc'[q] = proc[q]
          BY <3>1, <3>6, <4>3, OvertakenRoleSame
        <5> QED
          BY <3>3, <4>0, <4>3, <5>1
          DEF ProcCoherent, FillCoherent, LookupCoherent, LateKnown, Kept
      <4> QED
        BY <4>1, <4>2, <4>3
    <3>7. ASSUME NEW k \in Key
          PROVE  EntryCoherent(k)'
      <4>1. CASE k \in KeysOf({r})
        BY <3>1, <4>1, OutrunEntriesSame DEF KeysOf, EntryCoherent
      <4>2. CASE k \notin KeysOf({r}) /\ access[k] # None
        <5>1. access[k] \in Computed /\ ~OfRoles(k, access[k].groups, {r})
          BY <4>2 DEF TypeOK, KeysOf
        <5>2. access'[k] = access[k]
          BY <3>1, <4>2, OutrunEntriesSame
        <5>3. Granted(RolesOf(k, access[k].groups))' =
                Granted(RolesOf(k, access[k].groups))
          <6>1. access[k].groups \in SUBSET Group
            BY <5>1 DEF Computed
          <6> QED
            BY <3>2, <5>1, <5>2, <6>1, GrantedOther
        <5>4. FlushPending(k, access[k]) => FlushPending(k, access[k])'
          <6>1. ASSUME NEW q \in Process, proc[q].pc = "unflushed"
                PROVE  proc'[q] = proc[q]
            BY <3>1, <6>1, OvertakenRoleSame DEF Idle
          <6> QED
            BY <5>2, <6>1 DEF FlushPending
        <5>5. RefreshPending(k) => RefreshPending(k)'
          <6>1. ASSUME NEW q \in Process, proc[q].pc = "unrefreshed"
                PROVE  proc'[q] = proc[q]
            BY <3>1, <6>1, OvertakenRoleSame DEF Idle
          <6> QED
            BY <6>1 DEF RefreshPending
        <5> QED
          BY <2>0, <3>4, <5>1, <5>2, <5>3, <5>4, <5>5
          DEF CacheCoherent, EntryCoherent, Matches
      <4>3. CASE access[k] = None
        BY <3>3, <4>3 DEF Kept, EntryCoherent
      <4> QED
        BY <4>1, <4>2, <4>3
    <3> QED
      BY <2>a, <3>5, <3>6, <3>7
  <2>19. ASSUME NEW p \in Process, StoreToken(p)
         PROVE  CoherenceInv'
    BY <2>2, <2>19 DEF StoreToken, Idle, TypeOK
  <2>20. ASSUME NEW u \in User, EndSession(u)
         PROVE  CoherenceInv'
    <3>1. /\ \A k \in Key : access'[k] \in {access[k], None}
          /\ UNCHANGED <<permission, membership, proc>>
      BY <2>20 DEF EndSession, Logout, ExpireSession, FlushRole, TypeOK
    <3>2. ASSUME NEW k \in Key
          PROVE  EntryCoherent(k)'
      <4>1. CASE access'[k] = None
        BY <4>1 DEF EntryCoherent
      <4>2. CASE access'[k] = access[k]
        <5>1. FlushPending(k, access[k]) => FlushPending(k, access[k])'
          BY <3>1, <4>2 DEF FlushPending
        <5>2. RefreshPending(k) => RefreshPending(k)'
          BY <3>1 DEF RefreshPending
        <5> QED
          BY <2>0, <3>1, <4>2, <5>1, <5>2, OfNoRole, EntrySame
      <4> QED
        BY <3>1, <4>1, <4>2
    <3>3. Kept
      BY <3>1 DEF Kept
    <3> QED
      BY <2>a, <2>c, <3>1, <3>2, <3>3
  <2>21. ASSUME NEW p \in Process, Crash(p)
         PROVE  CoherenceInv'
    <3>1. /\ \A q \in Process \ {p} : proc'[q] = proc[q]
          /\ proc'[p].pc = "idle"
          /\ UNCHANGED <<permission, membership>>
      BY <2>21 DEF Crash, Idle, TypeOK
    <3>2. ASSUME Kept
          PROVE  \A q \in Process : ProcCoherent(q)'
      <4>1. ProcCoherent(p)'
        BY <3>1 DEF ProcCoherent, FillCoherent, LookupCoherent, LateKnown
      <4> QED
        BY <2>c, <3>1, <3>2, <4>1
    <3>3. CASE proc[p].pc = "unflushed"
      <4> DEFINE K == KeysOf(proc[p].roles)
      <4>1. access' = OutrunEntries(K)
        BY <2>21, <3>3 DEF Crash
      <4>2. ASSUME NEW k \in Key
            PROVE  EntryCoherent(k)'
        <5>1. CASE k \in K
          BY <4>1, <5>1, OutrunEntriesSame DEF KeysOf, EntryCoherent
        <5>2. CASE k \notin K /\ access[k] # None
          <6>1. access'[k] = access[k]
            BY <4>1, <5>2, OutrunEntriesSame
          <6>2. FlushPending(k, access[k]) => FlushPending(k, access[k])'
            BY <3>1, <5>2, <6>1 DEF FlushPending, KeysOf
          <6>3. RefreshPending(k) => RefreshPending(k)'
            BY <3>1, <3>3 DEF RefreshPending
          <6> QED
            BY <2>0, <3>1, <6>1, <6>2, <6>3, OfNoRole, EntrySame
        <5>3. CASE access[k] = None
          BY <4>1, <5>3, OutrunEntriesSame DEF EntryCoherent
        <5> QED
          BY <5>1, <5>2, <5>3
      <4>3. Kept
        BY <4>1, OutrunEntriesSame DEF Kept
      <4> QED
        BY <2>a, <3>2, <4>2, <4>3
    <3>4. CASE proc[p].pc = "unrefreshed"
      <4> DEFINE u == proc[p].user
      <4>1. access' = OutrunEntries({u})
        BY <2>21, <3>4 DEF Crash
      <4>3. \A x : x # u /\ RefreshPending(x) => RefreshPending(x)'
        BY <3>1 DEF RefreshPending
      <4>4. ASSUME NEW k \in Key
            PROVE  EntryCoherent(k)'
        <5>1. CASE k = u
          BY <4>1, <5>1, OutrunEntriesSame DEF EntryCoherent
        <5>2. CASE k # u /\ access[k] # None
          <6>0. k \notin {u}
            BY <5>2
          <6>1. access'[k] = access[k]
            <7> HIDE DEF u
            <7> QED
              BY <4>1, <5>2, <6>0, OutrunEntriesSame
          <6>2. FlushPending(k, access[k]) => FlushPending(k, access[k])'
            BY <3>1, <3>4, <6>1 DEF FlushPending
          <6> QED
            BY <2>0, <3>1, <4>3, <5>2, <6>1, <6>2, OfNoRole, EntrySame
        <5>3. CASE access[k] = None
          BY <4>1, <5>3, OutrunEntriesSame DEF EntryCoherent
        <5> QED
          BY <5>1, <5>2, <5>3
      <4>5. Kept
        BY <4>1, OutrunEntriesSame DEF Kept
      <4> QED
        BY <2>a, <3>2, <4>4, <4>5
    <3>5. CASE proc[p].pc \notin {"unflushed", "unrefreshed"}
      BY <2>2, <2>21, <3>1, <3>5 DEF Crash
    <3> QED
      BY <3>3, <3>4, <3>5
  <2>22. CASE UNCHANGED vars
    <3>1. UNCHANGED <<permission, membership, access, proc>>
      BY <2>22 DEF vars
    <3>2. ASSUME NEW k \in Key
          PROVE  EntryCoherent(k)'
      <4>1. FlushPending(k, access[k]) => FlushPending(k, access[k])'
        BY <3>1 DEF FlushPending
      <4>2. RefreshPending(k) => RefreshPending(k)'
        BY <3>1 DEF RefreshPending
      <4> QED
        BY <2>0, <3>1, <4>1, <4>2, OfNoRole, EntrySame
    <3> QED
      BY <2>a, <2>c, <3>1, <3>2 DEF Kept
  <2>23. ASSUME NEW p \in Process, Step(p)
         PROVE  CoherenceInv'
    BY <2>1, <2>3, <2>4, <2>5, <2>6, <2>8, <2>9, <2>10, <2>12, <2>14, <2>15,
       <2>16, <2>17, <2>18, <2>19, <2>21, <2>23, <2>e, <2>f DEF Step
  <2> QED
    BY <2>20, <2>22, <2>23 DEF Next
<1>3. CoherenceInv => CacheCoherent
  BY DEF CoherenceInv
<1> QED
  BY <1>1, <1>2, <1>3, TypeCorrect, PTL DEF Spec
=============================================================================
