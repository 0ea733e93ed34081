----------------------------- MODULE AuthzCache -----------------------------
(***************************************************************************)
(* Who may read and write which collection: the permission rows and group  *)
(* memberships in the database, and the access lists computed from them    *)
(* that all requests share in the Redis hash "authzca" (aleph/authz.py).   *)
(*                                                                         *)
(* The database is read committed: a process sees what others committed.   *)
(* Each process (a web request, or a CLI command) runs one operation at a  *)
(* time and interleaves with the others between its calls to the database  *)
(* and to Redis.  Admins bypass the lists and are left out.                *)
(***************************************************************************)
EXTENDS Naturals

CONSTANTS
  User, Group,            \* roles that log in, and groups they belong to
  Guest, SystemUser,      \* the two system roles: everyone, and logged-in
  Anonymous,              \* the cache key of requests without a user
  Collection,
  Casefile,               \* the collections whose category is "casefile"
  Process,
  MaxCommits,             \* bound on the number of commits
  None

PublicRole == {Guest, SystemUser}
Role == User \cup Group \cup PublicRole
Key == User \cup {Anonymous}

ASSUME RolesDistinct ==
  /\ Anonymous \notin User
  /\ PublicRole \cap (User \cup Group) = {}
  /\ Casefile \subseteq Collection
  /\ MaxCommits \in Nat

\* A permission row; a row that grants nothing stands for no row at all.
Right == [read : BOOLEAN, write : BOOLEAN]
NoRight == [read |-> FALSE, write |-> FALSE]

VARIABLES
  permission,  \* committed rows: [Role -> [Collection -> Right]]
  membership,  \* committed group memberships: [User -> SUBSET Group]
  known,       \* users and groups that exist
  live,        \* collections that exist and are not deleted
  sessions,    \* per user, the group lists frozen in the session tokens
  access,      \* the Redis hash: an Entry per key, or None
  proc,        \* what each process is doing
  commits      \* number of commits so far (bounds the model)

vars == <<permission, membership, known, live, sessions, access, proc, commits>>

Lists == [read : SUBSET Collection, write : SUBSET Collection]

(***************************************************************************)
(* groups, fresh and outrun are auxiliary: which groups an access list was *)
(* computed for, whether they were read from the database (not from a      *)
(* token), and whether it was read before a commit that changed what it    *)
(* was read from and stored where no flush on behalf of that commit will   *)
(* find it.  late is auxiliary too: the keys stored since an edit of       *)
(* permissions flushed, ahead of its commit; and roles, whose rows the     *)
(* commit changed that a flush is due for.                                 *)
(***************************************************************************)
Computed == [lists : Lists, groups : SUBSET Group, fresh : BOOLEAN,
             outrun : BOOLEAN]

ASSUME NoneIsNew == None \notin Right /\ None \notin Computed

Idle == [pc |-> "idle"]

LookupState ==
  {s \in [pc : {"lookup"}, key : Key, groups : SUBSET Group,
          fresh : BOOLEAN, login : BOOLEAN, outrun : BOOLEAN] :
     s.login => s.key \in User}
FillState ==
  {s \in [pc : {"fill"}, key : Key, entry : Computed, login : BOOLEAN] :
     s.login => s.key \in User}
EditState == [pc : {"granting", "granted"}, coll : Collection,
              staged : [Role -> Right \cup {None}], late : SUBSET Key]
FlushState == [pc : {"unflushed"}, roles : SUBSET Role]
RefreshState == [pc : {"unrefreshed"}, user : User, login : BOOLEAN]
TokenState == [pc : {"token"}, user : User]

ProcState == {Idle} \cup LookupState \cup FillState \cup EditState
             \cup FlushState \cup RefreshState \cup TokenState

TypeOK ==
  /\ permission \in [Role -> [Collection -> Right]]
  /\ membership \in [User -> SUBSET Group]
  /\ known \in SUBSET (User \cup Group)
  /\ live \in SUBSET Collection
  /\ sessions \in [User -> SUBSET SUBSET Group]
  /\ access \in [Key -> Computed \cup {None}]
  /\ proc \in [Process -> ProcState]
  /\ commits \in Nat

Init ==
  /\ permission = [r \in Role |-> [c \in Collection |-> NoRight]]
  /\ membership = [u \in User |-> {}]
  /\ known = User \cup Group
  /\ live = {}
  /\ sessions = [u \in User |-> {}]
  /\ access = [k \in Key |-> None]
  /\ proc = [p \in Process |-> Idle]
  /\ commits = 0

-----------------------------------------------------------------------------
(* Authz.collections: look up the key, else compute the lists and store.   *)

\* Authz.from_role and from_token: the roles a caller acts with.
RolesOf(k, groups) ==
  IF k = Anonymous THEN {Guest} ELSE {k, Guest, SystemUser} \cup groups

\* The lists a query of the committed permission rows yields.
Granted(roles) ==
  [read  |-> {c \in Collection : \E r \in roles : permission[r][c].read},
   write |-> {c \in Collection : \E r \in roles : permission[r][c].write}]

LookingUp(k, groups, fresh, login) ==
  [pc |-> "lookup", key |-> k, groups |-> groups, fresh |-> fresh,
   login |-> login, outrun |-> FALSE]

\* A request authenticates by nothing, an API key, or a session token; the
\* token is not compared with the database.
BeginRequest(p) ==
  /\ proc[p] = Idle
  /\ \/ proc' = [proc EXCEPT ![p] = LookingUp(Anonymous, {}, TRUE, FALSE)]
     \/ \E u \in User \cap known :
          proc' = [proc EXCEPT ![p] = LookingUp(u, membership[u], TRUE, FALSE)]
     \/ \E u \in User : \E groups \in sessions[u] :
          proc' = [proc EXCEPT ![p] = LookingUp(u, groups, FALSE, FALSE)]
  /\ UNCHANGED <<permission, membership, known, live, sessions, access, commits>>

\* Mutant: every caller goes on to store a token.
AfterLookupAnyone(key, login) == [pc |-> "token", user |-> key]

\* What a process does once Authz.collections has returned.
AfterLookup(key, login) ==
  IF login THEN [pc |-> "token", user |-> key] ELSE Idle

\* hget finds the key: the stored lists are used as they are.
CacheHit(p) ==
  /\ proc[p].pc = "lookup"
  /\ access[proc[p].key] # None
  /\ proc' = [proc EXCEPT ![p] = AfterLookup(proc[p].key, proc[p].login)]
  /\ UNCHANGED <<permission, membership, known, live, sessions, access, commits>>

\* hget finds nothing: query the permission rows of the caller's roles.
CacheMiss(p) ==
  /\ proc[p].pc = "lookup"
  /\ access[proc[p].key] = None
  /\ proc' = [proc EXCEPT ![p] =
       [pc |-> "fill", key |-> proc[p].key, login |-> proc[p].login,
        entry |-> [lists |-> Granted(RolesOf(proc[p].key, proc[p].groups)),
                   groups |-> proc[p].groups, fresh |-> proc[p].fresh,
                   outrun |-> proc[p].outrun]]]
  /\ UNCHANGED <<permission, membership, known, live, sessions, access, commits>>

\* hset, whatever has happened since the query.
StoreLists(p) ==
  /\ proc[p].pc = "fill"
  /\ access' = [access EXCEPT ![proc[p].key] = proc[p].entry]
  /\ proc' = [q \in Process |->
       IF q = p THEN AfterLookup(proc[p].key, proc[p].login)
       ELSE IF proc[q].pc = "granted"
            THEN [proc[q] EXCEPT !.late = @ \cup {proc[p].key}]
       ELSE proc[q]]
  /\ UNCHANGED <<permission, membership, known, live, sessions, commits>>

-----------------------------------------------------------------------------
(* Commits overtake the reads that came before them.                       *)

CanCommit == commits < MaxCommits

\* Whether lists of this key and these groups depend on the rows of roles R.
OfRoles(k, groups, R) == RolesOf(k, groups) \cap R # {}

\* Every process but p, seen after p committed permission rows of roles R:
\* whoever has read rows of theirs will store what they used to be.
Overtaken(p, R, next) ==
  [q \in Process |->
     IF q = p THEN next
     ELSE IF /\ proc[q].pc = "fill"
             /\ OfRoles(proc[q].key, proc[q].entry.groups, R)
          THEN [proc[q] EXCEPT !.entry.outrun = TRUE]
     ELSE proc[q]]

\* The same after p committed the groups of user u: only reads that took
\* u's groups from the database are overtaken.
OvertakenUser(p, u, next) ==
  [q \in Process |->
     IF q = p THEN next
     ELSE IF /\ proc[q].pc = "lookup"
             /\ proc[q].key = u
          THEN [proc[q] EXCEPT !.outrun = proc[q].fresh]
     ELSE IF /\ proc[q].pc = "fill"
             /\ proc[q].key = u
             /\ proc[q].entry.fresh
          THEN [proc[q] EXCEPT !.entry.outrun = TRUE]
     ELSE proc[q]]

\* The same after p deleted role r: its members' groups are overtaken too.
OvertakenRole(p, r) ==
  [q \in Process |->
     IF q = p THEN Idle
     ELSE IF /\ proc[q].pc = "lookup"
             /\ OfRoles(proc[q].key, proc[q].groups, {r})
          THEN [proc[q] EXCEPT !.outrun = proc[q].fresh]
     ELSE IF /\ proc[q].pc = "fill"
             /\ OfRoles(proc[q].key, proc[q].entry.groups, {r})
          THEN [proc[q] EXCEPT !.entry.outrun = TRUE]
     ELSE proc[q]]

\* The keys whose cached lists depend on the rows of roles R.
KeysOf(R) ==
  {k \in Key : access[k] # None /\ OfRoles(k, access[k].groups, R)}

OutrunEntries(K) ==
  [k \in Key |-> IF access[k] # None /\ k \in K
                 THEN [access[k] EXCEPT !.outrun = TRUE] ELSE access[k]]

Flushed == [k \in Key |-> None]

\* Authz.flush_role: forget one user's lists.
FlushRole(r) == [access EXCEPT ![r] = None]

-----------------------------------------------------------------------------
(* Editing the permissions of a collection (permissions_api.update, and    *)
(* the "publish" command): stage rows, flush, and only then commit.        *)

\* Permission.grant: writing implies reading.
Grant(read, write) == [read |-> read \/ write, write |-> write]

\* Mutant: the view checks public roles for casefiles only.
PermittedPublicWrite(c, r, read, write) ==
  Grant(read /\ ~(c \in Casefile /\ r \in PublicRole), write)

\* What the view lets through: public roles never write, and never read a
\* casefile.
Permitted(c, r, read, write) ==
  Grant(read /\ ~(c \in Casefile /\ r \in PublicRole),
        write /\ r \notin PublicRole)

BeginPermissions(p, c) ==
  /\ proc[p] = Idle
  /\ CanCommit
  /\ c \in live
  /\ proc' = [proc EXCEPT ![p] =
       [pc |-> "granting", coll |-> c, staged |-> [r \in Role |-> None],
        late |-> {}]]
  /\ UNCHANGED <<permission, membership, known, live, sessions, access, commits>>

\* A row staged by another open transaction is locked until it ends.
RowFree(p, c, r) ==
  \A q \in Process \ {p} :
    /\ proc[q].pc \in {"granting", "granted"}
    /\ proc[q].coll = c
    => proc[q].staged[r] = None

Stage(p, r, right) ==
  /\ RowFree(p, proc[p].coll, r)
  /\ proc' = [proc EXCEPT ![p].staged[r] = right]
  /\ access' = IF r \in User THEN FlushRole(r) ELSE access
  /\ UNCHANGED <<permission, membership, known, live, sessions, commits>>

\* update_permission for one entry of the request; a role that is gone is
\* passed over.
UpdatePermission(p, r) ==
  /\ proc[p].pc = "granting"
  /\ r \in known \cup PublicRole
  /\ \E read, write \in BOOLEAN :
       Stage(p, r, Permitted(proc[p].coll, r, read, write))

\* The "publish" command grants the guest role directly.
Publish(p) ==
  /\ proc[p].pc = "granting"
  /\ Stage(p, Guest, Grant(TRUE, FALSE))

\* Mutant: the flush before the commit is left out.
FlushLeftOut(p) ==
  /\ proc[p].pc = "granting"
  /\ proc' = [proc EXCEPT ![p].pc = "granted"]
  /\ UNCHANGED <<permission, membership, known, live, sessions, access, commits>>

\* update_collection, called with the rows still uncommitted.
FlushBeforeCommit(p) ==
  /\ proc[p].pc = "granting"
  /\ access' = Flushed
  /\ proc' = [proc EXCEPT ![p].pc = "granted"]
  /\ UNCHANGED <<permission, membership, known, live, sessions, commits>>

StagedRoles(p) == {r \in Role : proc[p].staged[r] # None}

CommitPermissions(p) ==
  /\ proc[p].pc = "granted"
  /\ permission' = [r \in Role |->
       IF proc[p].staged[r] = None THEN permission[r]
       ELSE [permission[r] EXCEPT ![proc[p].coll] = proc[p].staged[r]]]
  /\ proc' = Overtaken(p, StagedRoles(p), Idle)
  /\ access' = OutrunEntries(proc[p].late \cap KeysOf(StagedRoles(p)))
  /\ commits' = commits + 1
  /\ UNCHANGED <<membership, known, live, sessions>>

-----------------------------------------------------------------------------
(* Creating and deleting collections commits first and flushes afterwards. *)

Unflushed(R) == [pc |-> "unflushed", roles |-> R]

CreateCollection(p, c, creator) ==
  /\ proc[p] = Idle
  /\ CanCommit
  /\ c \notin live
  /\ creator \in known
  /\ RowFree(p, c, creator)
  /\ permission' = [permission EXCEPT ![creator][c] = Grant(TRUE, TRUE)]
  /\ live' = live \cup {c}
  /\ proc' = Overtaken(p, {creator}, Unflushed({creator}))
  /\ commits' = commits + 1
  /\ UNCHANGED <<membership, known, sessions, access>>

\* The roles that have a row for the collection.
RolesWith(c) == {r \in Role : permission[r][c] # NoRight}

DeleteCollection(p, c) ==
  /\ proc[p] = Idle
  /\ CanCommit
  /\ c \in live
  /\ \A r \in RolesWith(c) : RowFree(p, c, r)
  /\ permission' = [r \in Role |-> [permission[r] EXCEPT ![c] = NoRight]]
  /\ live' = live \ {c}
  /\ proc' = Overtaken(p, RolesWith(c), Unflushed(RolesWith(c)))
  /\ commits' = commits + 1
  /\ UNCHANGED <<membership, known, sessions, access>>

FlushAfterCommit(p) ==
  /\ proc[p].pc = "unflushed"
  /\ access' = Flushed
  /\ proc' = [proc EXCEPT ![p] = Idle]
  /\ UNCHANGED <<permission, membership, known, live, sessions, commits>>

-----------------------------------------------------------------------------
(* Group membership: user_add, user_del, and the groups an OAuth login     *)
(* brings; each commits and then refreshes the user.                       *)

CommitGroups(p, u, groups, login) ==
  /\ proc[p] = Idle
  /\ CanCommit
  /\ {u} \cup groups \subseteq known
  /\ membership' = [membership EXCEPT ![u] = groups]
  /\ proc' = OvertakenUser(p, u,
               [pc |-> "unrefreshed", user |-> u, login |-> login])
  /\ commits' = commits + 1
  /\ UNCHANGED <<permission, known, live, sessions, access>>

\* update_role: flush the user's lists, then get_role_channels looks them
\* up again on the user's behalf.
UpdateRole(p, u, login) ==
  /\ u \in known
  /\ access' = FlushRole(u)
  /\ proc' = [proc EXCEPT ![p] = LookingUp(u, membership[u], TRUE, login)]
  /\ UNCHANGED <<permission, membership, known, live, sessions, commits>>

RefreshRole(p) ==
  /\ proc[p].pc = "unrefreshed"
  /\ UpdateRole(p, proc[p].user, proc[p].login)

\* periodic_daily refreshes every user in turn.
UpdateRoles(p, u) == proc[p] = Idle /\ UpdateRole(p, u, FALSE)

\* The "deleterole" command: the rows and the memberships of the role go in
\* one commit, and nothing is flushed, neither lists nor sessions.  A row
\* staged for the role keeps it from being deleted.
DeleteRole(p, r) ==
  /\ proc[p] = Idle
  /\ CanCommit
  /\ r \in known
  /\ \A c \in Collection : RowFree(p, c, r)
  /\ permission' = [permission EXCEPT ![r] = [c \in Collection |-> NoRight]]
  /\ membership' = [u \in User |-> IF u = r THEN {} ELSE membership[u] \ {r}]
  /\ known' = known \ {r}
  /\ access' = OutrunEntries(KeysOf({r}))
  /\ proc' = OvertakenRole(p, r)
  /\ commits' = commits + 1
  /\ UNCHANGED <<live, sessions>>

\* Authz.to_token: the session keeps the groups of this moment.
StoreToken(p) ==
  /\ proc[p].pc = "token"
  /\ proc[p].user \in known
  /\ sessions' = [sessions EXCEPT ![proc[p].user] =
                    @ \cup {membership[proc[p].user]}]
  /\ proc' = [proc EXCEPT ![p] = Idle]
  /\ UNCHANGED <<permission, membership, known, live, access, commits>>

\* Authz.destroy at logout: flush the lists of a user who is still there, and
\* forget the token.
Logout(u, groups) ==
  /\ groups \in sessions[u]
  /\ sessions' = [sessions EXCEPT ![u] = @ \ {groups}]
  /\ access' = IF u \in known THEN FlushRole(u) ELSE access
  /\ UNCHANGED <<permission, membership, known, live, proc, commits>>

\* The token expires in Redis.
ExpireSession(u, groups) ==
  /\ groups \in sessions[u]
  /\ sessions' = [sessions EXCEPT ![u] = @ \ {groups}]
  /\ UNCHANGED <<permission, membership, known, live, access, proc, commits>>

\* A process dies, or fails as its user is gone: an open transaction rolls
\* back, and a flush that was due never happens.
Crash(p) ==
  /\ proc[p] # Idle
  /\ access' = CASE proc[p].pc = "unflushed" -> OutrunEntries(KeysOf(proc[p].roles))
                 [] proc[p].pc = "unrefreshed" -> OutrunEntries({proc[p].user})
                 [] OTHER -> access
  /\ proc' = [proc EXCEPT ![p] = Idle]
  /\ UNCHANGED <<permission, membership, known, live, sessions, commits>>

Step(p) ==
  \/ BeginRequest(p) \/ CacheHit(p) \/ CacheMiss(p) \/ StoreLists(p)
  \/ \E c \in Collection : BeginPermissions(p, c)
  \/ \E r \in Role : UpdatePermission(p, r)
  \/ Publish(p) \/ FlushBeforeCommit(p) \/ CommitPermissions(p)
  \/ \E c \in Collection, u \in User : CreateCollection(p, c, u)
  \/ \E c \in Collection : DeleteCollection(p, c)
  \/ FlushAfterCommit(p)
  \/ \E u \in User, groups \in SUBSET Group, login \in BOOLEAN :
       CommitGroups(p, u, groups, login)
  \/ RefreshRole(p)
  \/ \E u \in User : UpdateRoles(p, u)
  \/ \E r \in User \cup Group : DeleteRole(p, r)
  \/ StoreToken(p) \/ Crash(p)

EndSession(u) ==
  \E groups \in sessions[u] : Logout(u, groups) \/ ExpireSession(u, groups)

Next == (\E p \in Process : Step(p)) \/ (\E u \in User : EndSession(u))

Spec == Init /\ [][Next]_vars

-----------------------------------------------------------------------------
(* Writing implies reading, and public roles never write: in the committed *)
(* rows, and in every access list computed from them, even when the list   *)
(* is out of date (Permission.grant, permissions_api.update).              *)
WellFormed(lists) == lists.write \subseteq lists.read

RightsWellFormed ==
  /\ \A r \in Role, c \in Collection :
       permission[r][c].write => permission[r][c].read /\ r \notin PublicRole
  /\ \A k \in Key : access[k] # None =>
       /\ WellFormed(access[k].lists)
       /\ k = Anonymous => access[k].lists.write = {}

\* The flush that follows a commit of rows these lists depend on is due.
FlushPending(k, entry) ==
  \E p \in Process :
    proc[p].pc = "unflushed" /\ OfRoles(k, entry.groups, proc[p].roles)

RefreshPending(u) ==
  \E p \in Process : proc[p].pc = "unrefreshed" /\ proc[p].user = u

Matches(k, entry) == entry.lists = Granted(RolesOf(k, entry.groups))

EntryCoherent(k) ==
  (access[k] # None /\ ~access[k].outrun) =>
    /\ ~FlushPending(k, access[k]) => Matches(k, access[k])
    /\ (k \in User /\ access[k].fresh /\ ~RefreshPending(k)) =>
         access[k].groups = membership[k]

(***************************************************************************)
(* A cached access list is wrong in four cases only, each of which is a    *)
(* way the code has of losing an invalidation: it was read before a commit *)
(* that changed rows of its roles and stored after the flush made on       *)
(* behalf of that commit; the process that had to flush died; or the       *)
(* commit deleted a role, which flushes nothing; or the flush is still     *)
(* due.  Every other list is what the committed rows give to the groups it *)
(* was computed for, and these are the user's committed groups unless a    *)
(* session token brought them: a list that was stored before an edit of    *)
(* permissions does not survive it, and neither does one of a collection   *)
(* or of groups that changed (update_collection, delete_collection,        *)
(* update_permission, update_role).                                        *)
(***************************************************************************)
CacheCoherent == \A k \in Key : EntryCoherent(k)
=============================================================================
