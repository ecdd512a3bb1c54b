---------------------------- MODULE AccessControl ----------------------------
(***************************************************************************)
(* Who may do what: roles, their permissions, the users who hold them, the *)
(* permissions granted to a user directly, and the check of a permission,  *)
(* while superusers edit all of it.                                        *)
(*                                                                         *)
(* Sources: views/roles.py, api/roles.py, admin/builtin_models.py          *)
(* (UserAdmin, flush_pending_perm_ops), views/model_saver.py (extract_m2m, *)
(* apply_m2m), views/class_views.py (the update of a user),                *)
(* auth/identity.py, auth/dependencies.py, api/deps.py, auth/backend.py    *)
(* (get_user), auth/permissions.py, db.py (the commit after the response). *)
(*                                                                         *)
(* The database is a set of rows.  A request reads committed rows, stages  *)
(* the rows its statements insert and delete, and applies them when it     *)
(* commits.  A statement waits while another open transaction wrote a row  *)
(* it writes, or deletes the role it refers to; once that transaction has  *)
(* ended, the statement succeeds or meets the unique index, the foreign    *)
(* key or the row count it fails on, and the request is rolled back.       *)
(***************************************************************************)
EXTENDS Naturals, FiniteSets

CONSTANTS
    Requests,   \* the requests of a behaviour, each served once
    Users,      \* rows of admin_users
    Roles,      \* the ids a role can have
    Names,      \* the names a role can have
    Perms,      \* rows of admin_permissions: each stands for an action on a table
    None        \* no request; a field an endpoint does not read

ASSUME NoneAssumption ==
    None \notin Requests \cup Users \cup Roles \cup Names \cup Perms

RoleRow(g, n)     == <<"role", g, n>>               \* admin_roles
RolePermRow(g, p) == <<"rolePerm", g, p>>           \* admin_role_permissions
UserRoleRow(u, g) == <<"userRole", u, g>>           \* admin_user_roles
DirectRow(u, p)   == <<"direct", u, p>>             \* admin_user_permissions
SuperRow(u)       == <<"super", u, TRUE>>           \* admin_users.is_superuser

RoleRows     == {RoleRow(g, n) : g \in Roles, n \in Names}
RolePermRows == {RolePermRow(g, p) : g \in Roles, p \in Perms}
UserRoleRows == {UserRoleRow(u, g) : u \in Users, g \in Roles}
DirectRows   == {DirectRow(u, p) : u \in Users, p \in Perms}
SuperRows    == {SuperRow(u) : u \in Users}
Rows == RoleRows \cup RolePermRows \cup UserRoleRows \cup DirectRows \cup SuperRows

\* What a request asks for; the fields its endpoint does not read are idle.
Forms == [user : Users \cup {None}, role : Roles \cup {None},
          name : Names \cup {None}, perm : Perms \cup {None},
          perms : SUBSET Perms, roles : SUBSET Roles, super : BOOLEAN,
          privileged : BOOLEAN]

Kinds == {"idle", "createRole", "renameRole", "saveRole", "deleteRole",
          "saveUser", "check"}
Stages == {"idle", "loaded", "counted", "cleared", "dispatched", "flushed",
           "rolesRead", "done"}

VARIABLES
    db,         \* the committed rows
    kind,       \* kind[r]: the endpoint r calls
    stage,      \* stage[r]: how far r is
    form,       \* form[r]: what r asks for
    seen,       \* seen[r]: the rows r has read and goes by
    ins,        \* ins[r]: rows the open transaction of r has inserted
    del,        \* del[r]: rows the open transaction of r has deleted
    answer,     \* answer[r]: what the client of r was told
    held,       \* history: was the permission r checks held in some / in every
                \* committed state since r began
    commits,    \* history: commits since r began, counted up to two
    giver,      \* history: the request that gave a user a role, None when older
    lost,       \* history: <<d, g>>: deleting a role, d took what g had given
    lastSave,   \* history: the last request that set the permissions of a role
    overlap     \* history: pairs of requests in service at the same time

local == <<kind, stage, form, seen, ins, del, answer>>
history == <<held, commits, giver, lost, lastSave, overlap>>
vars == <<db, local, history>>

-----------------------------------------------------------------------------
HasRole(rows, g) == \E n \in Names : RoleRow(g, n) \in rows
NameTaken(rows, n) == \E g \in Roles : RoleRow(g, n) \in rows

\* has_perm of the user model: what the committed rows say at one moment, which
\* the checker is held against.
Holds(rows, u, p) ==
    \/ SuperRow(u) \in rows
    \/ DirectRow(u, p) \in rows
    \/ \E g \in Roles : UserRoleRow(u, g) \in rows /\ RolePermRow(g, p) \in rows

InService(r) == stage[r] \notin {"idle", "done"}

Init ==
    /\ \E perms \in SUBSET RolePermRows, users \in SUBSET UserRoleRows,
          direct \in SUBSET DirectRows, first \in Roles, n \in Names :
           /\ \A g \in Roles, p \in Perms : RolePermRow(g, p) \in perms => g = first
           /\ \A u \in Users, g \in Roles : UserRoleRow(u, g) \in users => g = first
           /\ db = {RoleRow(first, n)} \cup perms \cup users \cup direct
    /\ kind = [r \in Requests |-> "idle"]
    /\ stage = [r \in Requests |-> "idle"]
    /\ form = [r \in Requests |->
                 [user |-> None, role |-> None, name |-> None, perm |-> None,
                  perms |-> {}, roles |-> {}, super |-> FALSE,
                  privileged |-> FALSE]]
    /\ seen = [r \in Requests |-> {}]
    /\ ins = [r \in Requests |-> {}]
    /\ del = [r \in Requests |-> {}]
    /\ answer = [r \in Requests |-> "none"]
    /\ held = [r \in Requests |-> [some |-> FALSE, all |-> TRUE]]
    /\ commits = [r \in Requests |-> 0]
    /\ giver = [x \in UserRoleRows |-> None]
    /\ lost = {}
    /\ lastSave = [g \in Roles |-> None]
    /\ overlap = {}

-----------------------------------------------------------------------------
(***************************************************************************)
(* Transactions.                                                           *)
(***************************************************************************)

Locked(r, rows) ==
    \E q \in Requests \ {r} : rows \cap (ins[q] \cup del[q]) # {}

\* The foreign key of an inserted row makes it wait for a role on its way out.
RoleLocked(r, roles) ==
    \E q \in Requests \ {r}, g \in roles, n \in Names : RoleRow(g, n) \in del[q]

\* The unique index on admin_roles.name.
NameLocked(r, n) ==
    \E q \in Requests \ {r}, g \in Roles : RoleRow(g, n) \in ins[q] \cup del[q]

\* The endpoint k begins: the user of the cookie or the token was resolved and,
\* for everything but a check, is a superuser.
Begin(r, k, f) ==
    /\ stage[r] = "idle"
    /\ kind' = [kind EXCEPT ![r] = k]
    /\ form' = [form EXCEPT ![r] = f]
    /\ stage' = [stage EXCEPT ![r] = "loaded"]
    /\ held' = [held EXCEPT ![r] = [some |-> Holds(db, f.user, f.perm),
                                    all |-> Holds(db, f.user, f.perm)]]
    /\ overlap' = overlap \cup ({r} \X {q \in Requests : InService(q)})
                          \cup ({q \in Requests : InService(q)} \X {r})
    /\ UNCHANGED <<db, ins, del, answer, commits, giver, lost, lastSave>>

Continue(r, s) ==
    /\ stage' = [stage EXCEPT ![r] = s]
    /\ UNCHANGED <<db, kind, form, answer, history>>

Stage(r, added, removed) ==
    /\ ins' = [ins EXCEPT ![r] = @ \cup added]
    /\ del' = [del EXCEPT ![r] = @ \cup removed]

\* The statement raised: the session is rolled back and the client gets a 500.
RollBack(r, a) ==
    /\ stage' = [stage EXCEPT ![r] = "done"]
    /\ answer' = [answer EXCEPT ![r] = a]
    /\ ins' = [ins EXCEPT ![r] = {}]
    /\ del' = [del EXCEPT ![r] = {}]
    /\ UNCHANGED <<db, kind, form, seen, history>>

\* The database after the transaction of r.
After(r) == (db \ del[r]) \cup ins[r]

\* A commit of r, and what it means to the others.
Apply(r) ==
    /\ db' = After(r)
    /\ held' = [q \in Requests |->
           IF InService(q)
           THEN [some |-> held[q].some \/ Holds(After(r), form[q].user, form[q].perm),
                 all  |-> held[q].all /\ Holds(After(r), form[q].user, form[q].perm)]
           ELSE held[q]]
    /\ commits' = [q \in Requests |->
           IF InService(q) /\ After(r) # db /\ commits[q] < 2
           THEN commits[q] + 1 ELSE commits[q]]
    /\ giver' = [x \in UserRoleRows |-> IF x \in ins[r] THEN r ELSE giver[x]]
    /\ lost' = IF kind[r] = "deleteRole"
               THEN lost \cup {<<r, giver[x]>> : x \in del[r] \cap UserRoleRows}
               ELSE lost
    /\ lastSave' = IF kind[r] \in {"saveRole", "createRole"}
                   THEN [lastSave EXCEPT ![form[r].role] = r] ELSE lastSave
    /\ ins' = [ins EXCEPT ![r] = {}]
    /\ del' = [del EXCEPT ![r] = {}]
    /\ UNCHANGED <<kind, form, seen, answer, overlap>>

\* SessionMiddleware commits once the response is sent.
Commit(r) ==
    /\ stage[r] = "flushed"
    /\ stage' = [stage EXCEPT ![r] = "done"]
    /\ Apply(r)

\* The commit fails after the response.
FailCommit(r) == stage[r] = "flushed" /\ RollBack(r, answer[r])

\* The flush ends the handler; the client hears of success before the commit.
Finish(r) ==
    /\ stage' = [stage EXCEPT ![r] = "flushed"]
    /\ answer' = [answer EXCEPT ![r] = "ok"]
    /\ UNCHANGED <<db, kind, form, history>>

-----------------------------------------------------------------------------
(***************************************************************************)
(* The pages and the API of roles.                                         *)
(***************************************************************************)

NameIsFree(n) == ~NameTaken(db, n)

\* role_create_save_view and create_role look the name up ("Role name already
\* exists.", 400).
CreateBegin(r) ==
    \E n \in Names, perms \in SUBSET Perms :
        /\ NameIsFree(n)
        /\ Begin(r, "createRole", [form[r] EXCEPT !.name = n, !.perms = perms])
        /\ UNCHANGED seen

FreeId(g) == \A x \in db \cup UNION {ins[q] \cup del[q] : q \in Requests} :
                 x \in RoleRows => x[2] # g

\* ... and insert the role, then the permissions of a role nobody else sees.
CreateInsert(r) ==
    LET n == form[r].name IN
    /\ kind[r] = "createRole" /\ stage[r] = "loaded"
    /\ ~NameLocked(r, n)
    /\ IF NameTaken(db, n) THEN RollBack(r, "error")
       ELSE \E g \in Roles :
           /\ FreeId(g)
           /\ Stage(r, {RoleRow(g, n)} \cup {RolePermRow(g, p) : p \in form[r].perms}, {})
           /\ form' = [form EXCEPT ![r].role = g]
           /\ stage' = [stage EXCEPT ![r] = "flushed"]
           /\ answer' = [answer EXCEPT ![r] = "ok"]
           /\ UNCHANGED <<db, kind, seen, history>>

\* update_role of the API takes the new name as it comes.
RenameBegin(r) ==
    \E g \in Roles, n \in Names :
        /\ HasRole(db, g)
        /\ Begin(r, "renameRole", [form[r] EXCEPT !.role = g, !.name = n])
        /\ seen' = [seen EXCEPT ![r] = {x \in db \cap RoleRows : x[2] = g}]

Rename(r) ==
    LET g == form[r].role
        n == form[r].name
        old == {x \in db \cap RoleRows : x[2] = g} IN
    /\ kind[r] = "renameRole" /\ stage[r] = "loaded"
    /\ IF RoleRow(g, n) \in seen[r]
       THEN Finish(r) /\ UNCHANGED <<seen, ins, del>>
       ELSE /\ ~Locked(r, seen[r] \cup old) /\ ~NameLocked(r, n)
            /\ IF old = {} \/ (NameTaken(db, n) /\ RoleRow(g, n) \notin db)
               THEN RollBack(r, "error")
               ELSE Finish(r) /\ Stage(r, {RoleRow(g, n)}, old) /\ UNCHANGED seen

\* role_save_view.
SaveBegin(r) ==
    \E g \in Roles, perms \in SUBSET Perms :
        /\ HasRole(db, g)
        /\ Begin(r, "saveRole", [form[r] EXCEPT !.role = g, !.perms = perms])
        /\ UNCHANGED seen

\* Mutant: the old permissions stay.
KeepPermissions(r, g) == {}

\* delete(admin_role_permissions) of the role: the committed rows.
OldPermissions(r, g) == {x \in db \cap RolePermRows : x[2] = g}

SaveClear(r) ==
    /\ kind[r] = "saveRole" /\ stage[r] = "loaded"
    /\ ~Locked(r, OldPermissions(r, form[r].role))
    /\ Stage(r, {}, OldPermissions(r, form[r].role))
    /\ Continue(r, "cleared")
    /\ UNCHANGED seen

SaveInsert(r) ==
    LET g == form[r].role
        new == {RolePermRow(g, p) : p \in form[r].perms} IN
    /\ kind[r] = "saveRole" /\ stage[r] = "cleared"
    /\ new # {} => ~Locked(r, new) /\ ~RoleLocked(r, {g})
    /\ IF new # {} /\ (new \cap (db \ del[r]) # {} \/ ~HasRole(db, g))
       THEN RollBack(r, "error")
       ELSE Finish(r) /\ Stage(r, new, {}) /\ UNCHANGED seen

\* role_delete_view, and delete_role of the API.
DeleteBegin(r) ==
    \E g \in Roles :
        /\ HasRole(db, g)
        /\ Begin(r, "deleteRole", [form[r] EXCEPT !.role = g])
        /\ UNCHANGED seen

\* Mutant: nobody counts.
NoHolders(g) == {}

\* The users assigned to the role, as committed.
Holders(g) == {x \in db \cap UserRoleRows : x[3] = g}

\* "Cannot delete role. n user(s) are still assigned." (400)
DeleteCount(r) ==
    /\ kind[r] = "deleteRole" /\ stage[r] = "loaded"
    /\ IF Holders(form[r].role) # {} THEN RollBack(r, "refused")
       ELSE Continue(r, "counted") /\ UNCHANGED <<seen, ins, del>>

DeleteClear(r) ==
    /\ kind[r] = "deleteRole" /\ stage[r] = "counted"
    /\ ~Locked(r, OldPermissions(r, form[r].role))
    /\ Stage(r, {}, OldPermissions(r, form[r].role))
    /\ Continue(r, "cleared")
    /\ UNCHANGED seen

\* session.delete(role): the unit of work deletes the rows of role.users and
\* role.permissions as it finds them, ON DELETE CASCADE whatever is left.
DeleteRole(r) ==
    LET g == form[r].role
        old == {x \in db \cap RoleRows : x[2] = g}
        refs == {UserRoleRow(u, g) : u \in Users} \cup {RolePermRow(g, p) : p \in Perms} IN
    /\ kind[r] = "deleteRole" /\ stage[r] = "cleared"
    /\ ~Locked(r, {RoleRow(g, n) : n \in Names} \cup refs)
    /\ IF old = {} THEN RollBack(r, "error")
       ELSE Finish(r) /\ Stage(r, {}, old \cup (db \cap refs)) /\ UNCHANGED seen

-----------------------------------------------------------------------------
(***************************************************************************)
(* Editing a user: EditView with UserAdmin.                                *)
(***************************************************************************)

\* A superuser sets everything; another editor's privileged fields are dropped.
UserBegin(r) ==
    \E u \in Users, roles \in SUBSET Roles, perms \in SUBSET Perms,
       super \in BOOLEAN, privileged \in BOOLEAN :
        /\ ~privileged => roles = {} /\ ~super
        /\ Begin(r, "saveUser", [form[r] EXCEPT !.user = u, !.roles = roles,
                 !.perms = perms, !.super = super, !.privileged = privileged])
        /\ seen' = [seen EXCEPT ![r] = db \cap {SuperRow(u)}]

\* apply_m2m: every selected role that exists, and the current collection.
UserRoles(r) ==
    LET u == form[r].user IN
    /\ kind[r] = "saveUser" /\ stage[r] = "loaded"
    /\ seen' = [seen EXCEPT ![r] = @ \cup
           {x \in db \cap UserRoleRows : x[2] = u} \cup
           {x \in db \cap RoleRows : x[2] \in form[r].roles}]
    /\ Continue(r, "rolesRead")
    /\ UNCHANGED <<ins, del>>

\* The flush writes the difference between the selection and what was read.
UserFlush(r) ==
    LET u == form[r].user
        chosen == {UserRoleRow(u, g) : g \in {x \in form[r].roles : HasRole(seen[r], x)}}
        super == IF form[r].super THEN {SuperRow(u)} ELSE {}
        wanted == IF form[r].privileged THEN chosen \cup super ELSE seen[r]
        mine == UserRoleRows \cup SuperRows
        added == (wanted \ seen[r]) \cap mine
        removed == (seen[r] \ wanted) \cap mine
        roles == {x[3] : x \in added \cap UserRoleRows} IN
    /\ kind[r] = "saveUser" /\ stage[r] = "rolesRead"
    /\ ~Locked(r, added \cup removed) /\ ~RoleLocked(r, roles)
    /\ IF \/ added \cap db \cap UserRoleRows # {}
          \/ ~(removed \cap UserRoleRows \subseteq db)
          \/ \E g \in roles : ~HasRole(db, g)
       THEN RollBack(r, "error")
       ELSE Stage(r, added, removed) /\ Continue(r, "dispatched") /\ UNCHANGED seen

\* dispatch_model_change commits the session when it has somebody to notify.
DispatchCommit(r) ==
    /\ stage[r] = "dispatched"
    /\ ins[r] \cup del[r] # {}
    /\ Apply(r)
    /\ UNCHANGED stage

\* flush_pending_perm_ops.
UserPerms(r) ==
    LET u == form[r].user
        old == {x \in db \cap DirectRows : x[2] = u} IN
    /\ stage[r] = "dispatched"
    /\ ~Locked(r, old)
    /\ Stage(r, {DirectRow(u, p) : p \in form[r].perms}, old)
    /\ Finish(r)
    /\ UNCHANGED seen

-----------------------------------------------------------------------------
(***************************************************************************)
(* Checking a permission: resolve_user, then PermissionChecker.            *)
(***************************************************************************)

\* get_user loads the user and his roles: is_superuser and role_ids.
Snapshot(u) == {x \in db \cap (UserRoleRows \cup SuperRows) : x[2] = u}

CheckBegin(r) ==
    \E u \in Users, p \in Perms :
        /\ Begin(r, "check", [form[r] EXCEPT !.user = u, !.perm = p])
        /\ seen' = [seen EXCEPT ![r] = Snapshot(u)]

IsSuper(r) == SuperRow(form[r].user) \in seen[r]

\* Mutant: the join forgets the roles of the user.
PermissionsOfAll(r) == db \cap RolePermRows

\* _load_role_permissions: the permissions of the roles in the snapshot.
RolePermissions(r) ==
    {x \in db \cap RolePermRows : UserRoleRow(form[r].user, x[2]) \in seen[r]}

CheckRoles(r) ==
    /\ kind[r] = "check" /\ stage[r] = "loaded"
    /\ ~IsSuper(r)
    /\ seen' = [seen EXCEPT ![r] = @ \cup RolePermissions(r)]
    /\ Continue(r, "rolesRead")
    /\ UNCHANGED <<ins, del>>

\* _load_direct_permissions.
DirectPermissions(r) == {x \in db \cap DirectRows : x[2] = form[r].user}

\* has_permission: a role or a direct permission grants it; a superuser needs
\* neither.
HasPermission(r) ==
    \/ IsSuper(r)
    \/ \E x \in (seen[r] \cap RolePermRows) \cup DirectPermissions(r) : x[3] = form[r].perm

\* require_permission and require_api_permission let the request in, or 403.
CheckAnswer(r) ==
    /\ kind[r] = "check"
    /\ stage[r] = "rolesRead" \/ (stage[r] = "loaded" /\ IsSuper(r))
    /\ stage' = [stage EXCEPT ![r] = "done"]
    /\ answer' = [answer EXCEPT ![r] = IF HasPermission(r) THEN "granted" ELSE "denied"]
    /\ UNCHANGED <<db, kind, form, seen, ins, del, history>>

-----------------------------------------------------------------------------
Begins(r) ==
    \/ CreateBegin(r) \/ RenameBegin(r) \/ SaveBegin(r) \/ DeleteBegin(r)
    \/ UserBegin(r) \/ CheckBegin(r)

Continues(r) ==
    \/ CreateInsert(r) \/ Rename(r) \/ SaveClear(r) \/ SaveInsert(r)
    \/ DeleteCount(r) \/ DeleteClear(r) \/ DeleteRole(r)
    \/ UserRoles(r) \/ UserFlush(r) \/ DispatchCommit(r) \/ UserPerms(r)
    \/ CheckRoles(r) \/ CheckAnswer(r)
    \/ Commit(r) \/ FailCommit(r)

Next == \E r \in Requests : Begins(r) \/ Continues(r)

Spec == Init /\ [][Next]_vars

-----------------------------------------------------------------------------
TypeOK ==
    /\ db \subseteq Rows
    /\ kind \in [Requests -> Kinds]
    /\ stage \in [Requests -> Stages]
    /\ form \in [Requests -> Forms]
    /\ seen \in [Requests -> SUBSET Rows]
    /\ ins \in [Requests -> SUBSET Rows]
    /\ del \in [Requests -> SUBSET Rows]
    /\ answer \in [Requests -> {"none", "ok", "error", "refused", "granted", "denied"}]
    /\ held \in [Requests -> [some : BOOLEAN, all : BOOLEAN]]
    /\ commits \in [Requests -> 0 .. 2]
    /\ giver \in [UserRoleRows -> Requests \cup {None}]
    /\ lost \subseteq Requests \X (Requests \cup {None})
    /\ lastSave \in [Roles -> Requests \cup {None}]
    /\ overlap \subseteq Requests \X Requests

\* "Cannot delete role. n user(s) are still assigned.": the count is taken
\* before the role is deleted, and the deletion takes the assignments along.
\* A user loses a role this way only when whoever gave it to him was in
\* service at the same time as the deletion.
LostRolesNeedOverlap == lost \subseteq overlap

\* A role has the permissions its last editor selected, and beyond these only
\* permissions selected by editors he overlapped with: role_save_view deletes
\* the rows it sees and inserts its own, and never loses one of its own.
PermissionsAreTheLastSelection ==
    \A g \in Roles :
        (HasRole(db, g) /\ lastSave[g] # None) =>
            LET s == lastSave[g]
                now == {p \in Perms : RolePermRow(g, p) \in db}
                rivals == {q \in Requests : <<q, s>> \in overlap
                                /\ kind[q] \in {"saveRole", "createRole"}} IN
            /\ form[s].perms \subseteq now
            /\ now \subseteq form[s].perms \cup UNION {form[q].perms : q \in rivals}

\* The checker reads the user's roles, their permissions and the direct ones one
\* after the other.  Without a commit in between its answer is the committed
\* truth; with one, whoever is let in held the permission at some moment, and
\* only two commits can let in a user who never held it.
AnswersAreExplained ==
    \A r \in Requests :
        /\ answer[r] = "granted" => held[r].some \/ commits[r] = 2
        /\ answer[r] = "denied" => ~held[r].all \/ commits[r] > 0

\* An editor meets an internal error only when somebody else was editing at the
\* same time, or when he renamed a role: update_role does not look up whether
\* the name is taken.
ErrorsNeedOverlap ==
    \A r \in Requests :
        answer[r] = "error" =>
            \/ \E q \in Requests : <<r, q>> \in overlap
            \/ kind[r] = "renameRole"

\* Editors who follow each other do not hurt each other: a role given is lost to
\* a deletion, and an editor meets an internal error, only by overlapping.
EditorsClashOnlyByOverlap == TypeOK /\ LostRolesNeedOverlap /\ ErrorsNeedOverlap
=============================================================================
