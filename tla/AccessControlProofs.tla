------------------------ MODULE AccessControlProofs ------------------------
(***************************************************************************)
(* Proofs about AccessControl, for any number of requests, users, roles,   *)
(* names and permissions: editors clash only by overlapping, a role has    *)
(* the permissions its last editor selected, and the answers of the        *)
(* permission check are explained by what was committed around it.         *)
(*                                                                         *)
(* The rows stay opaque: the proofs use only that two rows are the same    *)
(* when they say the same (RowsApart, RowFields, RowSets).  Each action is *)
(* first reduced to what it does to its own request (the Local lemmas) and *)
(* to one of three kinds of step: a request starts, goes on, or commits    *)
(* (StepKinds); the parts of the invariant that relate requests and the    *)
(* database are then proved by these kinds.                                *)
(***************************************************************************)
EXTENDS AccessControl, TLAPS

-----------------------------------------------------------------------------
(***************************************************************************)
(* The strengthening.  What a request holds back in its transaction, and   *)
(* how far it may be behind the database.                                  *)
(***************************************************************************)

\* The fields an endpoint reads are there, and each stage has its endpoints.
Formed(r) ==
    /\ kind[r] \in {"renameRole", "saveRole", "deleteRole"} => form[r].role \in Roles
    /\ kind[r] \in {"createRole", "renameRole"} => form[r].name \in Names
    /\ kind[r] = "createRole" /\ stage[r] = "flushed" => form[r].role \in Roles
    /\ kind[r] \in {"saveUser", "check"} => form[r].user \in Users
    /\ kind[r] = "check" => form[r].perm \in Perms
    /\ stage[r] = "idle" <=> kind[r] = "idle"
    /\ stage[r] = "idle" => answer[r] = "none"
    /\ stage[r] = "counted" => kind[r] = "deleteRole"
    /\ stage[r] = "cleared" => kind[r] \in {"saveRole", "deleteRole"}
    /\ stage[r] = "rolesRead" => kind[r] \in {"saveUser", "check"}
    /\ stage[r] = "dispatched" => kind[r] = "saveUser"
    /\ stage[r] = "flushed" => kind[r] # "check"

FormInv == \A r \in Requests : Formed(r)

\* What the open transaction of each endpoint has written.
Staged(r) ==
    /\ stage[r] \in {"idle", "loaded", "counted", "rolesRead", "done"} =>
         ins[r] = {} /\ del[r] = {}
    /\ \A g \in Roles, n \in Names :
         /\ RoleRow(g, n) \in ins[r] =>
              /\ kind[r] \in {"createRole", "renameRole"} /\ stage[r] = "flushed"
              /\ g = form[r].role /\ n = form[r].name
         /\ RoleRow(g, n) \in del[r] =>
              /\ kind[r] \in {"renameRole", "deleteRole"} /\ stage[r] = "flushed"
              /\ g = form[r].role
              /\ kind[r] = "renameRole" => RoleRow(g, form[r].name) \in ins[r]
    /\ \A g \in Roles, p \in Perms :
         /\ RolePermRow(g, p) \in ins[r] =>
              /\ kind[r] \in {"createRole", "saveRole"} /\ stage[r] = "flushed"
              /\ g = form[r].role /\ p \in form[r].perms
         /\ RolePermRow(g, p) \in del[r] =>
              kind[r] \in {"saveRole", "deleteRole"} /\ g = form[r].role
    /\ \A u \in Users, g \in Roles :
         /\ UserRoleRow(u, g) \in ins[r] => kind[r] = "saveUser"
         /\ UserRoleRow(u, g) \in del[r] =>
              \/ kind[r] = "saveUser"
              \/ kind[r] = "deleteRole" /\ g = form[r].role /\ stage[r] = "flushed"
    /\ kind[r] # "saveUser" =>
         (ins[r] \cup del[r]) \cap (DirectRows \cup SuperRows) = {}
    /\ kind[r] = "createRole" /\ stage[r] = "flushed" =>
         RoleRow(form[r].role, form[r].name) \in ins[r]
    /\ kind[r] \in {"createRole", "saveRole"} /\ stage[r] = "flushed" =>
         \A p \in form[r].perms : RolePermRow(form[r].role, p) \in ins[r]

StagedInv == \A r \in Requests : Staged(r)

\* Requests in service together are on record as overlapping.
OverlapInv ==
    \A r, q \in Requests :
        r # q /\ InService(r) /\ InService(q) => <<r, q>> \in overlap

\* The locks keep the permissions of a role and the role together: whoever
\* writes a role, or permissions of it, finds it there until he commits, a
\* deletion takes along everything that is there, and an id is one role's.
PermsHaveRole ==
    \A g \in Roles, p \in Perms : RolePermRow(g, p) \in db => HasRole(db, g)

Grounded(r) ==
    stage[r] = "flushed" =>
        /\ kind[r] \in {"saveRole", "renameRole"} /\ ins[r] # {} =>
             HasRole(db, form[r].role)
        /\ kind[r] = "createRole" => ~HasRole(db, form[r].role)
        /\ kind[r] = "deleteRole" =>
             /\ \E n \in Names : RoleRow(form[r].role, n) \in del[r]
             /\ \A n \in Names : RoleRow(form[r].role, n) \in db =>
                  RoleRow(form[r].role, n) \in del[r]
             /\ \A p \in Perms : RolePermRow(form[r].role, p) \in db =>
                  RolePermRow(form[r].role, p) \in del[r]

Clash(d, r) ==
    /\ d # r /\ stage[d] = "flushed" /\ stage[r] = "flushed"
    /\ form[d].role = form[r].role
    /\ kind[d] \in {"createRole", "deleteRole"}
    /\ kind[r] \in {"createRole", "renameRole", "saveRole"}
    /\ ins[r] # {}

RoleInv ==
    /\ PermsHaveRole
    /\ \A r \in Requests : Grounded(r)
    /\ \A d, r \in Requests : ~Clash(d, r)

\* Nobody was in service at the same time.
Alone(r) == \A q \in Requests : <<r, q>> \notin overlap

\* Whoever is alone finds the database as he read it.
Settled(r) ==
    /\ kind[r] = "createRole" /\ stage[r] = "loaded" => ~NameTaken(db, form[r].name)
    /\ kind[r] \in {"saveRole", "deleteRole"} /\ stage[r] \in {"loaded", "counted", "cleared"}
         => HasRole(db, form[r].role)
    /\ kind[r] = "saveRole" /\ stage[r] = "cleared" =>
         \A p \in Perms : RolePermRow(form[r].role, p) \in db =>
            RolePermRow(form[r].role, p) \in del[r]
    /\ kind[r] = "saveUser" /\ stage[r] = "loaded" =>
         seen[r] \cap (RoleRows \cup UserRoleRows) = {}
    /\ kind[r] = "saveUser" /\ stage[r] = "rolesRead" =>
         /\ seen[r] \cap RoleRows \subseteq db
         /\ seen[r] \cap UserRoleRows \subseteq db
         /\ \A g \in Roles : UserRoleRow(form[r].user, g) \in db =>
              UserRoleRow(form[r].user, g) \in seen[r]

AloneInv == \A r \in Requests : Alone(r) => Settled(r)

\* Since a deletion counted, only requests in service with it assign the role.
Given(r) ==
    kind[r] = "deleteRole" /\ stage[r] \in {"counted", "cleared", "flushed"} =>
        \A u \in Users : LET x == UserRoleRow(u, form[r].role) IN
            x \in db \cup del[r] => <<r, giver[x]>> \in overlap

GivenInv == \A r \in Requests : Given(r)

\* The last editor of a role is done; what a later editor does not remove
\* comes from one in service with him.
LastSaved(g) ==
    lastSave[g] # None =>
        stage[lastSave[g]] = "done" /\ kind[lastSave[g]] \in {"saveRole", "createRole"}

Rivaled(s) ==
    kind[s] = "saveRole" /\ stage[s] \in {"cleared", "flushed"} =>
        \A p \in Perms : RolePermRow(form[s].role, p) \in db \ del[s] =>
            \E q \in Requests : /\ <<q, s>> \in overlap
                                /\ kind[q] \in {"saveRole", "createRole"}
                                /\ p \in form[q].perms

RivalInv == (\A g \in Roles : LastSaved(g)) /\ (\A s \in Requests : Rivaled(s))

\* A check knows the truth of some moment, as long as at most one commit fell
\* between its reads: no commit both takes a role from a user and gives the
\* role a permission.
Checked(r) ==
    kind[r] = "check" /\ InService(r) =>
        LET u == form[r].user
            p == form[r].perm IN
        /\ Holds(db, u, p) => held[r].some
        /\ ~Holds(db, u, p) => ~held[r].all
        /\ SuperRow(u) \in seen[r] => held[r].some
        /\ commits[r] = 0 =>
             /\ SuperRow(u) \in db => SuperRow(u) \in seen[r]
             /\ \A g \in Roles : UserRoleRow(u, g) \in seen[r] <=> UserRoleRow(u, g) \in db
             /\ stage[r] = "rolesRead" =>
                  \A g \in Roles : UserRoleRow(u, g) \in db /\ RolePermRow(g, p) \in db =>
                     RolePermRow(g, p) \in seen[r]
        /\ commits[r] < 2 =>
             \A g \in Roles :
                /\ stage[r] = "loaded" /\ UserRoleRow(u, g) \in seen[r]
                   /\ RolePermRow(g, p) \in db => held[r].some
                /\ stage[r] = "rolesRead" /\ RolePermRow(g, p) \in seen[r] => held[r].some
        /\ stage[r] = "loaded" => \A g \in Roles : RolePermRow(g, p) \notin seen[r]

CheckInv == \A r \in Requests : Checked(r)

-----------------------------------------------------------------------------
(***************************************************************************)
(* Rows: what a row says, and that two rows are the same only when they    *)
(* say the same.                                                           *)
(***************************************************************************)

LEMMA RowsApart ==
    /\ \A g, n, h, m : RoleRow(g, n) = RoleRow(h, m) => g = h /\ n = m
    /\ \A g, n, h, m : RolePermRow(g, n) = RolePermRow(h, m) => g = h /\ n = m
    /\ \A g, n, h, m : UserRoleRow(g, n) = UserRoleRow(h, m) => g = h /\ n = m
    /\ \A g, n, h, m : DirectRow(g, n) = DirectRow(h, m) => g = h /\ n = m
    /\ \A g, h : SuperRow(g) = SuperRow(h) => g = h
    /\ \A g, n, h, m : RoleRow(g, n) # RolePermRow(h, m)
    /\ \A g, n, h, m : RoleRow(g, n) # UserRoleRow(h, m)
    /\ \A g, n, h, m : RoleRow(g, n) # DirectRow(h, m)
    /\ \A g, n, h : RoleRow(g, n) # SuperRow(h)
    /\ \A g, n, h, m : RolePermRow(g, n) # UserRoleRow(h, m)
    /\ \A g, n, h, m : RolePermRow(g, n) # DirectRow(h, m)
    /\ \A g, n, h : RolePermRow(g, n) # SuperRow(h)
    /\ \A g, n, h, m : UserRoleRow(g, n) # DirectRow(h, m)
    /\ \A g, n, h : UserRoleRow(g, n) # SuperRow(h)
    /\ \A g, n, h : DirectRow(g, n) # SuperRow(h)
BY DEF RoleRow, RolePermRow, UserRoleRow, DirectRow, SuperRow

LEMMA RowFields ==
    /\ \A g, n : RoleRow(g, n)[2] = g /\ RoleRow(g, n)[3] = n
    /\ \A g, n : RolePermRow(g, n)[2] = g /\ RolePermRow(g, n)[3] = n
    /\ \A g, n : UserRoleRow(g, n)[2] = g /\ UserRoleRow(g, n)[3] = n
    /\ \A g, n : DirectRow(g, n)[2] = g /\ DirectRow(g, n)[3] = n
    /\ \A g : SuperRow(g)[2] = g
BY DEF RoleRow, RolePermRow, UserRoleRow, DirectRow, SuperRow

LEMMA RowSets ==
    /\ \A g \in Roles, n \in Names : RoleRow(g, n) \in RoleRows
    /\ \A g \in Roles, p \in Perms : RolePermRow(g, p) \in RolePermRows
    /\ \A u \in Users, g \in Roles : UserRoleRow(u, g) \in UserRoleRows
    /\ \A u \in Users, p \in Perms : DirectRow(u, p) \in DirectRows
    /\ \A u \in Users : SuperRow(u) \in SuperRows
    /\ \A x \in RoleRows : \E g \in Roles, n \in Names : x = RoleRow(g, n)
    /\ \A x \in RolePermRows : \E g \in Roles, p \in Perms : x = RolePermRow(g, p)
    /\ \A x \in UserRoleRows : \E u \in Users, g \in Roles : x = UserRoleRow(u, g)
    /\ \A x \in DirectRows : \E u \in Users, p \in Perms : x = DirectRow(u, p)
    /\ \A x \in SuperRows : \E u \in Users : x = SuperRow(u)
BY DEF RoleRows, RolePermRows, UserRoleRows, DirectRows, SuperRows

LEMMA RowKinds ==
    /\ RoleRows \subseteq Rows /\ RolePermRows \subseteq Rows
    /\ UserRoleRows \subseteq Rows /\ DirectRows \subseteq Rows
    /\ SuperRows \subseteq Rows
    /\ Rows \subseteq RoleRows \cup RolePermRows \cup UserRoleRows
                      \cup DirectRows \cup SuperRows
BY DEF Rows

-----------------------------------------------------------------------------
(***************************************************************************)
(* Types.  The building blocks of the actions keep them, so the actions    *)
(* do.                                                                     *)
(***************************************************************************)

LEMMA TypeInit == Init => TypeOK
<1> SUFFICES ASSUME Init PROVE TypeOK
    OBVIOUS
<1>1. db \subseteq Rows
    <2>1. PICK perms \in SUBSET RolePermRows, users \in SUBSET UserRoleRows,
                direct \in SUBSET DirectRows, first \in Roles, n \in Names :
            db = {RoleRow(first, n)} \cup perms \cup users \cup direct
        BY DEF Init
    <2> QED BY <2>1, RowKinds, RowSets
<1>2. form \in [Requests -> Forms]
    BY DEF Init, Forms
<1>3. held \in [Requests -> [some : BOOLEAN, all : BOOLEAN]]
    BY DEF Init
<1>4. /\ kind \in [Requests -> Kinds] /\ stage \in [Requests -> Stages]
      /\ seen \in [Requests -> SUBSET Rows] /\ ins \in [Requests -> SUBSET Rows]
      /\ del \in [Requests -> SUBSET Rows]
      /\ answer \in [Requests -> {"none", "ok", "error", "refused", "granted", "denied"}]
    BY DEF Init, Kinds, Stages
<1>5. /\ commits \in [Requests -> 0 .. 2]
      /\ giver \in [UserRoleRows -> Requests \cup {None}]
      /\ lost \subseteq Requests \X (Requests \cup {None})
      /\ lastSave \in [Roles -> Requests \cup {None}]
      /\ overlap \subseteq Requests \X Requests
    BY DEF Init
<1> QED BY <1>1, <1>2, <1>3, <1>4, <1>5 DEF TypeOK

LEMMA TypeBegin ==
    ASSUME TypeOK, NEW r \in Requests, NEW k \in Kinds, NEW f \in Forms,
           Begin(r, k, f), seen' \in [Requests -> SUBSET Rows]
    PROVE  TypeOK'
<1>1. /\ kind' \in [Requests -> Kinds] /\ stage' \in [Requests -> Stages]
      /\ form' \in [Requests -> Forms]
    BY DEF TypeOK, Begin, Stages
<1>2. held' \in [Requests -> [some : BOOLEAN, all : BOOLEAN]]
    <2>1. [some |-> Holds(db, f.user, f.perm), all |-> Holds(db, f.user, f.perm)]
              \in [some : BOOLEAN, all : BOOLEAN]
        BY DEF Holds
    <2> QED BY <2>1 DEF TypeOK, Begin
<1>3. overlap' \subseteq Requests \X Requests
    BY DEF TypeOK, Begin
<1> QED BY <1>1, <1>2, <1>3 DEF TypeOK, Begin

LEMMA TypeContinue ==
    ASSUME TypeOK, NEW r \in Requests, NEW s \in Stages, Continue(r, s),
           seen' \in [Requests -> SUBSET Rows],
           ins' \in [Requests -> SUBSET Rows], del' \in [Requests -> SUBSET Rows]
    PROVE  TypeOK'
BY DEF TypeOK, Continue, history

LEMMA TypeFinish ==
    ASSUME TypeOK, NEW r \in Requests, Finish(r),
           seen' \in [Requests -> SUBSET Rows],
           ins' \in [Requests -> SUBSET Rows], del' \in [Requests -> SUBSET Rows]
    PROVE  TypeOK'
BY DEF TypeOK, Finish, history, Stages

LEMMA TypeRollBack ==
    ASSUME TypeOK, NEW r \in Requests,
           NEW a \in {"none", "ok", "error", "refused", "granted", "denied"},
           RollBack(r, a)
    PROVE  TypeOK'
BY DEF TypeOK, RollBack, history, Stages

LEMMA TypeStage ==
    ASSUME TypeOK, NEW r \in Requests, NEW added \in SUBSET Rows,
           NEW removed \in SUBSET Rows, Stage(r, added, removed)
    PROVE  ins' \in [Requests -> SUBSET Rows] /\ del' \in [Requests -> SUBSET Rows]
BY DEF TypeOK, Stage

LEMMA TypeApply ==
    ASSUME TypeOK, NEW r \in Requests, Apply(r), stage' \in [Requests -> Stages],
           kind[r] \in {"saveRole", "createRole"} => form[r].role \in Roles
    PROVE  TypeOK'
<1>1. db' \subseteq Rows /\ ins' \in [Requests -> SUBSET Rows]
          /\ del' \in [Requests -> SUBSET Rows]
    BY DEF TypeOK, Apply, After
<1>2. held' \in [Requests -> [some : BOOLEAN, all : BOOLEAN]]
    <2>1. \A q \in Requests :
            [some |-> held[q].some \/ Holds(After(r), form[q].user, form[q].perm),
             all  |-> held[q].all /\ Holds(After(r), form[q].user, form[q].perm)]
               \in [some : BOOLEAN, all : BOOLEAN]
        OBVIOUS
    <2> QED BY <2>1 DEF TypeOK, Apply
<1>3. commits' \in [Requests -> 0 .. 2]
    BY DEF TypeOK, Apply
<1>4. giver' \in [UserRoleRows -> Requests \cup {None}]
    BY DEF TypeOK, Apply
<1>5. lost' \subseteq Requests \X (Requests \cup {None})
    BY DEF TypeOK, Apply
<1>6. lastSave' \in [Roles -> Requests \cup {None}]
    BY DEF TypeOK, Apply
<1> QED BY <1>1, <1>2, <1>3, <1>4, <1>5, <1>6 DEF TypeOK, Apply

-----------------------------------------------------------------------------
(***************************************************************************)
(* What a step leaves alone: the other requests, and all that a commit     *)
(* changes unless it is one.                                               *)
(***************************************************************************)
Still(q) ==
    /\ kind'[q] = kind[q] /\ stage'[q] = stage[q] /\ form'[q] = form[q]
    /\ seen'[q] = seen[q] /\ ins'[q] = ins[q] /\ del'[q] = del[q]
    /\ answer'[q] = answer[q]

LEMMA BeginStill ==
    ASSUME TypeOK, NEW r \in Requests, NEW k, NEW f, Begin(r, k, f),
           \A q \in Requests \ {r} : seen'[q] = seen[q],
           NEW q \in Requests \ {r}
    PROVE  Still(q)
BY DEF TypeOK, Begin, Still

LEMMA OthersStill ==
    ASSUME TypeOK, NEW r \in Requests, Begins(r) \/ Continues(r),
           NEW q \in Requests \ {r}
    PROVE  Still(q)
<1>1. CASE CreateBegin(r)
    BY <1>1, BeginStill DEF CreateBegin, TypeOK
<1>2. CASE RenameBegin(r)
    BY <1>2, BeginStill DEF RenameBegin, TypeOK
<1>3. CASE SaveBegin(r)
    BY <1>3, BeginStill DEF SaveBegin, TypeOK
<1>4. CASE DeleteBegin(r)
    BY <1>4, BeginStill DEF DeleteBegin, TypeOK
<1>5. CASE UserBegin(r)
    BY <1>5, BeginStill DEF UserBegin, TypeOK
<1>6. CASE CheckBegin(r)
    BY <1>6, BeginStill DEF CheckBegin, TypeOK
<1>7. CASE CreateInsert(r)
    BY <1>7 DEF CreateInsert, RollBack, Stage, TypeOK, Still
<1>8. CASE Rename(r)
    BY <1>8 DEF Rename, RollBack, Finish, Stage, TypeOK, Still
<1>9. CASE SaveClear(r)
    BY <1>9 DEF SaveClear, Continue, Stage, TypeOK, Still
<1>10. CASE SaveInsert(r)
    BY <1>10 DEF SaveInsert, RollBack, Finish, Stage, TypeOK, Still
<1>11. CASE DeleteCount(r)
    BY <1>11 DEF DeleteCount, RollBack, Continue, TypeOK, Still
<1>12. CASE DeleteClear(r)
    BY <1>12 DEF DeleteClear, Continue, Stage, TypeOK, Still
<1>13. CASE DeleteRole(r)
    BY <1>13 DEF DeleteRole, RollBack, Finish, Stage, TypeOK, Still
<1>14. CASE UserRoles(r)
    BY <1>14 DEF UserRoles, Continue, TypeOK, Still
<1>15. CASE UserFlush(r)
    BY <1>15 DEF UserFlush, RollBack, Continue, Stage, TypeOK, Still
<1>16. CASE DispatchCommit(r)
    BY <1>16 DEF DispatchCommit, Apply, TypeOK, Still
<1>17. CASE UserPerms(r)
    BY <1>17 DEF UserPerms, Finish, Stage, TypeOK, Still
<1>18. CASE CheckRoles(r)
    BY <1>18 DEF CheckRoles, Continue, TypeOK, Still
<1>19. CASE CheckAnswer(r)
    BY <1>19 DEF CheckAnswer, TypeOK, Still
<1>20. CASE Commit(r)
    BY <1>20 DEF Commit, Apply, TypeOK, Still
<1>21. CASE FailCommit(r)
    BY <1>21 DEF FailCommit, RollBack, TypeOK, Still
<1> QED
    BY <1>1, <1>2, <1>3, <1>4, <1>5, <1>6, <1>7, <1>8, <1>9, <1>10, <1>11, <1>12,
       <1>13, <1>14, <1>15, <1>16, <1>17, <1>18, <1>19, <1>20, <1>21
       DEF Begins, Continues

\* A request begins, goes on, or commits.
Starts(r) ==
    /\ stage[r] = "idle" /\ stage'[r] = "loaded"
    /\ ins' = ins /\ del' = del /\ answer' = answer
    /\ overlap' = overlap \cup ({r} \X {q \in Requests : InService(q)})
                          \cup ({q \in Requests : InService(q)} \X {r})
    /\ UNCHANGED <<db, commits, giver, lost, lastSave>>
    /\ \A q \in Requests \ {r} : held'[q] = held[q]

GoesOn(r) == InService(r) /\ UNCHANGED <<db, history>>

Commits(r) ==
    /\ Apply(r)
    /\ \/ stage[r] = "flushed" /\ stage'[r] = "done"
       \/ stage[r] = "dispatched" /\ stage'[r] = "dispatched"

LEMMA StepKinds ==
    ASSUME TypeOK, NEW r \in Requests, Begins(r) \/ Continues(r)
    PROVE  Starts(r) \/ GoesOn(r) \/ Commits(r)
<1>1. ASSUME NEW k, NEW f, Begin(r, k, f)
      PROVE  Starts(r)
    BY <1>1 DEF Begin, Starts, TypeOK
<1>2. CASE Begins(r)
    <2>1. CASE CreateBegin(r)
        BY <1>1, <2>1 DEF CreateBegin
    <2>2. CASE RenameBegin(r)
        BY <1>1, <2>2 DEF RenameBegin
    <2>3. CASE SaveBegin(r)
        BY <1>1, <2>3 DEF SaveBegin
    <2>4. CASE DeleteBegin(r)
        BY <1>1, <2>4 DEF DeleteBegin
    <2>5. CASE UserBegin(r)
        BY <1>1, <2>5 DEF UserBegin
    <2>6. CASE CheckBegin(r)
        BY <1>1, <2>6 DEF CheckBegin
    <2> QED BY <1>2, <2>1, <2>2, <2>3, <2>4, <2>5, <2>6 DEF Begins
<1>3. CASE DispatchCommit(r) \/ Commit(r)
    BY <1>3 DEF DispatchCommit, Commit, Commits, TypeOK
<1>4. CASE CreateInsert(r) \/ Rename(r) \/ SaveClear(r) \/ SaveInsert(r)
    BY <1>4 DEF CreateInsert, Rename, SaveClear, SaveInsert, RollBack, Finish, Continue,
                GoesOn, InService
<1>5. CASE DeleteCount(r) \/ DeleteClear(r) \/ DeleteRole(r)
    BY <1>5 DEF DeleteCount, DeleteClear, DeleteRole, RollBack, Finish, Continue,
                GoesOn, InService
<1>6. CASE UserRoles(r) \/ UserFlush(r) \/ UserPerms(r)
    BY <1>6 DEF UserRoles, UserFlush, UserPerms, RollBack, Finish, Continue,
                GoesOn, InService
<1>7. CASE CheckRoles(r) \/ CheckAnswer(r) \/ FailCommit(r)
    BY <1>7 DEF CheckRoles, CheckAnswer, FailCommit, RollBack, Continue,
                GoesOn, InService
<1> QED BY <1>2, <1>3, <1>4, <1>5, <1>6, <1>7 DEF Continues

LEMMA KindKept ==
    ASSUME NEW r \in Requests, Continues(r)
    PROVE  kind' = kind
BY DEF Continues, CreateInsert, Rename, SaveClear, SaveInsert, DeleteCount, DeleteClear,
       DeleteRole, UserRoles, UserFlush, DispatchCommit, UserPerms, CheckRoles, CheckAnswer,
       Commit, FailCommit, Continue, Finish, RollBack, Apply

-----------------------------------------------------------------------------
(***************************************************************************)
(* What each action does to its own request.                               *)
(***************************************************************************)

LEMMA CreateBegins ==
    ASSUME TypeOK, NEW r \in Requests, CreateBegin(r)
    PROVE  \E f \in Forms : /\ Begin(r, "createRole", f)
                            /\ f.name \in Names /\ NameIsFree(f.name)
                            /\ UNCHANGED seen
<1>1. PICK o \in Forms : o = form[r]
    BY DEF TypeOK
<1>2. PICK n \in Names, perms \in SUBSET Perms :
         /\ Begin(r, "createRole", [o EXCEPT !.name = n, !.perms = perms])
         /\ NameIsFree(n) /\ UNCHANGED seen
    BY <1>1, Zenon DEF CreateBegin
<1> DEFINE f == [o EXCEPT !.name = n, !.perms = perms]
<1>3. f \in Forms /\ f.name = n
    BY DEF Forms
<1>4. Begin(r, "createRole", f)
    BY <1>2
<1> HIDE DEF f
<1> QED BY <1>2, <1>3, <1>4

LEMMA RenameBegins ==
    ASSUME TypeOK, NEW r \in Requests, RenameBegin(r)
    PROVE  \E f \in Forms : /\ Begin(r, "renameRole", f)
                            /\ f.role \in Roles /\ f.name \in Names /\ HasRole(db, f.role)
                            /\ seen' = [seen EXCEPT ![r] = {x \in db \cap RoleRows : x[2] = f.role}]
<1>1. PICK o \in Forms : o = form[r]
    BY DEF TypeOK
<1>2. PICK g \in Roles, n \in Names :
         /\ Begin(r, "renameRole", [o EXCEPT !.role = g, !.name = n])
         /\ HasRole(db, g) /\ seen' = [seen EXCEPT ![r] = {x \in db \cap RoleRows : x[2] = g}]
    BY <1>1, Zenon DEF RenameBegin
<1> DEFINE f == [o EXCEPT !.role = g, !.name = n]
<1>3. f \in Forms /\ f.role = g /\ f.name = n
    BY DEF Forms
<1>4. Begin(r, "renameRole", f)
    BY <1>2
<1> HIDE DEF f
<1> QED BY <1>2, <1>3, <1>4

LEMMA SaveBegins ==
    ASSUME TypeOK, NEW r \in Requests, SaveBegin(r)
    PROVE  \E f \in Forms : /\ Begin(r, "saveRole", f)
                            /\ f.role \in Roles /\ HasRole(db, f.role)
                            /\ UNCHANGED seen
<1>1. PICK o \in Forms : o = form[r]
    BY DEF TypeOK
<1>2. PICK g \in Roles, perms \in SUBSET Perms :
         /\ Begin(r, "saveRole", [o EXCEPT !.role = g, !.perms = perms])
         /\ HasRole(db, g) /\ UNCHANGED seen
    BY <1>1, Zenon DEF SaveBegin
<1> DEFINE f == [o EXCEPT !.role = g, !.perms = perms]
<1>3. f \in Forms /\ f.role = g
    BY DEF Forms
<1>4. Begin(r, "saveRole", f)
    BY <1>2
<1> HIDE DEF f
<1> QED BY <1>2, <1>3, <1>4

LEMMA DeleteBegins ==
    ASSUME TypeOK, NEW r \in Requests, DeleteBegin(r)
    PROVE  \E f \in Forms : /\ Begin(r, "deleteRole", f)
                            /\ f.role \in Roles /\ HasRole(db, f.role)
                            /\ UNCHANGED seen
<1>1. PICK o \in Forms : o = form[r]
    BY DEF TypeOK
<1>2. PICK g \in Roles :
         /\ Begin(r, "deleteRole", [o EXCEPT !.role = g])
         /\ HasRole(db, g) /\ UNCHANGED seen
    BY <1>1, Zenon DEF DeleteBegin
<1> DEFINE f == [o EXCEPT !.role = g]
<1>3. f \in Forms /\ f.role = g
    BY DEF Forms
<1>4. Begin(r, "deleteRole", f)
    BY <1>2
<1> HIDE DEF f
<1> QED BY <1>2, <1>3, <1>4

LEMMA UserBegins ==
    ASSUME TypeOK, NEW r \in Requests, UserBegin(r)
    PROVE  \E f \in Forms : /\ Begin(r, "saveUser", f)
                            /\ f.user \in Users
                            /\ seen' = [seen EXCEPT ![r] = db \cap {SuperRow(f.user)}]
<1>1. PICK o \in Forms : o = form[r]
    BY DEF TypeOK
<1>2. PICK u \in Users, roles \in SUBSET Roles, perms \in SUBSET Perms,
           super \in BOOLEAN, privileged \in BOOLEAN :
         /\ Begin(r, "saveUser", [o EXCEPT !.user = u, !.roles = roles, !.perms = perms,
                      !.super = super, !.privileged = privileged])
         /\ seen' = [seen EXCEPT ![r] = db \cap {SuperRow(u)}]
    BY <1>1, Zenon DEF UserBegin
<1> DEFINE f == [o EXCEPT !.user = u, !.roles = roles, !.perms = perms,
                      !.super = super, !.privileged = privileged]
<1>3. f \in Forms /\ f.user = u
    BY DEF Forms
<1>4. Begin(r, "saveUser", f)
    BY <1>2
<1> HIDE DEF f
<1> QED BY <1>2, <1>3, <1>4

LEMMA CheckBegins ==
    ASSUME TypeOK, NEW r \in Requests, CheckBegin(r)
    PROVE  \E f \in Forms : /\ Begin(r, "check", f)
                            /\ f.user \in Users /\ f.perm \in Perms
                            /\ seen' = [seen EXCEPT ![r] = Snapshot(f.user)]
<1>1. PICK o \in Forms : o = form[r]
    BY DEF TypeOK
<1>2. PICK u \in Users, p \in Perms :
         /\ Begin(r, "check", [o EXCEPT !.user = u, !.perm = p])
         /\ seen' = [seen EXCEPT ![r] = Snapshot(u)]
    BY <1>1, Zenon DEF CheckBegin
<1> DEFINE f == [o EXCEPT !.user = u, !.perm = p]
<1>3. f \in Forms /\ f.user = u /\ f.perm = p
    BY DEF Forms
<1>4. Begin(r, "check", f)
    BY <1>2
<1> HIDE DEF f
<1> QED BY <1>2, <1>3, <1>4

Local(r) == TypeOK /\ Formed(r) /\ Staged(r)

LEMMA BeginLocal ==
    ASSUME TypeOK, FormInv, StagedInv, NEW r \in Requests, NEW k, NEW f, Begin(r, k, f)
    PROVE  /\ stage[r] = "idle" /\ stage'[r] = "loaded" /\ kind'[r] = k
           /\ form'[r] = f /\ ins'[r] = {} /\ del'[r] = {} /\ answer'[r] = answer[r]
           /\ Staged(r)'
<1>1. Staged(r)
    BY DEF StagedInv
<1>2. ins[r] = {} /\ del[r] = {}
    BY <1>1 DEF Staged, Begin
<1>3. /\ stage[r] = "idle" /\ stage'[r] = "loaded" /\ kind'[r] = k
      /\ form'[r] = f /\ ins'[r] = {} /\ del'[r] = {} /\ answer'[r] = answer[r]
    BY <1>2 DEF Begin, TypeOK
<1>4. Staged(r)'
    BY <1>3 DEF Staged
<1> QED BY <1>3, <1>4

LEMMA LocalCreateBegin ==
    ASSUME TypeOK, FormInv, StagedInv, NEW r \in Requests, CreateBegin(r)
    PROVE  Local(r)'
<1>1. PICK f \in Forms : /\ Begin(r, "createRole", f)
                         /\ f.name \in Names
                         /\ UNCHANGED seen
    BY CreateBegins
<1>2. TypeOK'
    <2>1. seen' \in [Requests -> SUBSET Rows]
        BY <1>1 DEF TypeOK
    <2> QED BY <1>1, <2>1, TypeBegin DEF Kinds
<1>3. Formed(r)' /\ Staged(r)'
    BY <1>1, BeginLocal DEF Formed
<1> QED BY <1>2, <1>3 DEF Local

LEMMA LocalRenameBegin ==
    ASSUME TypeOK, FormInv, StagedInv, NEW r \in Requests, RenameBegin(r)
    PROVE  Local(r)'
<1>1. PICK f \in Forms : /\ Begin(r, "renameRole", f)
                         /\ f.role \in Roles /\ f.name \in Names
                         /\ seen' = [seen EXCEPT ![r] = {x \in db \cap RoleRows : x[2] = f.role}]
    BY RenameBegins
<1>2. TypeOK'
    <2>1. seen' \in [Requests -> SUBSET Rows]
        BY <1>1 DEF TypeOK
    <2> QED BY <1>1, <2>1, TypeBegin DEF Kinds
<1>3. Formed(r)' /\ Staged(r)'
    BY <1>1, BeginLocal DEF Formed
<1> QED BY <1>2, <1>3 DEF Local

LEMMA LocalSaveBegin ==
    ASSUME TypeOK, FormInv, StagedInv, NEW r \in Requests, SaveBegin(r)
    PROVE  Local(r)'
<1>1. PICK f \in Forms : /\ Begin(r, "saveRole", f)
                         /\ f.role \in Roles
                         /\ UNCHANGED seen
    BY SaveBegins
<1>2. TypeOK'
    <2>1. seen' \in [Requests -> SUBSET Rows]
        BY <1>1 DEF TypeOK
    <2> QED BY <1>1, <2>1, TypeBegin DEF Kinds
<1>3. Formed(r)' /\ Staged(r)'
    BY <1>1, BeginLocal DEF Formed
<1> QED BY <1>2, <1>3 DEF Local

LEMMA LocalDeleteBegin ==
    ASSUME TypeOK, FormInv, StagedInv, NEW r \in Requests, DeleteBegin(r)
    PROVE  Local(r)'
<1>1. PICK f \in Forms : /\ Begin(r, "deleteRole", f)
                         /\ f.role \in Roles
                         /\ UNCHANGED seen
    BY DeleteBegins
<1>2. TypeOK'
    <2>1. seen' \in [Requests -> SUBSET Rows]
        BY <1>1 DEF TypeOK
    <2> QED BY <1>1, <2>1, TypeBegin DEF Kinds
<1>3. Formed(r)' /\ Staged(r)'
    BY <1>1, BeginLocal DEF Formed
<1> QED BY <1>2, <1>3 DEF Local

LEMMA LocalUserBegin ==
    ASSUME TypeOK, FormInv, StagedInv, NEW r \in Requests, UserBegin(r)
    PROVE  Local(r)'
<1>1. PICK f \in Forms : /\ Begin(r, "saveUser", f)
                         /\ f.user \in Users
                         /\ seen' = [seen EXCEPT ![r] = db \cap {SuperRow(f.user)}]
    BY UserBegins
<1>2. TypeOK'
    <2>1. seen' \in [Requests -> SUBSET Rows]
        BY <1>1 DEF TypeOK
    <2> QED BY <1>1, <2>1, TypeBegin DEF Kinds
<1>3. Formed(r)' /\ Staged(r)'
    BY <1>1, BeginLocal DEF Formed
<1> QED BY <1>2, <1>3 DEF Local

LEMMA LocalCheckBegin ==
    ASSUME TypeOK, FormInv, StagedInv, NEW r \in Requests, CheckBegin(r)
    PROVE  Local(r)'
<1>1. PICK f \in Forms : /\ Begin(r, "check", f)
                         /\ f.user \in Users /\ f.perm \in Perms
                         /\ seen' = [seen EXCEPT ![r] = Snapshot(f.user)]
    BY CheckBegins
<1>2. TypeOK'
    <2>1. seen' \in [Requests -> SUBSET Rows]
        BY <1>1 DEF TypeOK, Snapshot
    <2> QED BY <1>1, <2>1, TypeBegin DEF Kinds
<1>3. Formed(r)' /\ Staged(r)'
    BY <1>1, BeginLocal DEF Formed
<1> QED BY <1>2, <1>3 DEF Local

LEMMA LocalRollBack ==
    ASSUME TypeOK, FormInv, StagedInv, NEW r \in Requests, InService(r),
           NEW a \in {"none", "ok", "error", "refused", "granted", "denied"},
           RollBack(r, a)
    PROVE  Local(r)'
<1>1. TypeOK'
    BY TypeRollBack
<1>2. Formed(r)'
    <2>1. kind'[r] = kind[r] /\ form'[r] = form[r] /\ stage'[r] = "done"
        BY DEF RollBack, TypeOK
    <2>2. Formed(r) /\ stage[r] # "idle"
        BY DEF FormInv, InService
    <2> QED BY <2>1, <2>2 DEF Formed
<1>3. Staged(r)'
    <2>1. ins'[r] = {} /\ del'[r] = {} /\ stage'[r] = "done"
        BY DEF RollBack, TypeOK
    <2> QED BY <2>1 DEF Staged
<1> QED BY <1>1, <1>2, <1>3 DEF Local

LEMMA NothingStaged ==
    ASSUME StagedInv, NEW r \in Requests,
           stage[r] \in {"idle", "loaded", "counted", "rolesRead", "done"}
    PROVE  ins[r] = {} /\ del[r] = {}
BY DEF StagedInv, Staged

LEMMA FormFields ==
    ASSUME TypeOK, NEW r \in Requests
    PROVE  form[r].perms \subseteq Perms /\ form[r].roles \subseteq Roles
<1>1. form[r] \in Forms
    BY DEF TypeOK
<1> QED BY <1>1 DEF Forms

LEMMA FormSet ==
    ASSUME TypeOK, NEW r \in Requests, NEW f \in Forms, form' = [form EXCEPT ![r] = f]
    PROVE  form' \in [Requests -> Forms] /\ form'[r] = f
BY DEF TypeOK

\* A role enters the form of whoever creates it, and nothing else does.
LEMMA NewRole ==
    ASSUME TypeOK, NEW r \in Requests, NEW g \in Roles,
           form' = [form EXCEPT ![r].role = g]
    PROVE  /\ form' \in [Requests -> Forms]
           /\ form'[r].role = g /\ form'[r].name = form[r].name
           /\ form'[r].perms = form[r].perms
<1>1. PICK o \in Forms : o = form[r]
    BY DEF TypeOK
<1> DEFINE f == [o EXCEPT !.role = g]
<1>2. f \in Forms /\ f.role = g /\ f.name = o.name /\ f.perms = o.perms
    BY DEF Forms
<1>3. form' = [form EXCEPT ![r] = f]
    BY <1>1, Zenon
<1> HIDE DEF f
<1>4. form' \in [Requests -> Forms] /\ form'[r] = f
    BY <1>2, <1>3, FormSet, Zenon
<1> QED BY <1>1, <1>2, <1>4, Zenon

LEMMA LocalCreateInsert ==
    ASSUME TypeOK, FormInv, StagedInv, NEW r \in Requests, CreateInsert(r)
    PROVE  Local(r)'
<1> DEFINE n == form[r].name
<1>1. kind[r] = "createRole" /\ stage[r] = "loaded" /\ InService(r) /\ n \in Names
    BY DEF CreateInsert, InService, FormInv, Formed
<1>2. CASE NameTaken(db, n)
    BY <1>1, <1>2, LocalRollBack DEF CreateInsert
<1>3. CASE ~NameTaken(db, n)
    <2>1. PICK g \in Roles :
            /\ Stage(r, {RoleRow(g, n)} \cup {RolePermRow(g, p) : p \in form[r].perms}, {})
            /\ form' = [form EXCEPT ![r].role = g]
            /\ stage' = [stage EXCEPT ![r] = "flushed"]
            /\ answer' = [answer EXCEPT ![r] = "ok"]
            /\ UNCHANGED <<db, kind, seen, history>>
        BY <1>3, Zenon DEF CreateInsert
    <2> DEFINE new == {RoleRow(g, n)} \cup {RolePermRow(g, p) : p \in form[r].perms}
    <2>2. /\ form' \in [Requests -> Forms]
          /\ form'[r].role = g /\ form'[r].name = n /\ form'[r].perms = form[r].perms
        BY <2>1, NewRole
    <2>3. form[r].perms \subseteq Perms
        BY FormFields
    <2>4. new \subseteq Rows
        BY <1>1, <2>3, RowSets, RowKinds
    <2>5. ins'[r] = new /\ del'[r] = {}
        BY <1>1, <2>1, NothingStaged DEF Stage, TypeOK
    <2>6. /\ ins' \in [Requests -> SUBSET Rows] /\ del' \in [Requests -> SUBSET Rows]
          /\ stage'[r] = "flushed" /\ kind'[r] = "createRole"
        <3>1. Stage(r, new, {}) /\ stage' = [stage EXCEPT ![r] = "flushed"] /\ kind' = kind
            BY <2>1
        <3>2. ins' \in [Requests -> SUBSET Rows] /\ del' \in [Requests -> SUBSET Rows]
            <4> HIDE DEF new
            <4> QED BY <2>4, <3>1, TypeStage
        <3>3. stage \in [Requests -> Stages]
            BY DEF TypeOK
        <3>4. stage'[r] = "flushed" /\ kind'[r] = kind[r]
            BY <3>1, <3>3
        <3> QED BY <1>1, <3>2, <3>4
    <2>7. TypeOK'
        BY <2>1, <2>2, <2>6 DEF TypeOK, history, Stages
    <2>8. Formed(r)'
        BY <1>1, <2>2, <2>6 DEF Formed
    <2>9. Staged(r)'
        BY <1>1, <2>2, <2>3, <2>5, <2>6, RowsApart, RowSets DEF Staged
    <2> QED BY <2>7, <2>8, <2>9 DEF Local
<1> QED BY <1>2, <1>3

LEMMA LocalRename ==
    ASSUME TypeOK, FormInv, StagedInv, NEW r \in Requests, Rename(r)
    PROVE  Local(r)'
<1> DEFINE g == form[r].role
           n == form[r].name
           old == {x \in db \cap RoleRows : x[2] = g}
<1>1. /\ kind[r] = "renameRole" /\ stage[r] = "loaded" /\ InService(r)
      /\ g \in Roles /\ n \in Names /\ ins[r] = {} /\ del[r] = {}
    BY NothingStaged DEF Rename, InService, FormInv, Formed
<1>2. CASE RollBack(r, "error")
    BY <1>1, <1>2, LocalRollBack
<1>3. CASE Finish(r) /\ UNCHANGED seen /\ Stage(r, {RoleRow(g, n)}, old)
    <2>1. {RoleRow(g, n)} \subseteq Rows /\ old \subseteq Rows
        BY <1>1, RowSets, RowKinds
    <2>2. TypeOK'
        <3>1. ins' \in [Requests -> SUBSET Rows] /\ del' \in [Requests -> SUBSET Rows]
            BY <1>3, <2>1, TypeStage
        <3> QED BY <1>3, <3>1, TypeFinish DEF TypeOK
    <2>3. /\ ins'[r] = {RoleRow(g, n)} /\ del'[r] = old /\ stage'[r] = "flushed"
          /\ kind'[r] = "renameRole" /\ form'[r] = form[r]
        BY <1>1, <1>3 DEF Stage, TypeOK, Finish
    <2>4. Formed(r)'
        BY <1>1, <2>3 DEF Formed
    <2>5. Staged(r)'
        BY <1>1, <2>3, RowsApart, RowSets, RowFields DEF Staged
    <2> QED BY <2>2, <2>4, <2>5 DEF Local
<1>4. CASE Finish(r) /\ UNCHANGED <<seen, ins, del>>
    <2>1. TypeOK'
        BY <1>4, TypeFinish DEF TypeOK
    <2>2. /\ ins'[r] = {} /\ del'[r] = {} /\ stage'[r] = "flushed"
          /\ kind'[r] = "renameRole" /\ form'[r] = form[r]
        BY <1>1, <1>4 DEF TypeOK, Finish
    <2>3. Formed(r)'
        BY <1>1, <2>2 DEF Formed
    <2>4. Staged(r)'
        BY <1>1, <2>2 DEF Staged
    <2> QED BY <2>1, <2>3, <2>4 DEF Local
<1> QED BY <1>2, <1>3, <1>4 DEF Rename

LEMMA OldPermissionRows ==
    ASSUME TypeOK, NEW r, NEW g \in Roles
    PROVE  /\ OldPermissions(r, g) \subseteq Rows
           /\ \A x \in OldPermissions(r, g) : \E p \in Perms : x = RolePermRow(g, p)
BY RowSets, RowFields, RowKinds DEF OldPermissions

LEMMA LocalClear ==
    ASSUME TypeOK, FormInv, StagedInv, NEW r \in Requests, SaveClear(r) \/ DeleteClear(r)
    PROVE  Local(r)'
<1> DEFINE g == form[r].role
<1>1. /\ kind[r] \in {"saveRole", "deleteRole"} /\ g \in Roles
      /\ ins[r] = {} /\ del[r] = {}
    BY NothingStaged DEF SaveClear, DeleteClear, FormInv, Formed
<1>2. Stage(r, {}, OldPermissions(r, g)) /\ Continue(r, "cleared") /\ UNCHANGED seen
    BY DEF SaveClear, DeleteClear
<1>3. TypeOK'
    BY <1>1, <1>2, OldPermissionRows, TypeStage, TypeContinue DEF Stages, TypeOK
<1>4. /\ ins'[r] = {} /\ del'[r] = OldPermissions(r, g) /\ stage'[r] = "cleared"
      /\ kind'[r] = kind[r] /\ form'[r] = form[r]
    BY <1>1, <1>2 DEF Stage, Continue, TypeOK
<1>5. Formed(r)'
    BY <1>1, <1>4 DEF Formed
<1>6. Staged(r)'
    BY <1>1, <1>4, OldPermissionRows, RowsApart, RowSets DEF Staged
<1> QED BY <1>3, <1>5, <1>6 DEF Local

LEMMA LocalSaveInsert ==
    ASSUME TypeOK, FormInv, StagedInv, NEW r \in Requests, SaveInsert(r)
    PROVE  Local(r)'
<1> DEFINE g == form[r].role
           new == {RolePermRow(g, p) : p \in form[r].perms}
<1>1. /\ kind[r] = "saveRole" /\ stage[r] = "cleared" /\ InService(r)
      /\ g \in Roles /\ form[r].perms \subseteq Perms /\ Staged(r)
    BY FormFields DEF SaveInsert, InService, FormInv, Formed, StagedInv
<1>2. CASE RollBack(r, "error")
    BY <1>1, <1>2, LocalRollBack
<1>3. CASE Finish(r) /\ UNCHANGED seen /\ Stage(r, new, {})
    <2>1. new \subseteq Rows
        BY <1>1, RowSets, RowKinds
    <2>2. TypeOK'
        <3>1. ins' \in [Requests -> SUBSET Rows] /\ del' \in [Requests -> SUBSET Rows]
            BY <1>3, <2>1, TypeStage
        <3> QED BY <1>3, <3>1, TypeFinish DEF TypeOK
    <2>3. /\ ins'[r] = ins[r] \cup new /\ del'[r] = del[r] /\ stage'[r] = "flushed"
          /\ kind'[r] = "saveRole" /\ form'[r] = form[r]
        BY <1>1, <1>3 DEF Stage, TypeOK, Finish
    <2>4. Formed(r)'
        BY <1>1, <2>3 DEF Formed
    <2>5. Staged(r)'
        BY <1>1, <2>3, RowsApart, RowSets DEF Staged
    <2> QED BY <2>2, <2>4, <2>5 DEF Local
<1> QED BY <1>2, <1>3 DEF SaveInsert

LEMMA LocalDeleteCount ==
    ASSUME TypeOK, FormInv, StagedInv, NEW r \in Requests, DeleteCount(r)
    PROVE  Local(r)'
<1>1. /\ kind[r] = "deleteRole" /\ stage[r] = "loaded" /\ InService(r)
      /\ form[r].role \in Roles /\ ins[r] = {} /\ del[r] = {}
    BY NothingStaged DEF DeleteCount, InService, FormInv, Formed
<1>2. CASE RollBack(r, "refused")
    BY <1>1, <1>2, LocalRollBack
<1>3. CASE Continue(r, "counted") /\ UNCHANGED <<seen, ins, del>>
    <2>1. TypeOK'
        BY <1>3, TypeContinue DEF TypeOK, Stages
    <2>2. /\ ins'[r] = {} /\ del'[r] = {} /\ stage'[r] = "counted"
          /\ kind'[r] = "deleteRole" /\ form'[r] = form[r]
        BY <1>1, <1>3 DEF TypeOK, Continue
    <2>3. Formed(r)' /\ Staged(r)'
        BY <1>1, <2>2 DEF Formed, Staged
    <2> QED BY <2>1, <2>3 DEF Local
<1> QED BY <1>2, <1>3 DEF DeleteCount

LEMMA LocalDeleteRole ==
    ASSUME TypeOK, FormInv, StagedInv, NEW r \in Requests, DeleteRole(r)
    PROVE  Local(r)'
<1> DEFINE g == form[r].role
           old == {x \in db \cap RoleRows : x[2] = g}
           refs == {UserRoleRow(u, g) : u \in Users} \cup {RolePermRow(g, p) : p \in Perms}
<1>1. /\ kind[r] = "deleteRole" /\ stage[r] = "cleared" /\ InService(r)
      /\ g \in Roles /\ Staged(r)
    BY DEF DeleteRole, InService, FormInv, Formed, StagedInv
<1>2. CASE RollBack(r, "error")
    BY <1>1, <1>2, LocalRollBack
<1>3. CASE Finish(r) /\ UNCHANGED seen /\ Stage(r, {}, old \cup (db \cap refs))
    <2>1. old \cup (db \cap refs) \subseteq Rows
        BY DEF TypeOK
    <2>2. TypeOK'
        <3>1. ins' \in [Requests -> SUBSET Rows] /\ del' \in [Requests -> SUBSET Rows]
            BY <1>3, <2>1, TypeStage
        <3> QED BY <1>3, <3>1, TypeFinish DEF TypeOK
    <2>3. /\ ins'[r] = ins[r] /\ del'[r] = del[r] \cup old \cup (db \cap refs)
          /\ stage'[r] = "flushed" /\ kind'[r] = "deleteRole" /\ form'[r] = form[r]
        BY <1>1, <1>3 DEF Stage, TypeOK, Finish
    <2>4. Formed(r)'
        BY <1>1, <2>3 DEF Formed
    <2>5. \A x \in old : \E n \in Names : x = RoleRow(g, n)
        BY RowSets, RowFields
    <2>6. \A x \in refs : \/ \E u \in Users : x = UserRoleRow(u, g)
                          \/ \E p \in Perms : x = RolePermRow(g, p)
        OBVIOUS
    <2>7. Staged(r)'
        BY <1>1, <2>3, <2>5, <2>6, RowsApart, RowSets DEF Staged
    <2> QED BY <2>2, <2>4, <2>7 DEF Local
<1> QED BY <1>2, <1>3 DEF DeleteRole

LEMMA LocalUserRoles ==
    ASSUME TypeOK, FormInv, StagedInv, NEW r \in Requests, UserRoles(r)
    PROVE  Local(r)'
<1>1. /\ kind[r] = "saveUser" /\ stage[r] = "loaded" /\ form[r].user \in Users
      /\ ins[r] = {} /\ del[r] = {} /\ Continue(r, "rolesRead") /\ UNCHANGED <<ins, del>>
    BY NothingStaged DEF UserRoles, FormInv, Formed
<1>2. seen' \in [Requests -> SUBSET Rows]
    BY RowKinds DEF UserRoles, TypeOK
<1>3. TypeOK'
    BY <1>1, <1>2, TypeContinue DEF TypeOK, Stages
<1>4. /\ ins'[r] = {} /\ del'[r] = {} /\ stage'[r] = "rolesRead"
      /\ kind'[r] = "saveUser" /\ form'[r] = form[r]
    BY <1>1 DEF TypeOK, Continue
<1>5. Formed(r)' /\ Staged(r)'
    BY <1>1, <1>4 DEF Formed, Staged
<1> QED BY <1>3, <1>5 DEF Local

\* The difference that the flush of a user writes.
UserAdded(r) ==
    LET u == form[r].user
        chosen == {UserRoleRow(u, g) : g \in {x \in form[r].roles : HasRole(seen[r], x)}}
        super == IF form[r].super THEN {SuperRow(u)} ELSE {}
        wanted == IF form[r].privileged THEN chosen \cup super ELSE seen[r] IN
    (wanted \ seen[r]) \cap (UserRoleRows \cup SuperRows)

UserRemoved(r) ==
    LET u == form[r].user
        chosen == {UserRoleRow(u, g) : g \in {x \in form[r].roles : HasRole(seen[r], x)}}
        super == IF form[r].super THEN {SuperRow(u)} ELSE {}
        wanted == IF form[r].privileged THEN chosen \cup super ELSE seen[r] IN
    (seen[r] \ wanted) \cap (UserRoleRows \cup SuperRows)

LEMMA UserDifference ==
    ASSUME NEW r \in Requests
    PROVE  /\ UserAdded(r) \subseteq UserRoleRows \cup SuperRows
           /\ UserRemoved(r) \subseteq UserRoleRows \cup SuperRows
           /\ UserAdded(r) \cap seen[r] = {} /\ UserRemoved(r) \subseteq seen[r]
           /\ \A x \in UserAdded(r) \cap UserRoleRows : \E g \in form[r].roles :
                 x = UserRoleRow(form[r].user, g) /\ HasRole(seen[r], g)
<1> DEFINE u == form[r].user
           chosen == {UserRoleRow(u, g) : g \in {x \in form[r].roles : HasRole(seen[r], x)}}
           super == IF form[r].super THEN {SuperRow(u)} ELSE {}
<1>1. /\ UserAdded(r) \subseteq UserRoleRows \cup SuperRows
      /\ UserRemoved(r) \subseteq UserRoleRows \cup SuperRows
      /\ UserAdded(r) \cap seen[r] = {} /\ UserRemoved(r) \subseteq seen[r]
    BY DEF UserAdded, UserRemoved
<1>2. \A x \in UserAdded(r) : x \in chosen \/ x = SuperRow(u)
    BY DEF UserAdded
<1>3. \A x \in UserAdded(r) \cap UserRoleRows : x \in chosen
    BY <1>2, RowsApart, RowSets
<1> QED BY <1>1, <1>3

LEMMA UserFlushes ==
    ASSUME NEW r \in Requests, UserFlush(r)
    PROVE  /\ kind[r] = "saveUser" /\ stage[r] = "rolesRead"
           /\ \/ /\ RollBack(r, "error")
                 /\ \/ UserAdded(r) \cap db \cap UserRoleRows # {}
                    \/ ~(UserRemoved(r) \cap UserRoleRows \subseteq db)
                    \/ \E x \in UserAdded(r) \cap UserRoleRows : ~HasRole(db, x[3])
              \/ /\ Stage(r, UserAdded(r), UserRemoved(r))
                 /\ Continue(r, "dispatched") /\ UNCHANGED seen
BY DEF UserFlush, UserAdded, UserRemoved

LEMMA LocalUserFlush ==
    ASSUME TypeOK, FormInv, StagedInv, NEW r \in Requests, UserFlush(r)
    PROVE  Local(r)'
<1>1. /\ kind[r] = "saveUser" /\ stage[r] = "rolesRead" /\ form[r].user \in Users
      /\ InService(r)
    BY UserFlushes DEF FormInv, Formed, InService
<1>2. CASE RollBack(r, "error")
    BY <1>1, <1>2, LocalRollBack
<1>3. CASE /\ Stage(r, UserAdded(r), UserRemoved(r))
           /\ Continue(r, "dispatched") /\ UNCHANGED seen
    <2>1. UserAdded(r) \subseteq UserRoleRows \cup SuperRows
              /\ UserRemoved(r) \subseteq UserRoleRows \cup SuperRows
        BY UserDifference
    <2>2. ins' \in [Requests -> SUBSET Rows] /\ del' \in [Requests -> SUBSET Rows]
        BY <1>3, <2>1, RowKinds, TypeStage
    <2>3. TypeOK'
        BY <1>3, <2>2, TypeContinue DEF TypeOK, Stages
    <2>4. /\ ins'[r] = UserAdded(r) /\ del'[r] = UserRemoved(r)
          /\ stage'[r] = "dispatched" /\ kind'[r] = "saveUser" /\ form'[r] = form[r]
        BY <1>1, <1>3, NothingStaged DEF Stage, Continue, TypeOK
    <2>5. Formed(r)'
        BY <1>1, <2>4 DEF Formed
    <2>6. \A x \in UserAdded(r) \cup UserRemoved(r) :
            \/ \E w \in Users, g \in Roles : x = UserRoleRow(w, g)
            \/ \E w \in Users : x = SuperRow(w)
        BY <2>1, RowSets
    <2>7. Staged(r)'
        BY <2>4, <2>6, RowsApart DEF Staged
    <2> QED BY <2>3, <2>5, <2>7 DEF Local
<1> QED BY <1>2, <1>3, UserFlushes

LEMMA LocalUserPerms ==
    ASSUME TypeOK, FormInv, StagedInv, NEW r \in Requests, UserPerms(r)
    PROVE  Local(r)'
<1> DEFINE u == form[r].user
           old == {x \in db \cap DirectRows : x[2] = u}
           new == {DirectRow(u, p) : p \in form[r].perms}
<1>1. /\ kind[r] = "saveUser" /\ stage[r] = "dispatched" /\ u \in Users
      /\ form[r].perms \subseteq Perms /\ Staged(r)
    BY FormFields DEF UserPerms, FormInv, Formed, StagedInv
<1>2. Stage(r, new, old) /\ Finish(r) /\ UNCHANGED seen
    BY DEF UserPerms
<1>3. new \subseteq DirectRows /\ old \subseteq DirectRows
    BY <1>1, RowSets
<1>4. new \subseteq Rows /\ old \subseteq Rows
    BY <1>3, RowKinds
<1>5. TypeOK'
    BY <1>2, <1>4, TypeStage, TypeFinish DEF TypeOK
<1>6. /\ ins'[r] = ins[r] \cup new /\ del'[r] = del[r] \cup old /\ stage'[r] = "flushed"
      /\ kind'[r] = "saveUser" /\ form'[r] = form[r]
    BY <1>1, <1>2 DEF Stage, Finish, TypeOK
<1>7. Formed(r)'
    BY <1>1, <1>6 DEF Formed
<1>8. \A x \in new \cup old : \E w \in Users, p \in Perms : x = DirectRow(w, p)
    BY <1>3, RowSets
<1> HIDE DEF new, old
<1>9. Staged(r)'
    BY <1>1, <1>6, <1>8, RowsApart DEF Staged
<1> QED BY <1>5, <1>7, <1>9 DEF Local

LEMMA LocalCheck ==
    ASSUME TypeOK, FormInv, StagedInv, NEW r \in Requests, CheckRoles(r) \/ CheckAnswer(r)
    PROVE  Local(r)'
<1>1. /\ kind[r] = "check" /\ stage[r] \in {"loaded", "rolesRead"} /\ form[r].user \in Users
      /\ form[r].perm \in Perms /\ ins[r] = {} /\ del[r] = {}
    BY NothingStaged DEF CheckRoles, CheckAnswer, FormInv, Formed
<1>2. CASE CheckRoles(r)
    <2>1. seen' \in [Requests -> SUBSET Rows]
        BY <1>2 DEF CheckRoles, RolePermissions, TypeOK
    <2>2. TypeOK'
        BY <1>2, <2>1, TypeContinue DEF CheckRoles, TypeOK, Stages
    <2>3. stage'[r] = "rolesRead"
        BY <1>2 DEF CheckRoles, Continue, TypeOK
    <2>4. ins'[r] = {} /\ del'[r] = {} /\ kind'[r] = "check" /\ form'[r] = form[r]
        BY <1>1, <1>2 DEF CheckRoles, Continue, TypeOK
    <2>5. Formed(r)' /\ Staged(r)'
        BY <1>1, <2>3, <2>4 DEF Formed, Staged
    <2> QED BY <2>2, <2>5 DEF Local
<1>3. CASE CheckAnswer(r)
    <2>1. TypeOK'
        BY <1>3 DEF CheckAnswer, TypeOK, Stages, history
    <2>2. stage'[r] = "done"
        BY <1>3 DEF CheckAnswer, TypeOK
    <2>3. ins'[r] = {} /\ del'[r] = {} /\ kind'[r] = "check" /\ form'[r] = form[r]
        BY <1>1, <1>3 DEF CheckAnswer, TypeOK
    <2>4. Formed(r)' /\ Staged(r)'
        BY <1>1, <2>2, <2>3 DEF Formed, Staged
    <2> QED BY <2>1, <2>4 DEF Local
<1> QED BY <1>2, <1>3

LEMMA LocalCommits ==
    ASSUME TypeOK, FormInv, StagedInv, NEW r \in Requests, DispatchCommit(r) \/ Commit(r)
    PROVE  Local(r)'
<1>1. Apply(r) /\ stage[r] \in {"dispatched", "flushed"}
    BY DEF DispatchCommit, Commit
<1>2. stage'[r] \in {"dispatched", "done"} /\ stage' \in [Requests -> Stages]
          /\ (stage'[r] = "dispatched" => stage[r] = "dispatched")
    BY DEF DispatchCommit, Commit, Stages, TypeOK
<1>3. TypeOK'
    <2>1. kind[r] \in {"saveRole", "createRole"} => form[r].role \in Roles
        BY <1>1 DEF FormInv, Formed
    <2> QED BY <1>1, <1>2, <2>1, TypeApply
<1>4. /\ ins'[r] = {} /\ del'[r] = {} /\ kind'[r] = kind[r] /\ form'[r] = form[r]
      /\ answer'[r] = answer[r]
    BY <1>1 DEF Apply, TypeOK
<1>5. Formed(r)
    BY DEF FormInv
<1>6. Formed(r)' /\ Staged(r)'
    BY <1>1, <1>2, <1>4, <1>5 DEF Formed, Staged
<1> QED BY <1>3, <1>6 DEF Local

LEMMA LocalStep ==
    ASSUME TypeOK, FormInv, StagedInv, NEW r \in Requests, Begins(r) \/ Continues(r)
    PROVE  Local(r)'
<1>1. CASE Begins(r)
    BY <1>1, LocalCreateBegin, LocalRenameBegin, LocalSaveBegin, LocalDeleteBegin,
       LocalUserBegin, LocalCheckBegin DEF Begins
<1>2. CASE FailCommit(r)
    <2>1. InService(r) /\ RollBack(r, answer[r])
        BY <1>2 DEF FailCommit, InService
    <2> QED BY <2>1, LocalRollBack DEF TypeOK
<1>3. CASE Continues(r) /\ ~FailCommit(r)
    BY <1>3, LocalCreateInsert, LocalRename, LocalClear, LocalSaveInsert, LocalDeleteCount,
       LocalDeleteRole, LocalUserRoles, LocalUserFlush, LocalUserPerms, LocalCheck,
       LocalCommits DEF Continues
<1> QED BY <1>1, <1>2, <1>3

LInv == TypeOK /\ FormInv /\ StagedInv

LEMMA LocalInit == Init => LInv
<1> SUFFICES ASSUME Init PROVE LInv
    OBVIOUS
<1>1. TypeOK
    BY TypeInit
<1>2. \A r \in Requests : /\ kind[r] = "idle" /\ stage[r] = "idle" /\ answer[r] = "none"
                          /\ ins[r] = {} /\ del[r] = {}
    BY DEF Init
<1>3. FormInv
    BY <1>2 DEF FormInv, Formed
<1>4. StagedInv
    BY <1>2 DEF StagedInv, Staged
<1> QED BY <1>1, <1>3, <1>4 DEF LInv

LEMMA LocalNext == LInv /\ [Next]_vars => LInv'
<1> SUFFICES ASSUME LInv, [Next]_vars PROVE LInv'
    OBVIOUS
<1>1. CASE Next
    <2>1. PICK r \in Requests : Begins(r) \/ Continues(r)
        BY <1>1 DEF Next
    <2>2. Local(r)'
        BY <2>1, LocalStep DEF LInv
    <2>3. ASSUME NEW q \in Requests \ {r}
          PROVE  Formed(q)' /\ Staged(q)'
        <3>1. Still(q)
            BY <2>1, OthersStill DEF LInv
        <3>2. Formed(q) /\ Staged(q)
            BY DEF LInv, FormInv, StagedInv
        <3>3. Formed(q)'
            BY <3>1, <3>2 DEF Still, Formed
        <3>4. Staged(q)'
            BY <3>1, <3>2 DEF Still, Staged
        <3> QED BY <3>3, <3>4
    <2>4. \A q \in Requests : Formed(q)' /\ Staged(q)'
        BY <2>2, <2>3 DEF Local
    <2> QED BY <2>2, <2>4 DEF LInv, Local, FormInv, StagedInv
<1>2. CASE UNCHANGED vars
    BY <1>2 DEF vars, local, history, LInv, TypeOK, FormInv, Formed, StagedInv, Staged
<1> QED BY <1>1, <1>2

-----------------------------------------------------------------------------
(***************************************************************************)
(* Requests in service together overlap.                                   *)
(***************************************************************************)

LEMMA OverlapNext == LInv /\ OverlapInv /\ [Next]_vars => OverlapInv'
<1> SUFFICES ASSUME LInv, OverlapInv, [Next]_vars PROVE OverlapInv'
    OBVIOUS
<1>1. CASE Next
    <2>1. PICK r \in Requests : Begins(r) \/ Continues(r)
        BY <1>1 DEF Next
    <2>2. \A q \in Requests \ {r} : stage'[q] = stage[q]
        BY <2>1, OthersStill DEF LInv, Still
    <2>3. Starts(r) \/ GoesOn(r) \/ Commits(r)
        BY <2>1, StepKinds DEF LInv
    <2>4. CASE Starts(r)
        BY <2>2, <2>4 DEF OverlapInv, Starts, InService
    <2>5. CASE GoesOn(r) \/ Commits(r)
        <3>1. InService(r) /\ overlap' = overlap
            BY <2>5 DEF GoesOn, Commits, Apply, InService, history
        <3> QED BY <2>2, <3>1 DEF OverlapInv, InService
    <2> QED BY <2>3, <2>4, <2>5
<1>2. CASE UNCHANGED vars
    BY <1>2 DEF vars, local, history, OverlapInv, InService
<1> QED BY <1>1, <1>2

LEMMA OverlapGrows ==
    ASSUME TypeOK, NEW r \in Requests, Begins(r) \/ Continues(r)
    PROVE  overlap \subseteq overlap'
BY StepKinds DEF Starts, GoesOn, Commits, Apply, history

-----------------------------------------------------------------------------
(***************************************************************************)
(* Roles.  What a request finds when its last statement is flushed.        *)
(***************************************************************************)

LEMMA FlushSteps ==
    ASSUME LInv, NEW r \in Requests, Begins(r) \/ Continues(r), stage'[r] = "flushed"
    PROVE  /\ GoesOn(r)
           /\ CreateInsert(r) \/ Rename(r) \/ SaveInsert(r) \/ DeleteRole(r) \/ UserPerms(r)
<1>1. Starts(r) \/ GoesOn(r) \/ Commits(r)
    BY StepKinds DEF LInv
<1>2. GoesOn(r)
    BY <1>1 DEF Starts, Commits
<1>3. ~Begins(r)
    <2>1. ASSUME NEW k, NEW f, Begin(r, k, f) PROVE FALSE
        BY <2>1, BeginLocal DEF LInv
    <2>2. ~CreateBegin(r) /\ ~SaveBegin(r) /\ ~DeleteBegin(r)
        BY <2>1, CreateBegins, SaveBegins, DeleteBegins DEF LInv
    <2>3. ~RenameBegin(r) /\ ~UserBegin(r) /\ ~CheckBegin(r)
        BY <2>1, RenameBegins, UserBegins, CheckBegins DEF LInv
    <2> QED BY <2>2, <2>3 DEF Begins
<1>4. ~SaveClear(r) /\ ~DeleteClear(r) /\ ~UserRoles(r) /\ ~CheckRoles(r) /\ ~CheckAnswer(r)
    BY DEF SaveClear, DeleteClear, UserRoles, CheckRoles, CheckAnswer, Continue, LInv, TypeOK
<1>5. ~DeleteCount(r) /\ ~FailCommit(r) /\ ~DispatchCommit(r) /\ ~Commit(r)
    BY DEF DeleteCount, FailCommit, DispatchCommit, Commit, RollBack, Continue, LInv, TypeOK
<1>6. ~UserFlush(r)
    BY UserFlushes DEF RollBack, Continue, LInv, TypeOK
<1> QED BY <1>2, <1>3, <1>4, <1>5, <1>6 DEF Continues

LEMMA FlushCreate ==
    ASSUME LInv, NEW r \in Requests, CreateInsert(r), stage'[r] = "flushed"
    PROVE  /\ kind'[r] = "createRole" /\ form'[r].role \in Roles
           /\ \A q \in Requests, n \in Names : /\ RoleRow(form'[r].role, n) \notin db
                                               /\ RoleRow(form'[r].role, n) \notin ins[q]
                                               /\ RoleRow(form'[r].role, n) \notin del[q]
<1>1. ~RollBack(r, "error")
    BY DEF RollBack, LInv, TypeOK
<1>2. PICK g \in Roles : FreeId(g) /\ form' = [form EXCEPT ![r].role = g] /\ kind' = kind
    BY <1>1, Zenon DEF CreateInsert
<1>3. form'[r].role = g
    BY <1>2, NewRole DEF LInv
<1>4. kind[r] = "createRole"
    BY DEF CreateInsert
<1>5. \A n \in Names : RoleRow(g, n) \notin db \cup UNION {ins[q] \cup del[q] : q \in Requests}
    BY <1>2, RowSets, RowFields DEF FreeId
<1> QED BY <1>2, <1>3, <1>4, <1>5

LEMMA FlushRename ==
    ASSUME LInv, NEW r \in Requests, Rename(r), stage'[r] = "flushed"
    PROVE  /\ kind'[r] = "renameRole" /\ form'[r] = form[r]
           /\ ins'[r] # {} =>
                /\ HasRole(db, form[r].role)
                /\ \A q \in Requests \ {r}, n \in Names :
                     RoleRow(form[r].role, n) \in db =>
                       RoleRow(form[r].role, n) \notin ins[q] \cup del[q]
<1> DEFINE g == form[r].role
           n == form[r].name
           old == {x \in db \cap RoleRows : x[2] = g}
<1>1. ~RollBack(r, "error")
    BY DEF RollBack, LInv, TypeOK
<1>2. /\ kind[r] = "renameRole" /\ stage[r] = "loaded"
      /\ g \in Roles /\ n \in Names /\ ins[r] = {} /\ del[r] = {}
    BY NothingStaged DEF Rename, LInv, FormInv, Formed
<1>3. /\ Finish(r)
      /\ \/ UNCHANGED ins
         \/ ~Locked(r, seen[r] \cup old) /\ old # {}
    BY <1>1 DEF Rename
<1>4. kind'[r] = "renameRole" /\ form'[r] = form[r]
    BY <1>2, <1>3 DEF Finish
<1>5. ASSUME ~Locked(r, seen[r] \cup old), old # {}
      PROVE  /\ HasRole(db, g)
             /\ \A q \in Requests \ {r}, m \in Names :
                  RoleRow(g, m) \in db => RoleRow(g, m) \notin ins[q] \cup del[q]
    <2>1. \A x \in old : \E m \in Names : x = RoleRow(g, m)
        BY RowSets, RowFields
    <2>2. \A m \in Names : RoleRow(g, m) \in db => RoleRow(g, m) \in old
        BY <1>2, RowSets, RowFields
    <2> HIDE DEF old
    <2>3. HasRole(db, g)
        BY <1>5, <2>1 DEF HasRole, old
    <2> QED BY <1>5, <2>2, <2>3 DEF Locked
<1> QED BY <1>2, <1>3, <1>4, <1>5

LEMMA FlushSave ==
    ASSUME LInv, NEW r \in Requests, SaveInsert(r), stage'[r] = "flushed"
    PROVE  /\ kind'[r] = "saveRole" /\ form'[r] = form[r] /\ del'[r] = del[r]
           /\ ins'[r] # {} =>
                /\ HasRole(db, form[r].role)
                /\ \A q \in Requests \ {r}, n \in Names : RoleRow(form[r].role, n) \notin del[q]
<1> DEFINE g == form[r].role
           new == {RolePermRow(g, p) : p \in form[r].perms}
<1>1. ~RollBack(r, "error")
    BY DEF RollBack, LInv, TypeOK
<1>2. /\ kind[r] = "saveRole" /\ stage[r] = "cleared" /\ g \in Roles
      /\ form[r].perms \subseteq Perms /\ Staged(r)
    BY FormFields DEF SaveInsert, LInv, FormInv, Formed, StagedInv
<1>3. ins[r] = {}
    <2>1. ins[r] \subseteq Rows
        BY DEF LInv, TypeOK
    <2>2. \A x \in ins[r] : FALSE
        BY <1>2, <2>1, RowKinds, RowSets DEF Staged
    <2> QED BY <2>2
<1>4. /\ Finish(r) /\ Stage(r, new, {})
      /\ new # {} => ~RoleLocked(r, {g}) /\ HasRole(db, g)
    BY <1>1 DEF SaveInsert
<1>5. kind'[r] = "saveRole" /\ form'[r] = form[r] /\ del'[r] = del[r] /\ ins'[r] = new
    BY <1>2, <1>3, <1>4 DEF Finish, Stage, LInv, TypeOK
<1> HIDE DEF new
<1> QED BY <1>2, <1>4, <1>5 DEF RoleLocked

LEMMA FlushDelete ==
    ASSUME LInv, NEW r \in Requests, DeleteRole(r), stage'[r] = "flushed"
    PROVE  LET g == form[r].role IN
           /\ kind'[r] = "deleteRole" /\ form'[r] = form[r] /\ g \in Roles
           /\ \E n \in Names : RoleRow(g, n) \in del'[r]
           /\ \A n \in Names : RoleRow(g, n) \in db => RoleRow(g, n) \in del'[r]
           /\ \A p \in Perms : RolePermRow(g, p) \in db => RolePermRow(g, p) \in del'[r]
           /\ \A q \in Requests \ {r} :
                /\ \A n \in Names : RoleRow(g, n) \notin ins[q]
                /\ \A p \in Perms : RolePermRow(g, p) \notin ins[q]
<1> DEFINE g == form[r].role
           old == {x \in db \cap RoleRows : x[2] = g}
           refs == {UserRoleRow(u, g) : u \in Users} \cup {RolePermRow(g, p) : p \in Perms}
<1>1. ~RollBack(r, "error")
    BY DEF RollBack, LInv, TypeOK
<1>2. kind[r] = "deleteRole" /\ stage[r] = "cleared" /\ g \in Roles
    BY DEF DeleteRole, LInv, FormInv, Formed
<1>3. /\ Finish(r) /\ Stage(r, {}, old \cup (db \cap refs)) /\ old # {}
      /\ ~Locked(r, {RoleRow(g, n) : n \in Names} \cup refs)
    BY <1>1 DEF DeleteRole
<1>4. /\ kind'[r] = "deleteRole" /\ form'[r] = form[r]
      /\ del'[r] = del[r] \cup (old \cup (db \cap refs))
    BY <1>2, <1>3 DEF Finish, Stage, LInv, TypeOK
<1>5. \A x \in old : \E m \in Names : x = RoleRow(g, m)
    BY RowSets, RowFields
<1>6. \A m \in Names : RoleRow(g, m) \in db => RoleRow(g, m) \in old
    BY <1>2, RowSets, RowFields
<1>7. \A p \in Perms : RolePermRow(g, p) \in refs
    OBVIOUS
<1>8. \A q \in Requests \ {r} :
         /\ \A n \in Names : RoleRow(g, n) \notin ins[q]
         /\ \A p \in Perms : RolePermRow(g, p) \notin ins[q]
    BY <1>3 DEF Locked
<1> HIDE DEF old, refs
<1> QED BY <1>2, <1>3, <1>4, <1>5, <1>6, <1>7, <1>8

\* A request that creates, renames or saves a role has staged something that
\* carries the id of the role.
LEMMA StagedRole ==
    ASSUME LInv, NEW r \in Requests, stage[r] = "flushed", ins[r] # {},
           kind[r] \in {"createRole", "renameRole", "saveRole"}
    PROVE  /\ form[r].role \in Roles
           /\ kind[r] # "saveRole" => \E n \in Names : RoleRow(form[r].role, n) \in ins[r]
           /\ kind[r] = "saveRole" => \E p \in Perms : RolePermRow(form[r].role, p) \in ins[r]
<1>1. Staged(r) /\ Formed(r) /\ ins[r] \subseteq Rows
    BY DEF LInv, StagedInv, FormInv, TypeOK
<1>2. PICK x \in ins[r] : TRUE
    OBVIOUS
<1>3. \/ \E g \in Roles, n \in Names : x = RoleRow(g, n)
      \/ \E g \in Roles, p \in Perms : x = RolePermRow(g, p)
    BY <1>1, <1>2, RowKinds, RowSets DEF Staged
<1>4. form[r].role \in Roles
    BY <1>1 DEF Formed
<1>5. kind[r] # "saveRole" => \E n \in Names : RoleRow(form[r].role, n) \in ins[r]
    BY <1>1, <1>2, <1>3 DEF Staged, Formed
<1>6. kind[r] = "saveRole" => \E p \in Perms : RolePermRow(form[r].role, p) \in ins[r]
    BY <1>1, <1>2, <1>3 DEF Staged
<1> QED BY <1>4, <1>5, <1>6

LEMMA CommitRows ==
    ASSUME LInv, NEW r \in Requests, Commits(r)
    PROVE  /\ \A x : x \in db' <=> x \in ins[r] \/ (x \in db /\ x \notin del[r])
           /\ ins'[r] = {} /\ del'[r] = {} /\ kind' = kind /\ form' = form
           /\ seen' = seen /\ answer' = answer /\ overlap' = overlap
           /\ InService(r) /\ Staged(r) /\ Formed(r)
           /\ kind[r] # "saveUser" => stage[r] = "flushed" /\ stage'[r] = "done"
BY DEF LInv, TypeOK, Commits, Apply, After, InService, StagedInv, FormInv, Formed

\* Only the commit of a deletion ends a role, and only the commit of a creation
\* begins one: a new name is the old role's.
LEMMA CommitRole ==
    ASSUME LInv, RoleInv, NEW r \in Requests, Commits(r), NEW g \in Roles
    PROVE  /\ HasRole(db, g) =>
                \/ HasRole(db', g)
                \/ kind[r] = "deleteRole" /\ form[r].role = g
           /\ HasRole(db', g) =>
                \/ HasRole(db, g)
                \/ kind[r] = "createRole" /\ form[r].role = g
           /\ kind[r] = "deleteRole" /\ form[r].role = g => ~HasRole(db', g)
<1>1. /\ \A x : x \in db' <=> x \in ins[r] \/ (x \in db /\ x \notin del[r])
      /\ Staged(r) /\ Formed(r) /\ (kind[r] # "saveUser" => stage[r] = "flushed")
    BY CommitRows
<1>2. Grounded(r)
    BY DEF RoleInv
<1>3. ASSUME NEW n \in Names, RoleRow(g, n) \in db, ~HasRole(db', g)
      PROVE  kind[r] = "deleteRole" /\ form[r].role = g
    <2>1. RoleRow(g, n) \in del[r] /\ \A m \in Names : RoleRow(g, m) \notin ins[r]
        BY <1>1, <1>3 DEF HasRole
    <2> QED BY <1>1, <2>1 DEF Staged, Formed
<1>4. ASSUME NEW n \in Names, RoleRow(g, n) \in db', ~HasRole(db, g)
      PROVE  kind[r] = "createRole" /\ form[r].role = g
    <2>1. RoleRow(g, n) \in ins[r]
        BY <1>1, <1>4 DEF HasRole
    <2>2. kind[r] \in {"createRole", "renameRole"} /\ g = form[r].role /\ stage[r] = "flushed"
        BY <1>1, <2>1 DEF Staged
    <2> QED BY <1>2, <1>4, <2>1, <2>2 DEF Grounded
<1>5. ASSUME kind[r] = "deleteRole", form[r].role = g, NEW n \in Names, RoleRow(g, n) \in db'
      PROVE  FALSE
    <2>1. RoleRow(g, n) \notin ins[r]
        BY <1>1, <1>5 DEF Staged
    <2> QED BY <1>1, <1>2, <1>5, <2>1 DEF Grounded
<1> QED BY <1>3, <1>4, <1>5 DEF HasRole

LEMMA PermsHaveRoleNext ==
    ASSUME LInv, RoleInv, NEW r \in Requests, Commits(r)
    PROVE  PermsHaveRole'
<1> SUFFICES ASSUME NEW g \in Roles, NEW p \in Perms, RolePermRow(g, p) \in db'
             PROVE  HasRole(db', g)
    BY DEF PermsHaveRole
<1>1. /\ \A x : x \in db' <=> x \in ins[r] \/ (x \in db /\ x \notin del[r])
      /\ Staged(r) /\ Formed(r) /\ Grounded(r) /\ PermsHaveRole
      /\ (kind[r] # "saveUser" => stage[r] = "flushed")
    BY CommitRows DEF RoleInv
<1>2. CASE RolePermRow(g, p) \in ins[r]
    <2>1. /\ kind[r] \in {"createRole", "saveRole"} /\ stage[r] = "flushed"
          /\ g = form[r].role
        BY <1>1, <1>2 DEF Staged
    <2>2. CASE kind[r] = "createRole"
        BY <1>1, <2>1, <2>2 DEF Staged, Formed, HasRole
    <2>3. CASE kind[r] = "saveRole"
        <3>1. HasRole(db, g)
            BY <1>1, <1>2, <2>1, <2>3 DEF Grounded
        <3> QED BY <2>3, <3>1, CommitRole
    <2> QED BY <2>1, <2>2, <2>3
<1>3. CASE RolePermRow(g, p) \in db /\ RolePermRow(g, p) \notin del[r]
    <2>1. HasRole(db, g)
        BY <1>1, <1>3 DEF PermsHaveRole
    <2>2. CASE kind[r] = "deleteRole" /\ form[r].role = g
        BY <1>1, <1>3, <2>2 DEF Grounded
    <2>3. CASE ~(kind[r] = "deleteRole" /\ form[r].role = g)
        BY <2>1, <2>3, CommitRole
    <2> QED BY <2>2, <2>3
<1> QED BY <1>1, <1>2, <1>3

\* Another request commits: its locks kept it away from this role.
LEMMA GroundedCommit ==
    ASSUME LInv, RoleInv, NEW r \in Requests, Commits(r), NEW q \in Requests \ {r}, Still(q)
    PROVE  Grounded(q)'
<1>1. /\ \A x : x \in db' <=> x \in ins[r] \/ (x \in db /\ x \notin del[r])
      /\ Staged(r) /\ Formed(r) /\ Staged(q) /\ Formed(q) /\ Grounded(q)
      /\ ~Clash(q, r) /\ ~Clash(r, q)
      /\ (kind[r] # "saveUser" => stage[r] = "flushed")
    BY CommitRows DEF RoleInv, LInv, StagedInv, FormInv
<1> DEFINE g == form[q].role
<1>2. SUFFICES ASSUME stage[q] = "flushed"
      PROVE  /\ kind[q] \in {"saveRole", "renameRole"} /\ ins[q] # {} => HasRole(db', g)
             /\ kind[q] = "createRole" => ~HasRole(db', g)
             /\ kind[q] = "deleteRole" =>
                 /\ \E n \in Names : RoleRow(g, n) \in del[q]
                 /\ \A n \in Names : RoleRow(g, n) \in db' => RoleRow(g, n) \in del[q]
                 /\ \A p \in Perms : RolePermRow(g, p) \in db' => RolePermRow(g, p) \in del[q]
    BY DEF Still, Grounded
<1>3. ASSUME kind[q] \in {"saveRole", "renameRole"}, ins[q] # {}
      PROVE  HasRole(db', g)
    <2>1. g \in Roles /\ HasRole(db, g)
        BY <1>1, <1>2, <1>3 DEF Grounded, Formed
    <2>2. ~(kind[r] = "deleteRole" /\ form[r].role = g)
        BY <1>1, <1>2, <1>3 DEF Clash
    <2> QED BY <2>1, <2>2, CommitRole
<1>4. ASSUME kind[q] = "createRole"
      PROVE  ~HasRole(db', g)
    <2>1. g \in Roles /\ ~HasRole(db, g)
        BY <1>1, <1>2, <1>4 DEF Grounded, Formed
    <2>2. ASSUME kind[r] = "createRole", form[r].role = g PROVE FALSE
        <3>1. ins[r] # {}
            BY <1>1, <2>2 DEF Staged
        <3> QED BY <1>1, <1>2, <1>4, <2>2, <3>1 DEF Clash
    <2> QED BY <2>1, <2>2, CommitRole
<1>5. ASSUME kind[q] = "deleteRole"
      PROVE  /\ \E n \in Names : RoleRow(g, n) \in del[q]
             /\ \A n \in Names : RoleRow(g, n) \in db' => RoleRow(g, n) \in del[q]
             /\ \A p \in Perms : RolePermRow(g, p) \in db' => RolePermRow(g, p) \in del[q]
    <2>1. g \in Roles
        BY <1>1, <1>5 DEF Formed
    <2>2. ASSUME NEW n \in Names PROVE RoleRow(g, n) \notin ins[r]
        BY <1>1, <1>2, <1>5, <2>1 DEF Clash, Staged
    <2>3. ASSUME NEW p \in Perms PROVE RolePermRow(g, p) \notin ins[r]
        BY <1>1, <1>2, <1>5, <2>1 DEF Clash, Staged
    <2> QED BY <1>1, <1>2, <1>5, <2>2, <2>3 DEF Grounded
<1> QED BY <1>3, <1>4, <1>5

LEMMA GroundedFlush ==
    ASSUME LInv, NEW r \in Requests, Begins(r) \/ Continues(r)
    PROVE  Grounded(r)'
<1> SUFFICES ASSUME stage'[r] = "flushed" PROVE Grounded(r)'
    BY DEF Grounded
<1>1. db' = db
    BY FlushSteps DEF GoesOn
<1>2. CASE CreateInsert(r)
    BY <1>1, <1>2, FlushCreate DEF Grounded, HasRole
<1>3. CASE Rename(r)
    BY <1>1, <1>3, FlushRename DEF Grounded
<1>4. CASE SaveInsert(r)
    BY <1>1, <1>4, FlushSave DEF Grounded
<1>5. CASE DeleteRole(r)
    BY <1>1, <1>5, FlushDelete DEF Grounded
<1>6. CASE UserPerms(r)
    <2>1. kind'[r] = "saveUser"
        BY <1>6 DEF UserPerms, Finish, LInv, FormInv, Formed
    <2> QED BY <2>1 DEF Grounded
<1> QED BY <1>2, <1>3, <1>4, <1>5, <1>6, FlushSteps

LEMMA NoClashFlush ==
    ASSUME LInv, RoleInv, NEW r \in Requests, Begins(r) \/ Continues(r), stage'[r] = "flushed",
           NEW q \in Requests \ {r}, Still(q)
    PROVE  ~Clash(r, q)' /\ ~Clash(q, r)'
<1>1. Staged(q) /\ Formed(q) /\ Grounded(q)
    BY DEF LInv, StagedInv, FormInv, RoleInv
<1>2. CASE CreateInsert(r)
    <2>1. ASSUME Clash(r, q)' PROVE FALSE
        <3>1. /\ stage[q] = "flushed" /\ ins[q] # {} /\ form[q].role = form'[r].role
              /\ kind[q] \in {"createRole", "renameRole", "saveRole"}
            BY <2>1 DEF Clash, Still
        <3>2. CASE kind[q] # "saveRole"
            BY <1>2, <3>1, <3>2, StagedRole, FlushCreate
        <3>3. CASE kind[q] = "saveRole"
            BY <1>1, <1>2, <3>1, <3>3, FlushCreate DEF Grounded, HasRole
        <3> QED BY <3>2, <3>3
    <2>2. ASSUME Clash(q, r)' PROVE FALSE
        <3>1. /\ stage[q] = "flushed" /\ form[q].role = form'[r].role
              /\ kind[q] \in {"createRole", "deleteRole"}
            BY <2>2 DEF Clash, Still
        <3>2. CASE kind[q] = "createRole"
            BY <1>1, <1>2, <3>1, <3>2, FlushCreate DEF Staged, Formed
        <3>3. CASE kind[q] = "deleteRole"
            BY <1>1, <1>2, <3>1, <3>3, FlushCreate DEF Grounded
        <3> QED BY <3>1, <3>2, <3>3
    <2> QED BY <2>1, <2>2
<1>3. CASE DeleteRole(r)
    <2>1. kind'[r] = "deleteRole" /\ form'[r] = form[r]
        BY <1>3, FlushDelete
    <2>2. ASSUME Clash(r, q)' PROVE FALSE
        <3>1. /\ stage[q] = "flushed" /\ ins[q] # {} /\ form[q].role = form[r].role
              /\ kind[q] \in {"createRole", "renameRole", "saveRole"}
            BY <2>1, <2>2 DEF Clash, Still
        <3> QED BY <1>3, <3>1, StagedRole, FlushDelete
    <2> QED BY <2>1, <2>2 DEF Clash
<1>4. CASE Rename(r)
    <2>1. kind'[r] = "renameRole" /\ form'[r] = form[r]
        BY <1>4, FlushRename
    <2>2. ASSUME Clash(q, r)' PROVE FALSE
        <3>1. /\ stage[q] = "flushed" /\ form[q].role = form[r].role /\ ins'[r] # {}
              /\ kind[q] \in {"createRole", "deleteRole"}
            BY <2>1, <2>2 DEF Clash, Still
        <3>2. PICK n \in Names : RoleRow(form[r].role, n) \in db
                                 /\ RoleRow(form[r].role, n) \notin ins[q] \cup del[q]
            BY <1>4, <3>1, FlushRename DEF HasRole
        <3> QED BY <1>1, <3>1, <3>2 DEF Grounded, HasRole
    <2> QED BY <2>1, <2>2 DEF Clash
<1>5. CASE SaveInsert(r)
    <2>1. kind'[r] = "saveRole" /\ form'[r] = form[r]
        BY <1>5, FlushSave
    <2>2. ASSUME Clash(q, r)' PROVE FALSE
        <3>1. /\ stage[q] = "flushed" /\ form[q].role = form[r].role /\ ins'[r] # {}
              /\ kind[q] \in {"createRole", "deleteRole"}
            BY <2>1, <2>2 DEF Clash, Still
        <3> QED BY <1>1, <1>5, <3>1, FlushSave DEF Grounded
    <2> QED BY <2>1, <2>2 DEF Clash
<1>6. CASE UserPerms(r)
    <2>1. kind'[r] = "saveUser"
        BY <1>6 DEF UserPerms, Finish, LInv, FormInv, Formed
    <2> QED BY <2>1 DEF Clash
<1> QED BY <1>2, <1>3, <1>4, <1>5, <1>6, FlushSteps

LEMMA RoleNext == LInv /\ RoleInv /\ [Next]_vars => RoleInv'
<1> SUFFICES ASSUME LInv, RoleInv, [Next]_vars PROVE RoleInv'
    OBVIOUS
<1>1. CASE Next
    <2>1. PICK r \in Requests : Begins(r) \/ Continues(r)
        BY <1>1 DEF Next
    <2>2. \A q \in Requests \ {r} : Still(q)
        BY <2>1, OthersStill DEF LInv
    <2>3. Starts(r) \/ GoesOn(r) \/ Commits(r)
        BY <2>1, StepKinds DEF LInv
    <2>4. PermsHaveRole'
        <3>1. CASE db' = db
            BY <3>1 DEF RoleInv, PermsHaveRole
        <3>2. CASE Commits(r)
            BY <3>2, PermsHaveRoleNext
        <3> QED BY <2>3, <3>1, <3>2 DEF Starts, GoesOn
    <2>5. ASSUME NEW q \in Requests PROVE Grounded(q)'
        <3>1. CASE q = r
            BY <2>1, <3>1, GroundedFlush
        <3>2. CASE q # r /\ db' = db
            <4>1. Grounded(q) /\ Still(q)
                BY <2>2, <3>2 DEF RoleInv
            <4> QED BY <3>2, <4>1 DEF Grounded, Still
        <3>3. CASE q # r /\ Commits(r)
            BY <2>2, <3>3, GroundedCommit
        <3> QED BY <2>3, <3>1, <3>2, <3>3 DEF Starts, GoesOn
    <2>6. ASSUME NEW d \in Requests, NEW q \in Requests PROVE ~Clash(d, q)'
        <3>1. CASE d # r /\ q # r
            <4>1. ~Clash(d, q) /\ Still(d) /\ Still(q)
                BY <2>2, <3>1 DEF RoleInv
            <4> QED BY <4>1 DEF Clash, Still
        <3>2. CASE d = q \/ stage'[r] # "flushed"
            BY <3>1, <3>2 DEF Clash
        <3>3. CASE d # q /\ stage'[r] = "flushed"
            BY <2>1, <2>2, <3>1, <3>3, NoClashFlush
        <3> QED BY <3>2, <3>3
    <2> QED BY <2>4, <2>5, <2>6 DEF RoleInv
<1>2. CASE UNCHANGED vars
    BY <1>2 DEF vars, local, history, RoleInv, PermsHaveRole, Grounded, Clash
<1> QED BY <1>1, <1>2

-----------------------------------------------------------------------------
(***************************************************************************)
(* Errors.  Whoever has the service for himself finds the database as he   *)
(* read it, and no statement of his fails.                                 *)
(***************************************************************************)

LEMMA AloneFrame ==
    ASSUME LInv, OverlapInv, NEW r \in Requests, Begins(r) \/ Continues(r),
           NEW q \in Requests \ {r}, InService(q)
    PROVE  <<q, r>> \in overlap' /\ <<r, q>> \in overlap'
<1>1. Starts(r) \/ GoesOn(r) \/ Commits(r)
    BY StepKinds DEF LInv
<1>2. CASE Starts(r)
    BY <1>2 DEF Starts
<1>3. CASE GoesOn(r) \/ Commits(r)
    <2>1. InService(r)
        BY <1>3 DEF GoesOn, Commits, InService
    <2> QED BY <2>1, OverlapGrows DEF OverlapInv, LInv
<1> QED BY <1>1, <1>2, <1>3

LEMMA SettledBegin ==
    ASSUME LInv, NEW r \in Requests, Begins(r)
    PROVE  Settled(r)'
<1>1. ASSUME NEW k, NEW f, Begin(r, k, f)
      PROVE  kind'[r] = k /\ stage'[r] = "loaded" /\ form'[r] = f /\ db' = db
    <2>1. kind'[r] = k /\ stage'[r] = "loaded" /\ form'[r] = f
        BY <1>1, BeginLocal DEF LInv
    <2>2. db' = db
        BY <1>1 DEF Begin
    <2> QED BY <2>1, <2>2
<1>2. CASE CreateBegin(r)
    <2>1. PICK f \in Forms : Begin(r, "createRole", f) /\ NameIsFree(f.name)
        BY <1>2, CreateBegins DEF LInv
    <2> QED BY <1>1, <2>1 DEF Settled, NameIsFree
<1>3. CASE RenameBegin(r)
    <2>1. PICK f \in Forms : Begin(r, "renameRole", f)
        BY <1>3, RenameBegins DEF LInv
    <2> QED BY <1>1, <2>1 DEF Settled
<1>4. CASE SaveBegin(r)
    <2>1. PICK f \in Forms : Begin(r, "saveRole", f) /\ HasRole(db, f.role)
        BY <1>4, SaveBegins DEF LInv
    <2> QED BY <1>1, <2>1 DEF Settled
<1>5. CASE DeleteBegin(r)
    <2>1. PICK f \in Forms : Begin(r, "deleteRole", f) /\ HasRole(db, f.role)
        BY <1>5, DeleteBegins DEF LInv
    <2> QED BY <1>1, <2>1 DEF Settled
<1>6. CASE UserBegin(r)
    <2>1. PICK f \in Forms : /\ Begin(r, "saveUser", f)
                             /\ seen' = [seen EXCEPT ![r] = db \cap {SuperRow(f.user)}]
        BY <1>6, UserBegins DEF LInv
    <2>2. seen'[r] \subseteq {SuperRow(f.user)}
        BY <2>1 DEF LInv, TypeOK
    <2>3. seen'[r] \cap (RoleRows \cup UserRoleRows) = {}
        BY <2>2, RowsApart, RowSets
    <2> QED BY <1>1, <2>1, <2>3 DEF Settled
<1>7. CASE CheckBegin(r)
    <2>1. PICK f \in Forms : Begin(r, "check", f)
        BY <1>7, CheckBegins DEF LInv
    <2> QED BY <1>1, <2>1 DEF Settled
<1> QED BY <1>2, <1>3, <1>4, <1>5, <1>6, <1>7 DEF Begins

LEMMA SettledContinue ==
    ASSUME LInv, NEW r \in Requests, Continues(r), Settled(r)
    PROVE  Settled(r)'
<1>1. Formed(r)
    BY DEF LInv, FormInv
<1>2. CASE SaveClear(r) \/ DeleteClear(r)
    <2>1. /\ kind[r] \in {"saveRole", "deleteRole"} /\ stage[r] \in {"loaded", "counted"}
          /\ Stage(r, {}, OldPermissions(r, form[r].role)) /\ Continue(r, "cleared")
        BY <1>2 DEF SaveClear, DeleteClear
    <2>2. /\ kind'[r] = kind[r] /\ stage'[r] = "cleared" /\ form'[r] = form[r] /\ db' = db
          /\ del'[r] = del[r] \cup OldPermissions(r, form[r].role)
        BY <2>1 DEF Continue, Stage, LInv, TypeOK
    <2>3. \A p \in Perms : RolePermRow(form[r].role, p) \in db =>
              RolePermRow(form[r].role, p) \in OldPermissions(r, form[r].role)
        <3>1. form[r].role \in Roles
            BY <1>1, <2>1 DEF Formed
        <3>2. \A p \in Perms : RolePermRow(form[r].role, p) \in RolePermRows
            BY <3>1, RowSets
        <3>3. \A p \in Perms : RolePermRow(form[r].role, p)[2] = form[r].role
            BY RowFields
        <3> QED BY <3>2, <3>3 DEF OldPermissions
    <2>4. HasRole(db, form[r].role) => HasRole(db', form'[r].role)
        <3>1. db' = db /\ form'[r] = form[r]
            BY <2>2
        <3> QED BY <3>1
    <2>5. \A p \in Perms : RolePermRow(form'[r].role, p) \in db' =>
              RolePermRow(form'[r].role, p) \in del'[r]
        BY <2>2, <2>3
    <2>6. HasRole(db', form'[r].role)
        BY <2>1, <2>4 DEF Settled
    <2>7. kind'[r] \in {"saveRole", "deleteRole"} /\ stage'[r] = "cleared"
        BY <2>1, <2>2
    <2> QED BY <2>5, <2>6, <2>7 DEF Settled
<1>3. CASE DeleteCount(r)
    <2>1. /\ kind[r] = "deleteRole" /\ stage[r] = "loaded"
          /\ RollBack(r, "refused") \/ Continue(r, "counted")
        BY <1>3 DEF DeleteCount
    <2>2. /\ kind'[r] = "deleteRole" /\ stage'[r] \in {"done", "counted"}
          /\ form'[r] = form[r] /\ db' = db
        BY <2>1 DEF Continue, RollBack, LInv, TypeOK
    <2> QED BY <2>1, <2>2 DEF Settled
<1>4. CASE UserRoles(r)
    <2> DEFINE mine == {x \in db \cap UserRoleRows : x[2] = form[r].user}
               roles == {x \in db \cap RoleRows : x[2] \in form[r].roles}
    <2>1. /\ kind[r] = "saveUser" /\ stage[r] = "loaded"
          /\ Continue(r, "rolesRead")
          /\ seen' = [seen EXCEPT ![r] = @ \cup mine \cup roles]
        BY <1>4 DEF UserRoles
    <2>2. /\ kind'[r] = "saveUser" /\ stage'[r] = "rolesRead" /\ form'[r] = form[r] /\ db' = db
          /\ seen'[r] = seen[r] \cup mine \cup roles
        BY <2>1 DEF Continue, LInv, TypeOK
    <2>3. seen[r] \cap (RoleRows \cup UserRoleRows) = {}
        BY <2>1 DEF Settled
    <2>4. \A g \in Roles : UserRoleRow(form[r].user, g) \in db =>
              UserRoleRow(form[r].user, g) \in mine
        <3>1. form[r].user \in Users
            BY <1>1, <2>1 DEF Formed
        <3> QED BY <3>1, RowSets, RowFields
    <2>5. mine \subseteq db /\ roles \subseteq db
        OBVIOUS
    <2> HIDE DEF mine, roles
    <2> QED BY <2>2, <2>3, <2>4, <2>5 DEF Settled
<1>5. CASE CheckRoles(r)
    <2>1. kind'[r] = "check"
        BY <1>5 DEF CheckRoles, Continue
    <2> QED BY <2>1 DEF Settled
<1>6. CASE stage'[r] \in {"done", "flushed", "dispatched"}
    BY <1>6 DEF Settled
<1>7. CASE CreateInsert(r) \/ Rename(r) \/ SaveInsert(r) \/ DeleteRole(r)
    <2>1. stage'[r] \in {"done", "flushed"}
        BY <1>7 DEF CreateInsert, Rename, SaveInsert, DeleteRole, RollBack, Finish, LInv, TypeOK
    <2> QED BY <1>6, <2>1
<1>8. CASE UserFlush(r) \/ DispatchCommit(r) \/ UserPerms(r)
    <2>1. stage'[r] \in {"done", "flushed", "dispatched"}
        BY <1>8, UserFlushes DEF DispatchCommit, UserPerms, RollBack, Continue, Finish,
                                LInv, TypeOK
    <2> QED BY <1>6, <2>1
<1>9. CASE CheckAnswer(r) \/ Commit(r) \/ FailCommit(r)
    <2>1. stage'[r] = "done"
        BY <1>9 DEF CheckAnswer, Commit, FailCommit, RollBack, LInv, TypeOK
    <2> QED BY <1>6, <2>1
<1> QED BY <1>2, <1>3, <1>4, <1>5, <1>7, <1>8, <1>9 DEF Continues

LEMMA AloneNext == LInv /\ OverlapInv /\ AloneInv /\ [Next]_vars => AloneInv'
<1> SUFFICES ASSUME LInv, OverlapInv, AloneInv, [Next]_vars PROVE AloneInv'
    OBVIOUS
<1>1. CASE Next
    <2>1. PICK r \in Requests : Begins(r) \/ Continues(r)
        BY <1>1 DEF Next
    <2>2. ASSUME NEW q \in Requests, Alone(q)' PROVE Settled(q)'
        <3>1. Alone(q)
            BY <2>1, <2>2, OverlapGrows DEF Alone, LInv
        <3>2. Settled(q)
            BY <3>1 DEF AloneInv
        <3>3. CASE q = r
            BY <2>1, <3>2, <3>3, SettledBegin, SettledContinue
        <3>4. CASE q # r /\ InService(q)
            BY <2>1, <2>2, <3>4, AloneFrame DEF Alone
        <3>5. CASE q # r /\ ~InService(q)
            <4>1. Still(q)
                BY <2>1, <3>5, OthersStill DEF LInv
            <4> QED BY <3>5, <4>1 DEF Settled, Still, InService
        <3> QED BY <3>3, <3>4, <3>5
    <2> QED BY <2>2 DEF AloneInv
<1>2. CASE UNCHANGED vars
    BY <1>2 DEF vars, local, history, AloneInv, Alone, Settled
<1> QED BY <1>1, <1>2

LEMMA NoErrorAlone ==
    ASSUME LInv, NEW r \in Requests, Begins(r) \/ Continues(r), Settled(r),
           answer'[r] = "error", kind'[r] # "renameRole"
    PROVE  answer[r] = "error"
<1>1. Formed(r)
    BY DEF LInv, FormInv
<1>2. CASE CreateInsert(r)
    BY <1>2 DEF CreateInsert, Settled, LInv, TypeOK
<1>3. CASE Rename(r)
    BY <1>3 DEF Rename, RollBack, Finish, LInv, TypeOK
<1>4. CASE SaveInsert(r)
    <2> DEFINE g == form[r].role
               new == {RolePermRow(g, p) : p \in form[r].perms}
    <2>1. /\ kind[r] = "saveRole" /\ stage[r] = "cleared" /\ form[r].perms \subseteq Perms
        BY <1>4, FormFields DEF SaveInsert, LInv
    <2>2. HasRole(db, g) /\ new \cap (db \ del[r]) = {}
        BY <2>1 DEF Settled
    <2>3. Finish(r)
        BY <1>4, <2>2 DEF SaveInsert
    <2> QED BY <2>3 DEF Finish, LInv, TypeOK
<1>5. CASE DeleteRole(r)
    <2> DEFINE g == form[r].role
    <2>1. kind[r] = "deleteRole" /\ stage[r] = "cleared" /\ g \in Roles
        BY <1>1, <1>5 DEF DeleteRole, Formed
    <2>2. PICK n \in Names : RoleRow(g, n) \in db
        BY <2>1 DEF Settled, HasRole
    <2>3. RoleRow(g, n) \in {x \in db \cap RoleRows : x[2] = g}
        BY <2>1, <2>2, RowSets, RowFields
    <2>4. Finish(r)
        BY <1>5, <2>3 DEF DeleteRole
    <2> QED BY <2>4 DEF Finish, LInv, TypeOK
<1>6. CASE UserFlush(r)
    <2>1. kind[r] = "saveUser" /\ stage[r] = "rolesRead"
        BY <1>6, UserFlushes
    <2>2. /\ seen[r] \cap RoleRows \subseteq db /\ seen[r] \cap UserRoleRows \subseteq db
          /\ \A g \in Roles : UserRoleRow(form[r].user, g) \in db =>
              UserRoleRow(form[r].user, g) \in seen[r]
        BY <2>1 DEF Settled
    <2>3. ASSUME NEW x \in UserAdded(r) \cap UserRoleRows
          PROVE  x \notin db /\ HasRole(db, x[3])
        <3>1. PICK g \in form[r].roles : x = UserRoleRow(form[r].user, g) /\ HasRole(seen[r], g)
            BY <2>3, UserDifference
        <3>2. g \in Roles /\ x \notin seen[r]
            BY <2>3, <3>1, FormFields, UserDifference DEF LInv
        <3>3. HasRole(db, g)
            BY <2>2, <3>1, <3>2, RowSets DEF HasRole
        <3> QED BY <2>2, <3>1, <3>2, <3>3, RowFields
    <2>4. UserRemoved(r) \cap UserRoleRows \subseteq db
        BY <2>2, UserDifference
    <2>5. Continue(r, "dispatched")
        BY <1>6, <2>3, <2>4, UserFlushes
    <2> QED BY <2>5 DEF Continue
<1>7. CASE Begins(r)
    <2>1. ASSUME NEW k, NEW f, Begin(r, k, f) PROVE answer'[r] = answer[r]
        BY <2>1, BeginLocal DEF LInv
    <2> QED BY <1>7, <2>1, CreateBegins, SaveBegins, DeleteBegins, RenameBegins, UserBegins,
               CheckBegins DEF LInv, Begins
<1>8. CASE DeleteCount(r) \/ FailCommit(r)
    BY <1>8 DEF DeleteCount, FailCommit, RollBack, Continue, LInv, TypeOK
<1>9. CASE SaveClear(r) \/ DeleteClear(r) \/ UserRoles(r) \/ CheckRoles(r) \/ CheckAnswer(r)
    BY <1>9 DEF SaveClear, DeleteClear, UserRoles, CheckRoles, CheckAnswer, Continue, LInv, TypeOK
<1>10. CASE DispatchCommit(r) \/ Commit(r) \/ UserPerms(r)
    BY <1>10 DEF DispatchCommit, Commit, UserPerms, Apply, Finish, LInv, TypeOK
<1> QED BY <1>2, <1>3, <1>4, <1>5, <1>6, <1>7, <1>8, <1>9, <1>10 DEF Continues

LEMMA ErrorsNext ==
    LInv /\ AloneInv /\ ErrorsNeedOverlap /\ [Next]_vars => ErrorsNeedOverlap'
<1> SUFFICES ASSUME LInv, AloneInv, ErrorsNeedOverlap, [Next]_vars,
                    NEW q \in Requests, answer'[q] = "error", kind'[q] # "renameRole"
             PROVE  \E s \in Requests : <<q, s>> \in overlap'
    BY DEF ErrorsNeedOverlap
<1>1. CASE Next
    <2>1. PICK r \in Requests : Begins(r) \/ Continues(r)
        BY <1>1 DEF Next
    <2>2. overlap \subseteq overlap'
        BY <2>1, OverlapGrows DEF LInv
    <2>3. CASE answer[q] = "error" /\ kind[q] = kind'[q]
        BY <2>2, <2>3 DEF ErrorsNeedOverlap
    <2>4. CASE q # r
        <3>1. Still(q)
            BY <2>1, <2>4, OthersStill DEF LInv
        <3> QED BY <2>3, <3>1 DEF Still
    <2>5. CASE q = r /\ Alone(r)
        <3>1. answer[q] = "error"
            BY <2>1, <2>5, NoErrorAlone DEF AloneInv
        <3>2. stage[q] # "idle"
            BY <3>1 DEF LInv, FormInv, Formed
        <3>3. GoesOn(r) \/ Commits(r)
            BY <2>1, <2>5, <3>2, StepKinds DEF LInv, Starts
        <3>4. ~Begins(r)
            <4>1. ASSUME NEW k, NEW f, Begin(r, k, f) PROVE FALSE
                BY <2>5, <3>2, <4>1 DEF Begin
            <4> QED BY <4>1, CreateBegins, SaveBegins, DeleteBegins, RenameBegins, UserBegins,
                       CheckBegins DEF LInv, Begins
        <3>5. kind'[q] = kind[q]
            BY <2>1, <2>5, <3>4, KindKept
        <3> QED BY <2>3, <3>1, <3>5
    <2>6. CASE q = r /\ ~Alone(r)
        BY <2>2, <2>6 DEF Alone
    <2> QED BY <2>4, <2>5, <2>6
<1>2. CASE UNCHANGED vars
    BY <1>2 DEF vars, local, history, ErrorsNeedOverlap
<1> QED BY <1>1, <1>2

-----------------------------------------------------------------------------
(***************************************************************************)
(* Roles lost to a deletion: the deletion counted nobody, so whom it takes *)
(* the role from got it from a request in service with it.                 *)
(***************************************************************************)

LEMMA DeleteSteps ==
    ASSUME LInv, NEW r \in Requests, Continues(r), kind'[r] = "deleteRole",
           stage'[r] \in {"counted", "cleared", "flushed"}
    PROVE  GoesOn(r) /\ (DeleteCount(r) \/ DeleteClear(r) \/ DeleteRole(r))
<1>1. kind[r] = "deleteRole" /\ Formed(r)
    BY KindKept DEF LInv, FormInv
<1>2. ~Commit(r) /\ ~FailCommit(r)
    BY DEF Commit, FailCommit, RollBack, LInv, TypeOK
<1>3. ~DispatchCommit(r) /\ ~UserPerms(r)
    BY <1>1 DEF DispatchCommit, UserPerms, Formed
<1>4. ~CreateInsert(r) /\ ~Rename(r) /\ ~SaveClear(r) /\ ~SaveInsert(r) /\ ~UserRoles(r)
          /\ ~CheckRoles(r) /\ ~CheckAnswer(r) /\ ~UserFlush(r)
    BY <1>1, UserFlushes DEF CreateInsert, Rename, SaveClear, SaveInsert, UserRoles, CheckRoles,
                            CheckAnswer
<1>5. DeleteCount(r) \/ DeleteClear(r) \/ DeleteRole(r)
    BY <1>2, <1>3, <1>4 DEF Continues
<1>6. GoesOn(r)
    BY <1>5 DEF DeleteCount, DeleteClear, DeleteRole, RollBack, Continue, Finish, GoesOn, InService
<1> QED BY <1>5, <1>6

LEMMA BeginsLoad ==
    ASSUME LInv, NEW r \in Requests, Begins(r)
    PROVE  /\ stage[r] = "idle" /\ stage'[r] = "loaded" /\ ins'[r] = {} /\ del'[r] = {}
           /\ Starts(r)
<1>1. PICK k, f : Begin(r, k, f)
    BY CreateBegins, SaveBegins, DeleteBegins, RenameBegins, UserBegins, CheckBegins
       DEF LInv, Begins
<1>2. stage[r] = "idle" /\ stage'[r] = "loaded" /\ ins'[r] = {} /\ del'[r] = {}
    BY <1>1, BeginLocal DEF LInv
<1>3. Starts(r)
    BY <1>2, StepKinds DEF LInv, GoesOn, Commits, InService
<1> QED BY <1>2, <1>3

LEMMA GivenOwn ==
    ASSUME LInv, NEW r \in Requests, Begins(r) \/ Continues(r), Given(r)
    PROVE  Given(r)'
<1> SUFFICES ASSUME kind'[r] = "deleteRole", stage'[r] \in {"counted", "cleared", "flushed"}
             PROVE  \A u \in Users : LET x == UserRoleRow(u, form'[r].role) IN
                       x \in db' \cup del'[r] => <<r, giver'[x]>> \in overlap'
    BY DEF Given
<1>1. Continues(r)
    BY BeginsLoad
<1>2. GoesOn(r) /\ (DeleteCount(r) \/ DeleteClear(r) \/ DeleteRole(r))
    BY <1>1, DeleteSteps
<1>3. kind[r] = "deleteRole" /\ form[r].role \in Roles
    BY <1>1, KindKept DEF LInv, FormInv, Formed
<1>4. db' = db /\ giver' = giver /\ overlap' = overlap
    BY <1>2 DEF GoesOn, history
<1>5. CASE DeleteCount(r)
    <2>1. /\ stage[r] = "loaded"
          /\ RollBack(r, "refused") \/ Holders(form[r].role) = {}
          /\ RollBack(r, "refused") \/ (Continue(r, "counted") /\ UNCHANGED del)
        BY <1>5 DEF DeleteCount
    <2>2. ~RollBack(r, "refused")
        BY DEF RollBack, LInv, TypeOK
    <2>3. del'[r] = {} /\ form'[r] = form[r]
        <3>1. del[r] = {}
            BY <2>1, NothingStaged DEF LInv
        <3>2. Continue(r, "counted") /\ UNCHANGED del
            BY <2>1, <2>2
        <3>3. form' = form
            BY <3>2 DEF Continue
        <3> QED BY <3>1, <3>2, <3>3
    <2>4. \A u \in Users : UserRoleRow(u, form[r].role) \notin db
        <3>1. Holders(form[r].role) = {}
            BY <2>1, <2>2
        <3>2. \A u \in Users : LET x == UserRoleRow(u, form[r].role) IN
                x \in UserRoleRows /\ x[3] = form[r].role
            BY <1>3, RowSets, RowFields
        <3> QED BY <3>1, <3>2 DEF Holders
    <2> QED BY <1>4, <2>3, <2>4
<1>6. CASE DeleteClear(r)
    <2>1. /\ stage[r] = "counted" /\ Stage(r, {}, OldPermissions(r, form[r].role))
          /\ Continue(r, "cleared")
        BY <1>6 DEF DeleteClear
    <2>2. del'[r] = del[r] \cup OldPermissions(r, form[r].role) /\ form'[r] = form[r]
        BY <2>1 DEF Stage, Continue, LInv, TypeOK
    <2>3. \A u \in Users : UserRoleRow(u, form[r].role) \notin OldPermissions(r, form[r].role)
        BY <1>3, OldPermissionRows, RowsApart DEF LInv
    <2> QED BY <1>3, <1>4, <2>1, <2>2, <2>3 DEF Given
<1>7. CASE DeleteRole(r)
    <2> DEFINE gone == {x \in db \cap RoleRows : x[2] = form[r].role} \cup
                   (db \cap ({UserRoleRow(u, form[r].role) : u \in Users} \cup
                             {RolePermRow(form[r].role, p) : p \in Perms}))
    <2>1. ~RollBack(r, "error")
        BY DEF RollBack, LInv, TypeOK
    <2>2. /\ stage[r] = "cleared" /\ Stage(r, {}, gone) /\ Finish(r)
        BY <1>7, <2>1 DEF DeleteRole
    <2>3. gone \subseteq db
        OBVIOUS
    <2> HIDE DEF gone
    <2>4. del'[r] = del[r] \cup gone /\ form'[r] = form[r]
        BY <2>2 DEF Stage, Finish, LInv, TypeOK
    <2> QED BY <1>3, <1>4, <2>2, <2>3, <2>4 DEF Given
<1> QED BY <1>2, <1>5, <1>6, <1>7

LEMMA GivenOther ==
    ASSUME LInv, OverlapInv, NEW r \in Requests, Begins(r) \/ Continues(r),
           NEW q \in Requests \ {r}, Still(q), Given(q)
    PROVE  Given(q)'
<1> SUFFICES ASSUME kind[q] = "deleteRole", stage[q] \in {"counted", "cleared", "flushed"},
                    NEW u \in Users,
                    UserRoleRow(u, form[q].role) \in db' \cup del[q]
             PROVE  <<q, giver'[UserRoleRow(u, form[q].role)]>> \in overlap'
    BY DEF Given, Still
<1> DEFINE x == UserRoleRow(u, form[q].role)
<1>1. overlap \subseteq overlap'
    BY OverlapGrows DEF LInv
<1>2. form[q].role \in Roles
    BY DEF LInv, FormInv, Formed
<1>3. <<q, r>> \in overlap'
    BY AloneFrame DEF InService
<1>4. CASE db' = db /\ giver' = giver
    BY <1>1, <1>4 DEF Given
<1>5. CASE Commits(r)
    <2>1. x \in UserRoleRows
        BY <1>2, RowSets
    <2>2. giver' = [y \in UserRoleRows |-> IF y \in ins[r] THEN r ELSE giver[y]]
        BY <1>5 DEF Commits, Apply
    <2>3. giver'[x] = IF x \in ins[r] THEN r ELSE giver[x]
        BY <2>1, <2>2
    <2>4. x \notin ins[r] => x \in db \cup del[q]
        BY <1>5, CommitRows
    <2> QED BY <1>1, <1>3, <2>3, <2>4 DEF Given
<1> QED BY <1>4, <1>5, StepKinds DEF LInv, Starts, GoesOn, history

LEMMA GivenNext == LInv /\ OverlapInv /\ GivenInv /\ [Next]_vars => GivenInv'
<1> SUFFICES ASSUME LInv, OverlapInv, GivenInv, [Next]_vars PROVE GivenInv'
    OBVIOUS
<1>1. CASE Next
    <2>1. PICK r \in Requests : Begins(r) \/ Continues(r)
        BY <1>1 DEF Next
    <2>2. ASSUME NEW q \in Requests PROVE Given(q)'
        BY <2>1, GivenOwn, GivenOther, OthersStill DEF GivenInv, LInv
    <2> QED BY <2>2 DEF GivenInv
<1>2. CASE UNCHANGED vars
    BY <1>2 DEF vars, local, history, GivenInv, Given
<1> QED BY <1>1, <1>2

LEMMA LostNext ==
    LInv /\ GivenInv /\ LostRolesNeedOverlap /\ [Next]_vars => LostRolesNeedOverlap'
<1> SUFFICES ASSUME LInv, GivenInv, LostRolesNeedOverlap, [Next]_vars PROVE LostRolesNeedOverlap'
    OBVIOUS
<1>1. CASE Next
    <2>1. PICK r \in Requests : Begins(r) \/ Continues(r)
        BY <1>1 DEF Next
    <2>2. overlap \subseteq overlap'
        BY <2>1, OverlapGrows DEF LInv
    <2>3. CASE lost' = lost
        BY <2>2, <2>3 DEF LostRolesNeedOverlap
    <2>4. CASE Commits(r) /\ kind[r] = "deleteRole"
        <3>1. lost' = lost \cup {<<r, giver[x]>> : x \in del[r] \cap UserRoleRows}
            BY <2>4 DEF Commits, Apply
        <3>2. Staged(r) /\ stage[r] = "flushed" /\ form[r].role \in Roles
            BY <2>4, CommitRows DEF Formed
        <3>3. ASSUME NEW x \in del[r] \cap UserRoleRows PROVE <<r, giver[x]>> \in overlap
            <4>1. PICK u \in Users, g \in Roles : x = UserRoleRow(u, g)
                BY <3>3, RowSets
            <4>2. g = form[r].role
                BY <2>4, <3>2, <3>3, <4>1 DEF Staged
            <4> QED BY <2>4, <3>2, <3>3, <4>1, <4>2 DEF GivenInv, Given
        <3> QED BY <2>2, <3>1, <3>3 DEF LostRolesNeedOverlap
    <2>5. CASE Commits(r) /\ kind[r] # "deleteRole"
        BY <2>3, <2>5 DEF Commits, Apply
    <2> QED BY <2>1, <2>3, <2>4, <2>5, StepKinds DEF LInv, Starts, GoesOn, history
<1>2. CASE UNCHANGED vars
    BY <1>2 DEF vars, local, history, LostRolesNeedOverlap
<1> QED BY <1>1, <1>2

-----------------------------------------------------------------------------
(***************************************************************************)
(* The permissions of a role are its last editor's, and his rivals'.       *)
(***************************************************************************)

LEMMA SaveSteps ==
    ASSUME LInv, NEW r \in Requests, Continues(r), kind'[r] = "saveRole",
           stage'[r] \in {"cleared", "flushed"}
    PROVE  GoesOn(r) /\ (SaveClear(r) \/ SaveInsert(r))
<1>1. kind[r] = "saveRole" /\ Formed(r)
    BY KindKept DEF LInv, FormInv
<1>2. ~Commit(r) /\ ~FailCommit(r)
    BY DEF Commit, FailCommit, RollBack, LInv, TypeOK
<1>3. ~DispatchCommit(r) /\ ~UserPerms(r)
    BY <1>1 DEF DispatchCommit, UserPerms, Formed
<1>4. ~CreateInsert(r) /\ ~Rename(r) /\ ~DeleteCount(r) /\ ~DeleteClear(r) /\ ~DeleteRole(r)
          /\ ~UserRoles(r) /\ ~CheckRoles(r) /\ ~CheckAnswer(r) /\ ~UserFlush(r)
    BY <1>1, UserFlushes DEF CreateInsert, Rename, DeleteCount, DeleteClear, DeleteRole,
                            UserRoles, CheckRoles, CheckAnswer
<1>5. SaveClear(r) \/ SaveInsert(r)
    BY <1>2, <1>3, <1>4 DEF Continues
<1>6. GoesOn(r)
    BY <1>5 DEF SaveClear, SaveInsert, RollBack, Continue, Finish, GoesOn, InService
<1> QED BY <1>5, <1>6

\* An editor keeps to the selection he began with.
LEMMA SelectionKept ==
    ASSUME LInv, NEW r \in Requests, Begins(r) \/ Continues(r), NEW q \in Requests,
           stage[q] # "idle"
    PROVE  kind'[q] = kind[q] /\ form'[q].perms = form[q].perms
<1>1. CASE q # r
    BY <1>1, OthersStill DEF LInv, Still
<1>2. CASE q = r
    <2>1. Continues(r)
        BY <1>2, BeginsLoad
    <2>2. CASE CreateInsert(r)
        <3>1. form' = form \/ \E g \in Roles : form' = [form EXCEPT ![r].role = g]
            BY <2>2, Zenon DEF CreateInsert, RollBack
        <3>2. form'[r].perms = form[r].perms
            BY <3>1, NewRole DEF LInv
        <3> QED BY <1>2, <2>1, <3>2, KindKept
    <2>3. CASE ~CreateInsert(r)
        <3>1. form' = form
            BY <2>1, <2>3 DEF Continues, Rename, SaveClear, SaveInsert, DeleteCount, DeleteClear,
               DeleteRole, UserRoles, UserFlush, DispatchCommit, UserPerms, CheckRoles,
               CheckAnswer, Commit, FailCommit, Continue, Finish, RollBack, Apply
        <3> QED BY <2>1, <3>1, KindKept
    <2> QED BY <2>2, <2>3
<1> QED BY <1>1, <1>2

LEMMA RivaledOwn ==
    ASSUME LInv, NEW r \in Requests, Begins(r) \/ Continues(r), Rivaled(r)
    PROVE  Rivaled(r)'
<1> SUFFICES ASSUME kind'[r] = "saveRole", stage'[r] \in {"cleared", "flushed"},
                    NEW p \in Perms, RolePermRow(form'[r].role, p) \in db' \ del'[r]
             PROVE  \E q \in Requests : /\ <<q, r>> \in overlap'
                                        /\ kind'[q] \in {"saveRole", "createRole"}
                                        /\ p \in form'[q].perms
    BY DEF Rivaled
<1>1. Continues(r)
    BY BeginsLoad
<1>2. GoesOn(r) /\ (SaveClear(r) \/ SaveInsert(r))
    BY <1>1, SaveSteps
<1>3. kind[r] = "saveRole" /\ form[r].role \in Roles /\ db' = db /\ overlap' = overlap
    BY <1>1, <1>2, KindKept DEF LInv, FormInv, Formed, GoesOn, history
<1>4. CASE SaveClear(r)
    <2>1. Stage(r, {}, OldPermissions(r, form[r].role)) /\ Continue(r, "cleared")
        BY <1>4 DEF SaveClear
    <2>2. del'[r] = del[r] \cup OldPermissions(r, form[r].role) /\ form'[r] = form[r]
        BY <2>1 DEF Stage, Continue, LInv, TypeOK
    <2>3. RolePermRow(form[r].role, p) \in db =>
              RolePermRow(form[r].role, p) \in OldPermissions(r, form[r].role)
        BY <1>3, RowSets, RowFields DEF OldPermissions
    <2> QED BY <1>3, <2>2, <2>3
<1>5. CASE SaveInsert(r)
    <2>1. stage[r] = "cleared"
        BY <1>5 DEF SaveInsert
    <2>2. stage'[r] = "flushed"
        BY <1>5 DEF SaveInsert, RollBack, Finish, LInv, TypeOK
    <2>3. form'[r] = form[r] /\ del'[r] = del[r]
        BY <1>5, <2>2, FlushSave
    <2>4. PICK q \in Requests : /\ <<q, r>> \in overlap
                                /\ kind[q] \in {"saveRole", "createRole"}
                                /\ p \in form[q].perms
        BY <1>3, <2>1, <2>3 DEF Rivaled
    <2>5. stage[q] # "idle"
        BY <2>4 DEF LInv, FormInv, Formed
    <2>6. kind'[q] = kind[q] /\ form'[q].perms = form[q].perms
        BY <1>1, <2>5, SelectionKept
    <2> QED BY <1>3, <2>4, <2>6
<1> QED BY <1>2, <1>4, <1>5

LEMMA RivaledOther ==
    ASSUME LInv, OverlapInv, NEW r \in Requests, Begins(r) \/ Continues(r),
           NEW s \in Requests \ {r}, Still(s), Rivaled(s)
    PROVE  Rivaled(s)'
<1> SUFFICES ASSUME kind[s] = "saveRole", stage[s] \in {"cleared", "flushed"},
                    NEW p \in Perms, RolePermRow(form[s].role, p) \in db' \ del[s]
             PROVE  \E q \in Requests : /\ <<q, s>> \in overlap'
                                        /\ kind'[q] \in {"saveRole", "createRole"}
                                        /\ p \in form'[q].perms
    BY DEF Rivaled, Still
<1> DEFINE x == RolePermRow(form[s].role, p)
<1>1. CASE x \in db
    <2>1. PICK q \in Requests : /\ <<q, s>> \in overlap
                                /\ kind[q] \in {"saveRole", "createRole"}
                                /\ p \in form[q].perms
        BY <1>1 DEF Rivaled
    <2>2. stage[q] # "idle"
        BY <2>1 DEF LInv, FormInv, Formed
    <2>3. kind'[q] = kind[q] /\ form'[q].perms = form[q].perms
        BY <2>2, SelectionKept
    <2>4. <<q, s>> \in overlap'
        BY <2>1, OverlapGrows DEF LInv
    <2> QED BY <2>1, <2>3, <2>4
<1>2. CASE x \notin db
    <2>1. Commits(r)
        BY <1>2, StepKinds DEF LInv, Starts, GoesOn
    <2>2. x \in ins[r] /\ Staged(r) /\ kind' = kind /\ form' = form
        BY <1>2, <2>1, CommitRows
    <2>3. form[s].role \in Roles
        BY DEF LInv, FormInv, Formed
    <2>4. kind[r] \in {"createRole", "saveRole"} /\ p \in form[r].perms
        BY <2>2, <2>3 DEF Staged
    <2>5. <<r, s>> \in overlap'
        BY AloneFrame DEF InService
    <2> QED BY <2>2, <2>4, <2>5
<1> QED BY <1>1, <1>2

LEMMA LastSavedStep ==
    ASSUME LInv, NEW r \in Requests, Begins(r) \/ Continues(r), NEW g \in Roles, LastSaved(g)
    PROVE  /\ LastSaved(g)'
           /\ \/ lastSave'[g] = lastSave[g]
                   /\ ~(Commits(r) /\ kind[r] \in {"saveRole", "createRole"} /\ form[r].role = g)
              \/ /\ Commits(r) /\ kind[r] \in {"saveRole", "createRole"} /\ form[r].role = g
                 /\ lastSave'[g] = r
<1>1. CASE Commits(r) /\ kind[r] \in {"saveRole", "createRole"} /\ form[r].role = g
    <2>1. lastSave'[g] = r
        BY <1>1 DEF Commits, Apply, LInv, TypeOK
    <2>2. stage'[r] = "done" /\ kind'[r] = kind[r]
        BY <1>1, CommitRows
    <2> QED BY <1>1, <2>1, <2>2 DEF LastSaved
<1>2. CASE ~(Commits(r) /\ kind[r] \in {"saveRole", "createRole"} /\ form[r].role = g)
    <2>1. lastSave'[g] = lastSave[g]
        <3>1. CASE Commits(r)
            BY <1>2, <3>1 DEF Commits, Apply, LInv, TypeOK
        <3> QED BY <3>1, StepKinds DEF LInv, Starts, GoesOn, history
    <2>2. ASSUME lastSave[g] # None
          PROVE  stage'[lastSave[g]] = "done" /\ kind'[lastSave[g]] \in {"saveRole", "createRole"}
        <3>1. lastSave[g] \in Requests /\ stage[lastSave[g]] = "done"
            BY <2>2 DEF LastSaved, LInv, TypeOK
        <3>2. lastSave[g] # r
            BY <3>1, StepKinds DEF LInv, Starts, GoesOn, Commits, InService
        <3>3. Still(lastSave[g])
            BY <3>1, <3>2, OthersStill DEF LInv
        <3> QED BY <2>2, <3>3 DEF LastSaved, Still
    <2> QED BY <1>2, <2>1, <2>2 DEF LastSaved
<1> QED BY <1>1, <1>2

\* What a role's permissions are, permission by permission.
Selected(g) ==
    HasRole(db, g) /\ lastSave[g] # None =>
        \A p \in Perms :
            /\ p \in form[lastSave[g]].perms => RolePermRow(g, p) \in db
            /\ RolePermRow(g, p) \in db =>
                \/ p \in form[lastSave[g]].perms
                \/ \E q \in Requests : /\ <<q, lastSave[g]>> \in overlap
                                       /\ kind[q] \in {"saveRole", "createRole"}
                                       /\ p \in form[q].perms

SelectedInv == \A g \in Roles : Selected(g)

LEMMA SelectedCommit ==
    ASSUME LInv, RoleInv, RivalInv, NEW r \in Requests, Commits(r),
           NEW g \in Roles, kind[r] \in {"saveRole", "createRole"}, form[r].role = g,
           NEW p \in Perms
    PROVE  /\ p \in form[r].perms => RolePermRow(g, p) \in db'
           /\ RolePermRow(g, p) \in db' =>
                \/ p \in form[r].perms
                \/ \E q \in Requests : /\ <<q, r>> \in overlap
                                       /\ kind[q] \in {"saveRole", "createRole"}
                                       /\ p \in form[q].perms
<1>1. /\ \A x : x \in db' <=> x \in ins[r] \/ (x \in db /\ x \notin del[r])
      /\ Staged(r) /\ stage[r] = "flushed"
    BY CommitRows
<1>2. p \in form[r].perms => RolePermRow(g, p) \in ins[r]
    BY <1>1 DEF Staged
<1>3. RolePermRow(g, p) \in ins[r] => p \in form[r].perms
    BY <1>1 DEF Staged
<1>4. ASSUME RolePermRow(g, p) \in db \ del[r]
      PROVE  \E q \in Requests : /\ <<q, r>> \in overlap
                                 /\ kind[q] \in {"saveRole", "createRole"}
                                 /\ p \in form[q].perms
    <2>1. CASE kind[r] = "saveRole"
        BY <1>1, <1>4, <2>1 DEF RivalInv, Rivaled
    <2>2. CASE kind[r] = "createRole"
        BY <1>1, <1>4, <2>2 DEF RoleInv, PermsHaveRole, Grounded
    <2> QED BY <2>1, <2>2
<1> QED BY <1>1, <1>2, <1>3, <1>4

LEMMA SelectedStep ==
    ASSUME LInv, RoleInv, RivalInv, NEW r \in Requests, Begins(r) \/ Continues(r),
           NEW g \in Roles, Selected(g)
    PROVE  Selected(g)'
<1> SUFFICES ASSUME HasRole(db', g), lastSave'[g] # None, NEW p \in Perms
             PROVE  LET s == lastSave'[g] IN
                    /\ p \in form'[s].perms => RolePermRow(g, p) \in db'
                    /\ RolePermRow(g, p) \in db' =>
                        \/ p \in form'[s].perms
                        \/ \E q \in Requests : /\ <<q, s>> \in overlap'
                                               /\ kind'[q] \in {"saveRole", "createRole"}
                                               /\ p \in form'[q].perms
    BY DEF Selected, HasRole
<1>1. LastSaved(g)
    BY DEF RivalInv
<1>2. CASE Commits(r) /\ kind[r] \in {"saveRole", "createRole"} /\ form[r].role = g
    <2>1. lastSave'[g] = r /\ kind' = kind /\ form' = form /\ overlap' = overlap
        BY <1>1, <1>2, LastSavedStep, CommitRows
    <2> QED BY <1>2, <2>1, SelectedCommit
<1>3. CASE ~(Commits(r) /\ kind[r] \in {"saveRole", "createRole"} /\ form[r].role = g)
    <2> DEFINE s == lastSave[g]
    <2>1. lastSave'[g] = s
        BY <1>1, <1>3, LastSavedStep
    <2>2. s \in Requests /\ stage[s] # "idle"
        BY <1>1, <2>1 DEF LastSaved, LInv, TypeOK
    <2>3. form'[s].perms = form[s].perms
        BY <2>2, SelectionKept
    <2>4. HasRole(db, g) /\ (RolePermRow(g, p) \in db' <=> RolePermRow(g, p) \in db)
        <3>1. CASE db' = db
            BY <3>1
        <3>2. CASE Commits(r)
            <4>1. /\ \A x : x \in db' <=> x \in ins[r] \/ (x \in db /\ x \notin del[r])
                  /\ Staged(r) /\ (kind[r] # "saveUser" => stage[r] = "flushed")
                BY <3>2, CommitRows
            <4>2. HasRole(db, g) /\ ~(kind[r] = "deleteRole" /\ form[r].role = g)
                BY <1>3, <3>2, CommitRole
            <4>3. RolePermRow(g, p) \notin ins[r] /\ RolePermRow(g, p) \notin del[r]
                BY <1>3, <3>2, <4>1, <4>2 DEF Staged
            <4> QED BY <4>1, <4>2, <4>3
        <3> QED BY <3>1, <3>2, StepKinds DEF LInv, Starts, GoesOn
    <2>5. ASSUME NEW q \in Requests, <<q, s>> \in overlap,
                 kind[q] \in {"saveRole", "createRole"}, p \in form[q].perms
          PROVE  <<q, s>> \in overlap' /\ kind'[q] \in {"saveRole", "createRole"}
                     /\ p \in form'[q].perms
        <3>1. stage[q] # "idle"
            BY <2>5 DEF LInv, FormInv, Formed
        <3>2. kind'[q] = kind[q] /\ form'[q].perms = form[q].perms
            BY <3>1, SelectionKept
        <3>3. overlap \subseteq overlap'
            BY OverlapGrows DEF LInv
        <3> QED BY <2>5, <3>2, <3>3
    <2> HIDE DEF s
    <2>6. /\ p \in form[s].perms => RolePermRow(g, p) \in db
          /\ RolePermRow(g, p) \in db =>
              \/ p \in form[s].perms
              \/ \E q \in Requests : /\ <<q, s>> \in overlap
                                     /\ kind[q] \in {"saveRole", "createRole"}
                                     /\ p \in form[q].perms
        BY <2>1, <2>4 DEF Selected, s
    <2> QED BY <2>1, <2>3, <2>4, <2>5, <2>6
<1> QED BY <1>2, <1>3

LEMMA SelectedNext ==
    LInv /\ OverlapInv /\ RoleInv /\ RivalInv /\ SelectedInv /\ [Next]_vars
        => RivalInv' /\ SelectedInv'
<1> SUFFICES ASSUME LInv, OverlapInv, RoleInv, RivalInv, SelectedInv, [Next]_vars
             PROVE  RivalInv' /\ SelectedInv'
    OBVIOUS
<1>1. CASE Next
    <2>1. PICK r \in Requests : Begins(r) \/ Continues(r)
        BY <1>1 DEF Next
    <2>2. ASSUME NEW s \in Requests PROVE Rivaled(s)'
        BY <2>1, RivaledOwn, RivaledOther, OthersStill DEF RivalInv, LInv
    <2>3. ASSUME NEW g \in Roles PROVE LastSaved(g)' /\ Selected(g)'
        BY <2>1, LastSavedStep, SelectedStep DEF RivalInv, SelectedInv
    <2> QED BY <2>2, <2>3 DEF RivalInv, SelectedInv
<1>2. CASE UNCHANGED vars
    BY <1>2 DEF vars, local, history, RivalInv, LastSaved, Rivaled, SelectedInv, Selected, HasRole
<1> QED BY <1>1, <1>2

LEMMA SelectedSuffices == LInv /\ RivalInv /\ SelectedInv => PermissionsAreTheLastSelection
<1> SUFFICES ASSUME LInv, RivalInv, SelectedInv, NEW g \in Roles,
                    HasRole(db, g), lastSave[g] # None
             PROVE  LET s == lastSave[g]
                        now == {p \in Perms : RolePermRow(g, p) \in db}
                        rivals == {q \in Requests : <<q, s>> \in overlap
                                        /\ kind[q] \in {"saveRole", "createRole"}} IN
                    /\ form[s].perms \subseteq now
                    /\ now \subseteq form[s].perms \cup UNION {form[q].perms : q \in rivals}
    BY DEF PermissionsAreTheLastSelection
<1>1. lastSave[g] \in Requests
    BY DEF LInv, TypeOK
<1>2. form[lastSave[g]].perms \subseteq Perms
    BY <1>1, FormFields DEF LInv
<1> QED BY <1>2 DEF SelectedInv, Selected

-----------------------------------------------------------------------------
(***************************************************************************)
(* The check of a permission.                                              *)
(***************************************************************************)

LEMMA CheckKind ==
    ASSUME LInv, NEW r \in Requests, Begins(r), kind'[r] = "check"
    PROVE  CheckBegin(r)
<1>1. ASSUME NEW k, NEW f, Begin(r, k, f) PROVE k = "check"
    BY <1>1, BeginLocal DEF LInv
<1> QED BY <1>1, CreateBegins, SaveBegins, DeleteBegins, RenameBegins, UserBegins
           DEF LInv, Begins

LEMMA CheckSteps ==
    ASSUME LInv, NEW r \in Requests, Continues(r), kind[r] = "check"
    PROVE  CheckRoles(r) \/ CheckAnswer(r)
<1>1. Formed(r)
    BY DEF LInv, FormInv
<1>2. ~Commit(r) /\ ~FailCommit(r) /\ ~DispatchCommit(r) /\ ~UserPerms(r)
    BY <1>1 DEF Commit, FailCommit, DispatchCommit, UserPerms, Formed
<1>3. ~CreateInsert(r) /\ ~Rename(r) /\ ~DeleteCount(r) /\ ~DeleteClear(r) /\ ~DeleteRole(r)
          /\ ~UserRoles(r) /\ ~SaveClear(r) /\ ~SaveInsert(r) /\ ~UserFlush(r)
    BY UserFlushes DEF CreateInsert, Rename, DeleteCount, DeleteClear, DeleteRole,
                       UserRoles, SaveClear, SaveInsert
<1> QED BY <1>2, <1>3 DEF Continues

LEMMA CheckedBegin ==
    ASSUME LInv, NEW r \in Requests, CheckBegin(r)
    PROVE  Checked(r)'
<1>1. PICK f \in Forms : /\ Begin(r, "check", f) /\ f.user \in Users /\ f.perm \in Perms
                         /\ seen' = [seen EXCEPT ![r] = Snapshot(f.user)]
    BY CheckBegins DEF LInv
<1> DEFINE u == f.user
           p == f.perm
<1>2. stage'[r] = "loaded" /\ form'[r] = f
    BY <1>1, BeginLocal DEF LInv
<1>3. /\ held'[r] = [some |-> Holds(db, u, p), all |-> Holds(db, u, p)]
      /\ seen'[r] = Snapshot(u) /\ db' = db
    BY <1>1 DEF Begin, LInv, TypeOK
<1>4. held'[r].some = Holds(db, u, p) /\ held'[r].all = Holds(db, u, p)
    BY <1>3
<1>5. SuperRow(u) \in Snapshot(u) <=> SuperRow(u) \in db
    BY <1>1, RowSets, RowFields DEF Snapshot
<1>6. \A g \in Roles : UserRoleRow(u, g) \in Snapshot(u) <=> UserRoleRow(u, g) \in db
    BY <1>1, RowSets, RowFields DEF Snapshot
<1>7. \A g \in Roles : RolePermRow(g, p) \notin Snapshot(u)
    BY RowSets, RowsApart DEF Snapshot
<1> HIDE DEF u, p
<1>8. form'[r].user = u /\ form'[r].perm = p
    BY <1>2 DEF u, p
<1>9. SuperRow(u) \in db => Holds(db, u, p)
    BY DEF Holds
<1>10. \A g \in Roles : UserRoleRow(u, g) \in db /\ RolePermRow(g, p) \in db => Holds(db, u, p)
    BY DEF Holds
<1> QED BY <1>2, <1>3, <1>4, <1>5, <1>6, <1>7, <1>8, <1>9, <1>10 DEF Checked

LEMMA CheckedContinue ==
    ASSUME LInv, NEW r \in Requests, Continues(r), Checked(r)
    PROVE  Checked(r)'
<1> DEFINE u == form[r].user
           p == form[r].perm
<1> SUFFICES ASSUME kind'[r] = "check", stage'[r] # "done"
             PROVE  Checked(r)'
    BY DEF Checked, InService
<1>1. kind[r] = "check" /\ u \in Users /\ p \in Perms
    BY KindKept DEF LInv, FormInv, Formed
<1>2. CheckRoles(r)
    <2>1. ~CheckAnswer(r)
        BY DEF CheckAnswer, LInv, TypeOK
    <2> QED BY <1>1, <2>1, CheckSteps
<1>3. /\ stage[r] = "loaded" /\ seen' = [seen EXCEPT ![r] = @ \cup RolePermissions(r)]
      /\ Continue(r, "rolesRead")
    BY <1>2 DEF CheckRoles
<1>4. /\ stage'[r] = "rolesRead" /\ seen'[r] = seen[r] \cup RolePermissions(r)
      /\ db' = db /\ form' = form /\ held' = held /\ commits' = commits
    BY <1>3 DEF Continue, LInv, TypeOK, history
<1>5. \A g \in Roles : RolePermRow(g, p) \in RolePermissions(r) <=>
          RolePermRow(g, p) \in db /\ UserRoleRow(u, g) \in seen[r]
    BY <1>1, RowSets, RowFields DEF RolePermissions
<1>6. SuperRow(u) \notin RolePermissions(r)
          /\ \A g \in Roles : UserRoleRow(u, g) \notin RolePermissions(r)
    BY RowSets, RowsApart DEF RolePermissions
<1>7. InService(r)
    BY <1>3 DEF InService
<1> QED BY <1>1, <1>3, <1>4, <1>5, <1>6, <1>7 DEF Checked

\* What a commit of another request tells the history of a check.
LEMMA HistoryCommit ==
    ASSUME LInv, NEW r \in Requests, Commits(r), NEW q \in Requests
    PROVE  /\ held[q].some => held'[q].some
           /\ ~held[q].all => ~held'[q].all
           /\ commits'[q] >= commits[q] /\ commits'[q] <= 2
           /\ InService(q) =>
                /\ Holds(db', form[q].user, form[q].perm) => held'[q].some
                /\ ~Holds(db', form[q].user, form[q].perm) => ~held'[q].all
                /\ db' # db => commits'[q] # 0 /\ (commits'[q] < 2 => commits[q] = 0)
                /\ db' = db => commits'[q] = commits[q]
<1>1. db' = After(r)
    BY DEF Commits, Apply
<1>2. held' = [s \in Requests |->
           IF InService(s)
           THEN [some |-> held[s].some \/ Holds(db', form[s].user, form[s].perm),
                 all  |-> held[s].all /\ Holds(db', form[s].user, form[s].perm)]
           ELSE held[s]]
    BY <1>1 DEF Commits, Apply
<1>3. commits' = [s \in Requests |->
           IF InService(s) /\ db' # db /\ commits[s] < 2
           THEN commits[s] + 1 ELSE commits[s]]
    BY <1>1 DEF Commits, Apply
<1>4. commits[q] \in 0 .. 2
    BY DEF LInv, TypeOK
<1> DEFINE H == Holds(db', form[q].user, form[q].perm)
<1>5. CASE InService(q)
    <2>1. held'[q] = [some |-> held[q].some \/ H, all  |-> held[q].all /\ H]
        BY <1>2, <1>5
    <2> HIDE DEF H
    <2>2. held'[q].some = (held[q].some \/ H) /\ held'[q].all = (held[q].all /\ H)
        BY <2>1
    <2>3. /\ held[q].some => held'[q].some
          /\ H => held'[q].some
          /\ ~held[q].all => ~held'[q].all
          /\ ~H => ~held'[q].all
        BY <2>2, Zenon
    <2>4. commits'[q] = IF db' # db /\ commits[q] < 2 THEN commits[q] + 1 ELSE commits[q]
        BY <1>3, <1>5
    <2> QED BY <1>4, <2>3, <2>4 DEF H
<1>6. CASE ~InService(q)
    BY <1>2, <1>3, <1>4, <1>6
<1> QED BY <1>5, <1>6

LEMMA CheckedCommit ==
    ASSUME LInv, NEW r \in Requests, Commits(r), NEW q \in Requests \ {r}, Still(q), Checked(q)
    PROVE  Checked(q)'
<1> DEFINE u == form[q].user
           p == form[q].perm
<1> SUFFICES ASSUME kind[q] = "check", InService(q)
             PROVE  Checked(q)'
    BY DEF Checked, InService, Still
<1>1. u \in Users /\ p \in Perms
    BY DEF LInv, FormInv, Formed
<1>2. /\ stage'[q] = stage[q] /\ form'[q] = form[q] /\ seen'[q] = seen[q]
    BY DEF Still
<1>3. /\ Holds(db, u, p) => held[q].some
      /\ SuperRow(u) \in seen[q] => held[q].some
      /\ stage[q] = "loaded" => \A g \in Roles : RolePermRow(g, p) \notin seen[q]
    BY DEF Checked
<1>4. CASE db' = db
    <2>1. commits'[q] = commits[q]
        BY <1>4, HistoryCommit
    <2> QED BY <1>2, <1>4, <2>1, HistoryCommit DEF Checked
<1>5. CASE db' # db
    <2>1. commits'[q] # 0 /\ (commits'[q] < 2 => commits[q] = 0)
        BY <1>5, HistoryCommit
    <2>2. ASSUME commits[q] = 0, NEW g \in Roles, UserRoleRow(u, g) \in seen[q],
                 RolePermRow(g, p) \in db'
          PROVE  held'[q].some
        <3>1. UserRoleRow(u, g) \in db
            BY <2>2 DEF Checked
        <3>2. CASE UserRoleRow(u, g) \in db'
            BY <2>2, <3>2, HistoryCommit DEF Holds
        <3>3. CASE UserRoleRow(u, g) \notin db'
            <4>1. UserRoleRow(u, g) \in del[r] /\ Staged(r)
                BY <3>1, <3>3, CommitRows
            <4>2. RolePermRow(g, p) \notin ins[r]
                BY <1>1, <4>1 DEF Staged
            <4>3. RolePermRow(g, p) \in db
                BY <2>2, <4>2, CommitRows
            <4> QED BY <1>3, <3>1, <4>3, HistoryCommit DEF Holds
        <3> QED BY <3>2, <3>3
    <2>3. ASSUME commits[q] = 0, NEW g \in Roles, stage[q] = "rolesRead",
                 RolePermRow(g, p) \in seen[q]
          PROVE  held'[q].some
        BY <2>3, HistoryCommit DEF Checked
    <2>4. /\ Holds(db', u, p) => held'[q].some
          /\ ~Holds(db', u, p) => ~held'[q].all
          /\ SuperRow(u) \in seen[q] => held'[q].some
        BY <1>3, HistoryCommit
    <2> QED BY <1>2, <1>3, <2>1, <2>2, <2>3, <2>4 DEF Checked
<1> QED BY <1>4, <1>5

LEMMA CheckNext == LInv /\ CheckInv /\ [Next]_vars => CheckInv'
<1> SUFFICES ASSUME LInv, CheckInv, [Next]_vars PROVE CheckInv'
    OBVIOUS
<1>1. CASE Next
    <2>1. PICK r \in Requests : Begins(r) \/ Continues(r)
        BY <1>1 DEF Next
    <2>2. ASSUME NEW q \in Requests PROVE Checked(q)'
        <3>1. Checked(q)
            BY DEF CheckInv
        <3>2. CASE q = r /\ Begins(r)
            <4>1. CASE kind'[r] = "check"
                BY <3>2, <4>1, CheckKind, CheckedBegin
            <4> QED BY <3>2, <4>1 DEF Checked
        <3>3. CASE q = r /\ Continues(r)
            BY <3>1, <3>3, CheckedContinue
        <3>4. CASE q # r
            <4>1. Still(q)
                BY <2>1, <3>4, OthersStill DEF LInv
            <4>2. CASE Commits(r)
                BY <3>1, <3>4, <4>1, <4>2, CheckedCommit
            <4>3. CASE Starts(r) \/ GoesOn(r)
                <5>1. db' = db /\ held'[q] = held[q] /\ commits' = commits
                    BY <3>4, <4>3 DEF Starts, GoesOn, history
                <5> QED BY <3>1, <4>1, <5>1 DEF Checked, Still, InService
            <4> QED BY <2>1, <4>2, <4>3, StepKinds DEF LInv
        <3> QED BY <2>1, <3>2, <3>3, <3>4
    <2> QED BY <2>2 DEF CheckInv
<1>2. CASE UNCHANGED vars
    BY <1>2 DEF vars, local, history, CheckInv, Checked, InService
<1> QED BY <1>1, <1>2

LEMMA AnswerSteps ==
    ASSUME LInv, NEW r \in Requests, Continues(r), ~CheckAnswer(r)
    PROVE  answer'[r] = answer[r] \/ answer'[r] \in {"ok", "error", "refused"}
<1>1. CASE CreateInsert(r) \/ Rename(r) \/ SaveClear(r) \/ SaveInsert(r)
    BY <1>1 DEF CreateInsert, Rename, SaveClear, SaveInsert, RollBack, Finish, Continue,
                LInv, TypeOK
<1>2. CASE DeleteCount(r) \/ DeleteClear(r) \/ DeleteRole(r)
    BY <1>2 DEF DeleteCount, DeleteClear, DeleteRole, RollBack, Finish, Continue, LInv, TypeOK
<1>3. CASE UserRoles(r) \/ UserFlush(r) \/ UserPerms(r) \/ CheckRoles(r)
    BY <1>3, UserFlushes DEF UserRoles, UserPerms, CheckRoles, RollBack, Finish, Continue,
                             LInv, TypeOK
<1>4. CASE DispatchCommit(r) \/ Commit(r) \/ FailCommit(r)
    BY <1>4 DEF DispatchCommit, Commit, FailCommit, Apply, RollBack, LInv, TypeOK
<1> QED BY <1>1, <1>2, <1>3, <1>4 DEF Continues

LEMMA CheckAnswerHolds ==
    ASSUME LInv, NEW r \in Requests, CheckAnswer(r), Checked(r)
    PROVE  /\ answer'[r] = "granted" => held[r].some \/ commits[r] = 2
           /\ answer'[r] = "denied" => ~held[r].all \/ commits[r] > 0
           /\ held' = held /\ commits' = commits
<1> DEFINE u == form[r].user
           p == form[r].perm
<1>1. /\ kind[r] = "check"
      /\ stage[r] = "rolesRead" \/ (stage[r] = "loaded" /\ IsSuper(r))
      /\ answer'[r] = IF HasPermission(r) THEN "granted" ELSE "denied"
      /\ held' = held /\ commits' = commits /\ InService(r)
    BY DEF CheckAnswer, LInv, TypeOK, InService, history
<1>2. u \in Users /\ p \in Perms /\ commits[r] \in 0 .. 2
    BY <1>1 DEF LInv, FormInv, Formed, TypeOK
<1>3. ASSUME HasPermission(r), commits[r] < 2
      PROVE  held[r].some
    <2>1. CASE IsSuper(r)
        BY <1>1, <2>1 DEF IsSuper, Checked
    <2>2. ASSUME NEW x \in seen[r] \cap RolePermRows, x[3] = p, ~IsSuper(r)
          PROVE  held[r].some
        <3>1. PICK g \in Roles : x = RolePermRow(g, p)
            BY <2>2, RowSets, RowFields
        <3> QED BY <1>1, <1>3, <2>2, <3>1 DEF Checked
    <2>3. ASSUME NEW x \in DirectPermissions(r), x[3] = p
          PROVE  held[r].some
        <3>1. x \in db /\ x \in DirectRows /\ x[2] = u
            BY <2>3 DEF DirectPermissions
        <3>2. x = DirectRow(u, p)
            BY <2>3, <3>1, RowSets, RowFields
        <3> QED BY <1>1, <3>1, <3>2 DEF Checked, Holds
    <2> QED BY <1>3, <2>1, <2>2, <2>3 DEF HasPermission
<1>4. ASSUME ~HasPermission(r), commits[r] = 0
      PROVE  ~held[r].all
    <2>1. stage[r] = "rolesRead" /\ SuperRow(u) \notin seen[r]
        BY <1>1, <1>4 DEF HasPermission, IsSuper
    <2>2. SuperRow(u) \notin db
        BY <1>1, <1>4, <2>1 DEF Checked
    <2>3. DirectRow(u, p) \notin db
        <3>1. DirectRow(u, p) \in DirectRows
            BY <1>2, RowSets
        <3>2. DirectRow(u, p)[2] = u /\ DirectRow(u, p)[3] = p
            BY RowFields
        <3>3. DirectRow(u, p) \in db => DirectRow(u, p) \in DirectPermissions(r)
            BY <3>1, <3>2 DEF DirectPermissions
        <3> QED BY <1>4, <3>2, <3>3 DEF HasPermission
    <2>4. ASSUME NEW g \in Roles, UserRoleRow(u, g) \in db, RolePermRow(g, p) \in db
          PROVE  FALSE
        <3>1. RolePermRow(g, p) \in seen[r]
            BY <1>1, <1>4, <2>1, <2>4 DEF Checked
        <3>2. RolePermRow(g, p) \in RolePermRows
            BY <1>2, RowSets
        <3>3. RolePermRow(g, p)[3] = p
            BY RowFields
        <3> QED BY <1>4, <3>1, <3>2, <3>3 DEF HasPermission
    <2>5. ~Holds(db, u, p)
        BY <2>2, <2>3, <2>4 DEF Holds
    <2> QED BY <1>1, <2>5 DEF Checked
<1> QED BY <1>1, <1>2, <1>3, <1>4

LEMMA AnswersNext == LInv /\ CheckInv /\ AnswersAreExplained /\ [Next]_vars => AnswersAreExplained'
<1> SUFFICES ASSUME LInv, CheckInv, AnswersAreExplained, [Next]_vars, NEW q \in Requests
             PROVE  /\ answer'[q] = "granted" => held'[q].some \/ commits'[q] = 2
                    /\ answer'[q] = "denied" => ~held'[q].all \/ commits'[q] > 0
    BY DEF AnswersAreExplained
<1>1. commits[q] \in 0 .. 2 /\ commits'[q] \in 0 .. 2
    <2>1. LInv'
        BY LocalNext
    <2> QED BY <2>1 DEF LInv, TypeOK
<1>2. /\ answer[q] = "granted" => held[q].some \/ commits[q] = 2
      /\ answer[q] = "denied" => ~held[q].all \/ commits[q] > 0
    BY DEF AnswersAreExplained
<1>3. CASE Next
    <2>1. PICK r \in Requests : Begins(r) \/ Continues(r)
        BY <1>3 DEF Next
    <2>2. CASE answer'[q] \notin {"granted", "denied"}
        BY <2>2
    <2>3. CASE answer'[q] = answer[q] /\ stage[q] = "idle"
        BY <2>2, <2>3 DEF LInv, FormInv, Formed
    <2>4. CASE answer'[q] = answer[q] /\ Commits(r)
        BY <1>1, <1>2, <2>4, HistoryCommit
    <2>5. CASE answer'[q] = answer[q] /\ held'[q] = held[q] /\ commits' = commits
        BY <1>2, <2>5
    <2>6. CASE q # r
        <3>1. answer'[q] = answer[q]
            BY <2>1, <2>6, OthersStill DEF LInv, Still
        <3> QED BY <2>1, <2>4, <2>5, <2>6, <3>1, StepKinds DEF LInv, Starts, GoesOn, history
    <2>7. CASE q = r /\ Begins(r)
        <3>1. Starts(r) /\ stage[r] = "idle"
            BY <2>7, BeginsLoad
        <3> QED BY <2>3, <2>7, <3>1 DEF Starts
    <2>8. CASE q = r /\ CheckAnswer(r)
        <3>1. Checked(r)
            BY DEF CheckInv
        <3> QED BY <2>8, <3>1, CheckAnswerHolds
    <2>9. CASE q = r /\ Continues(r) /\ ~CheckAnswer(r)
        <3>1. answer'[q] = answer[q] \/ answer'[q] \in {"ok", "error", "refused"}
            BY <2>9, AnswerSteps
        <3>2. CASE Starts(r)
            BY <2>2, <2>3, <2>9, <3>1, <3>2 DEF Starts
        <3>3. CASE GoesOn(r)
            BY <2>2, <2>5, <3>1, <3>3 DEF GoesOn, history
        <3> QED BY <2>2, <2>4, <2>9, <3>1, <3>2, <3>3, StepKinds DEF LInv
    <2> QED BY <2>1, <2>6, <2>7, <2>8, <2>9
<1>4. CASE UNCHANGED vars
    BY <1>2, <1>4 DEF vars, local, history
<1> QED BY <1>3, <1>4

-----------------------------------------------------------------------------
(***************************************************************************)
(* The inductive invariant, and the theorems.                              *)
(***************************************************************************)
IInv ==
    /\ LInv /\ OverlapInv /\ RoleInv /\ AloneInv /\ GivenInv /\ RivalInv /\ CheckInv
    /\ LostRolesNeedOverlap /\ ErrorsNeedOverlap /\ SelectedInv /\ AnswersAreExplained

LEMMA RoleInit == Init => PermsHaveRole
<1> SUFFICES ASSUME Init, NEW g \in Roles, NEW p \in Perms, RolePermRow(g, p) \in db
             PROVE  HasRole(db, g)
    BY DEF PermsHaveRole
<1>1. PICK perms \in SUBSET RolePermRows, users \in SUBSET UserRoleRows,
            direct \in SUBSET DirectRows, first \in Roles, n \in Names :
         /\ \A h \in Roles, q \in Perms : RolePermRow(h, q) \in perms => h = first
         /\ db = {RoleRow(first, n)} \cup perms \cup users \cup direct
    BY DEF Init
<1>2. RolePermRow(g, p) \in perms
    BY <1>1, RowsApart, RowSets
<1> QED BY <1>1, <1>2 DEF HasRole

LEMMA IInvInit == Init => IInv
<1> SUFFICES ASSUME Init PROVE IInv
    OBVIOUS
<1>1. LInv /\ PermsHaveRole
    BY LocalInit, RoleInit
<1>2. \A r \in Requests : kind[r] = "idle" /\ stage[r] = "idle" /\ answer[r] = "none"
    BY DEF Init
<1>3. lost = {} /\ lastSave = [g \in Roles |-> None]
    BY DEF Init
<1>4. OverlapInv /\ CheckInv
    BY <1>2 DEF OverlapInv, CheckInv, Checked, InService
<1>5. RoleInv
    BY <1>1, <1>2 DEF RoleInv, Grounded, Clash
<1>6. AloneInv /\ GivenInv
    BY <1>2 DEF AloneInv, Settled, GivenInv, Given
<1>7. RivalInv /\ SelectedInv
    BY <1>2, <1>3 DEF RivalInv, LastSaved, Rivaled, SelectedInv, Selected
<1>8. LostRolesNeedOverlap /\ ErrorsNeedOverlap /\ AnswersAreExplained
    BY <1>2, <1>3 DEF LostRolesNeedOverlap, ErrorsNeedOverlap, AnswersAreExplained
<1> QED BY <1>1, <1>4, <1>5, <1>6, <1>7, <1>8 DEF IInv

LEMMA IInvNext == IInv /\ [Next]_vars => IInv'
BY LocalNext, OverlapNext, RoleNext, AloneNext, GivenNext, SelectedNext, CheckNext, LostNext,
   ErrorsNext, AnswersNext DEF IInv

\* Every reachable state satisfies the invariant: what an open transaction has
\* written, the locks that keep a role and its permissions together, and how far
\* each request may be behind the committed rows.
THEOREM AccessInvariance == Spec => []IInv
<1>1. Init => IInv
    BY IInvInit
<1>2. IInv /\ [Next]_vars => IInv'
    BY IInvNext
<1> QED BY <1>1, <1>2, PTL DEF Spec

\* Editors hurt each other only by overlapping: the count of role_delete_view and
\* delete_role misses only assignments made by a request in service with the
\* deletion, and an internal error, but for a renaming, has a second editor.
THEOREM EditorsClash == Spec => []EditorsClashOnlyByOverlap
<1>1. IInv => EditorsClashOnlyByOverlap
    BY DEF IInv, LInv, EditorsClashOnlyByOverlap
<1> QED BY <1>1, AccessInvariance, PTL

\* role_save_view deletes the permissions it sees and inserts its own: a role has
\* all that its last editor selected, and no more than he and the editors he
\* overlapped with selected.
THEOREM LastSelection == Spec => []PermissionsAreTheLastSelection
<1>1. IInv => PermissionsAreTheLastSelection
    BY SelectedSuffices DEF IInv
<1> QED BY <1>1, AccessInvariance, PTL

\* PermissionChecker reads a user, his roles' permissions and his own one after
\* the other: it is right without a commit in between, and lets in nobody who
\* never held the permission unless two commits fell between its reads.
THEOREM AnswersExplained == Spec => []AnswersAreExplained
<1>1. IInv => AnswersAreExplained
    BY DEF IInv
<1> QED BY <1>1, AccessInvariance, PTL
=============================================================================
