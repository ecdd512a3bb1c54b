----------------------------- MODULE AuthTables -----------------------------
(* The kit's tables in one process, and the users they refer to: a schema     *)
(* becomes a mapped class once (SqlAlchemyDatabaseBackend.materialize), and    *)
(* an Admin with an auth_model of its own turns the metadata that all Admin    *)
(* objects of the process share to that model before it creates its tables    *)
(* (Admin.create_tables, adapt_auth_model); reset_auth_model_adaptation turns  *)
(* it back.  Sources: backends/sqlalchemy.py, admin/core.py,                  *)
(* admin/admin_database.py, migrations/models.py.                             *)
(*                                                                            *)
(* Of a table only its users column is kept: its type, and of the junction    *)
(* admin_user_roles also what it refers to.                                   *)

CONSTANTS Admins,        \* the Admin objects of the process
          Schemas,       \* the schemas with a column for a user
          Declared,      \* Declared[s]: the type the schema gives that column
          Column,        \* Column[s]: its name
          Relates,       \* those that declare a many_to_one relation to the users
          Logs,          \* those of _LOG_TABLES_WITH_USER_ID
          ImportedFirst, \* those of Logs mapped before the users
          AuthModels,    \* the tables of the projects' user models
          Resident,      \* those of them mapped on AdminBase itself
          PkType,        \* the type of the primary key of a user table
          Users,         \* admin_users
          None

Types == {Declared[s] : s \in Schemas} \cup {PkType[t] : t \in AuthModels \cup {Users}}

\* The user tables are no schemas of others, None is no table, no type and no
\* snapshot, and "reset" is no Admin.
ASSUME TablesAssumption ==
    /\ Users \notin Schemas \cup AuthModels /\ AuthModels \cap Schemas = {}
    /\ Relates \subseteq Schemas /\ Logs \subseteq Schemas /\ ImportedFirst \subseteq Logs
    /\ Resident \subseteq AuthModels
    /\ "reset" \notin Admins
    /\ None \notin AuthModels \cup {Users} \cup Types
    /\ None \notin [junction : [to : AuthModels \cup {Users}, type : Types],
                     type : [Logs -> Types], created : SUBSET AuthModels]

VARIABLES auth,      \* auth[a]: the user table of Admin a
          mapped,    \* the schemas materialized, and Users
          type,      \* type[s]: the type of the user_id column of s
          junction,  \* what admin_user_roles.user_id refers to, and its type
          shadows,   \* tables that stand for a user table of another metadata
          roleUsers, \* the table Role.users joins
          userRoles, \* has the built-in User its roles
          adapted,   \* _ADAPTED_AUTH_TABLE
          snapshot,  \* _ADAPT_SNAPSHOT
          cloned,    \* cloned[a]: _cloned_auth_tables of the database of a
          plan,      \* plan[a]: the tables a is about to create, or None
          emitted,   \* emitted[a]: the DDL of a
          touched,   \* history: who has turned the metadata
          retyped    \* history: core.py has retyped columns

metadata == <<junction, shadows, roleUsers, userRoles, adapted, snapshot>>
tablesVars == <<auth, mapped, type, metadata, cloned, plan, emitted, touched, retyped>>

Custom(a) == auth[a] # Users

TablesInit ==
    /\ auth \in [Admins -> AuthModels \cup {Users}]
    /\ mapped = {} /\ type = [s \in Schemas |-> None]
    /\ junction = [to |-> Users, type |-> PkType[Users]]
    /\ shadows = {} /\ roleUsers = Users /\ userRoles = TRUE
    /\ adapted = None /\ snapshot = None
    /\ cloned = [a \in Admins |-> {}] /\ plan = [a \in Admins |-> None]
    /\ emitted = [a \in Admins |-> None]
    /\ touched = {} /\ retyped = FALSE

-----------------------------------------------------------------------------
(* materialize.                                                               *)

\* The names by which a column is found to be the foreign key of the relation:
\* under any other name the relation is left out without a word.
Conventional == {"user_id", "users_id", "admin_user_id", "admin_users_id"}
ForeignKeys == {s \in Relates : Column[s] \in Conventional}

\* A foreign key takes the type of the key it refers to, from the metadata or
\* else from the schemas; a mere user_id that of the users mapped so far.
TypeOf(s) ==
    IF s \in ForeignKeys \/ (Column[s] = "user_id" /\ Users \in mapped)
    THEN PkType[Users] ELSE Declared[s]

\* A table that is mapped is not mapped again; the kit's are mapped in the order
\* of migrations/models.py.
Materialize(s) ==
    /\ s \notin mapped
    /\ s \in ImportedFirst \/ (s = Users /\ ImportedFirst \subseteq mapped)
       \/ s \in Schemas \ Logs \/ Users \in mapped
    /\ mapped' = mapped \cup {s}
    /\ type' = IF s = Users THEN type ELSE [type EXCEPT ![s] = TypeOf(s)]
    /\ UNCHANGED <<auth, metadata, cloned, plan, emitted, touched, retyped>>

Imported == Users \in mapped /\ Logs \subseteq mapped

-----------------------------------------------------------------------------
(* adapt_auth_model and its reset.  A state of the metadata is a record.      *)

StateWith(types) ==
    [type |-> types, junction |-> junction, shadows |-> shadows,
     roleUsers |-> roleUsers, userRoles |-> userRoles,
     adapted |-> adapted, snapshot |-> snapshot]

State == StateWith(type)

Becomes(m) ==
    /\ type' = m.type /\ junction' = m.junction /\ shadows' = m.shadows
    /\ roleUsers' = m.roleUsers /\ userRoles' = m.userRoles
    /\ adapted' = m.adapted /\ snapshot' = m.snapshot

\* The user_id columns of the log tables.
RetypedLogs(types, to) ==
    [s \in Schemas |-> IF s \in Logs \cap mapped THEN to ELSE types[s]]

\* What the columns were before.
Undone(m) == [s \in Schemas |-> IF s \in DOMAIN m.snapshot.type
                                THEN m.snapshot.type[s] ELSE m.type[s]]

\* A mutant: the shadow stays.
ResetButShadow(m) ==
    IF m.snapshot = None THEN m
    ELSE [type |-> Undone(m), junction |-> m.snapshot.junction, shadows |-> m.shadows,
          roleUsers |-> Users, userRoles |-> TRUE, adapted |-> None, snapshot |-> None]

\* reset_builtin_auth_adaptation: nothing without a snapshot.
Reset(m) ==
    IF m.snapshot = None THEN m
    ELSE [type |-> Undone(m), junction |-> m.snapshot.junction,
          shadows |-> m.shadows \ m.snapshot.created,
          roleUsers |-> Users, userRoles |-> TRUE, adapted |-> None, snapshot |-> None]

Snapshot(m, table) ==
    [junction |-> m.junction, type |-> [s \in Logs \cap mapped |-> m.type[s]],
     created |-> {table} \ (Resident \cup mapped \cup m.shadows)]

\* From the pristine state.
Turn(p, table) ==
    [type |-> RetypedLogs(p.type, PkType[table]),
     junction |-> [to |-> table, type |-> PkType[table]],
     shadows |-> p.shadows \cup Snapshot(p, table).created,
     roleUsers |-> table, userRoles |-> FALSE, adapted |-> table,
     snapshot |-> Snapshot(p, table)]

\* Once to a table; to another one after a reset.
Adapt(m, table) == IF m.adapted = table THEN m ELSE Turn(Reset(m), table)

\* adapt_auth_model records the table for create_all, unless it was done before.
Recorded(a) ==
    IF adapted = auth[a] THEN cloned ELSE [cloned EXCEPT ![a] = @ \cup {auth[a]}]

\* The backend is called directly.
AdaptDirectly(a) ==
    /\ Imported /\ Custom(a)
    /\ Becomes(Adapt(State, auth[a]))
    /\ cloned' = Recorded(a)
    /\ touched' = touched \cup {a}
    /\ UNCHANGED <<auth, mapped, plan, emitted, retyped>>

ResetAdaptation(a) ==
    /\ Becomes(Reset(State))
    /\ cloned' = [cloned EXCEPT ![a] = {}]
    /\ touched' = IF snapshot = None THEN touched ELSE touched \cup {"reset"}
    /\ UNCHANGED <<auth, mapped, plan, emitted, retyped>>

-----------------------------------------------------------------------------
(* Admin.create_tables.                                                       *)

Planned(m, a, clones) ==
    (mapped \cup Resident \cup m.shadows)
        \ ((IF Custom(a) THEN {Users} ELSE {}) \cup clones)

\* The log tables are retyped before the backend looks at them.
AdaptedFor(a) ==
    IF Custom(a)
    THEN Adapt(StateWith(RetypedLogs(type, PkType[auth[a]])), auth[a])
    ELSE State

CreateTables(a) ==
    /\ Imported /\ plan[a] = None /\ emitted[a] = None
    /\ Becomes(AdaptedFor(a))
    /\ cloned' = IF Custom(a) THEN Recorded(a) ELSE cloned
    /\ plan' = [plan EXCEPT ![a] = Planned(AdaptedFor(a), a, cloned'[a])]
    /\ touched' = IF Custom(a) THEN touched \cup {a} ELSE touched
    /\ retyped' = (retyped \/ Custom(a))
    /\ UNCHANGED <<auth, mapped, emitted>>

\* The tables chosen above, as they are now.
EmitTables(a) ==
    /\ plan[a] # None
    /\ emitted' = [emitted EXCEPT ![a] =
                     [tables |-> plan[a], type |-> type, junction |-> junction]]
    /\ plan' = [plan EXCEPT ![a] = None]
    /\ UNCHANGED <<auth, mapped, type, metadata, cloned, touched, retyped>>

TablesNext ==
    \/ \E s \in Schemas \cup {Users} : Materialize(s)
    \/ \E a \in Admins : AdaptDirectly(a) \/ ResetAdaptation(a) \/ CreateTables(a) \/ EmitTables(a)

TablesSpec == TablesInit /\ [][TablesNext]_tablesVars

-----------------------------------------------------------------------------
\* The users an Admin's tables refer to are its own, in the type of their key,
\* unless another Admin of the process, or a reset, turned the metadata too;
\* and it creates a table for them only if they are the kit's own.
Fits(a) ==
    LET e == emitted[a] IN
    /\ e.junction = [to |-> auth[a], type |-> PkType[auth[a]]]
    /\ Custom(a) => \A s \in Logs : e.type[s] = PkType[auth[a]]
    /\ auth[a] \in e.tables <=> ~Custom(a)
    /\ Custom(a) => Users \notin e.tables

TablesFitTheirAdmin ==
    \A a \in Admins : emitted[a] # None /\ ~Fits(a) => touched \ {a} # {}

\* The foreign key of a relation to the users has the type of their key in
\* whatever order the schemas were materialized, until it is adapted.
RelationsAreTyped ==
    \A s \in (ForeignKeys \ Logs) \cap mapped : type[s] = PkType[Users]

\* Without an adaptation in force everything refers to the built-in users: a
\* reset leaves no shadow, no foreign key and no relationship behind.  Only
\* the types of the log tables stay when create_tables had set them before the
\* snapshot was taken.
ResetsArePristine ==
    adapted = None =>
        /\ junction = [to |-> Users, type |-> PkType[Users]]
        /\ shadows = {} /\ roleUsers = Users /\ userRoles
        /\ ~retyped => \A s \in Logs \cap mapped : type[s] \in {Declared[s], PkType[Users]}

SharedMetadataHolds == TablesFitTheirAdmin /\ RelationsAreTyped /\ ResetsArePristine

=============================================================================
