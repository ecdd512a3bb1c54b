------------------------------- MODULE MCSetup -------------------------------
(* Setup and AuthTables beside each other for TLC: a behaviour is one of the  *)
(* one or of the other, which share nothing, with the other at rest.          *)
(* Setup: two worker processes, two seed roles, two tables of each metadata.  *)
(* AuthTables: two Admin objects, a schema of each kind, and of the projects' *)
(* user tables one on the kit's metadata and one on its own.                  *)
EXTENDS Setup, AuthTables, TLC

CONSTANTS w1, w2

VARIABLE starting

Symmetry == Permutations(Workers)

\* The one at rest has one initial state.
MCInit == /\ TablesInit /\ Init /\ starting \in BOOLEAN
          /\ starting => auth = [a \in Admins |-> Users]
          /\ ~starting => config = CHOOSE c \in Configs : TRUE

MCNext ==
    \/ starting /\ Next /\ UNCHANGED <<tablesVars, starting>>
    \/ ~starting /\ TablesNext /\ UNCHANGED <<vars, starting>>

MCSpec == MCInit /\ [][MCNext]_<<vars, tablesVars, starting>>

MCDeclared == [s \in Schemas |-> "str"]
MCColumn == "grants" :> "user_id" @@ "audit" :> "user_id" @@
            "tickets" :> "admin_user_id" @@ "bills" :> "owner_id"
MCPkType == "admin_users" :> "int" @@ "accounts" :> "uuid" @@ "members" :> "big"

MCKitTables == {"admin_users", "admin_roles", "admin_ai"}
MCProjectTables == {"accounts", "items"}
MCSeeds == <<"Admin", "Viewer">>
MCProjectModels == {"Item", "Draft"}
MCKitModels == {"Role"}

Imports(item) == [m \in MCProjectModels \cup MCKitModels |-> IF m = "Item" THEN item ELSE "none"]

\* The database of an earlier release: a table of each metadata lacks a column.
Old == {"admin_users", "admin_roles", "items", "accounts"}

MCConfigs ==
    { \* the quick start: a custom auth_model, whose table lacks a column
      [early |-> TRUE, ddl |-> "auto", custom |-> TRUE, ai |-> FALSE,
       overwrite |-> FALSE, discover |-> TRUE, tags |-> FALSE,
       reg |-> Imports("plain"), tables |-> {"accounts"}, full |-> {}],
      \* setup(app), on the database of an earlier release, tags required
      [early |-> FALSE, ddl |-> "auto", custom |-> FALSE, ai |-> TRUE,
       overwrite |-> TRUE, discover |-> FALSE, tags |-> TRUE,
       reg |-> Imports("plain"), tables |-> Old, full |-> {"admin_users", "accounts"}],
      \* Alembic keeps the schema; one release behind, without the kit's tables
      [early |-> TRUE, ddl |-> "skip", custom |-> TRUE, ai |-> FALSE,
       overwrite |-> TRUE, discover |-> TRUE, tags |-> TRUE,
       reg |-> Imports("own"), tables |-> {"accounts"}, full |-> {"accounts"}],
      [early |-> FALSE, ddl |-> "alembic", custom |-> TRUE, ai |-> TRUE,
       overwrite |-> FALSE, discover |-> TRUE, tags |-> FALSE,
       reg |-> Imports("none"), tables |-> Old \cup {"admin_ai"},
       full |-> Old \cup {"admin_ai"}] }

=============================================================================
