-------------------------------- MODULE Setup --------------------------------
(* How the worker processes of one installation start: Admin() and            *)
(* Admin.setup of admin/core.py, the registry, and the SQLAlchemy backend's   *)
(* table creation, column migration and role seeding.  The processes share    *)
(* the database; each has its own application, registry and mapper state.     *)
(* A process may die at any step, and setup may be called again.              *)
EXTENDS Naturals, Sequences, FiniteSets

CONSTANTS Workers,         \* the worker processes
          Configs,         \* the installations considered: see ConfigType
          KitTables,       \* tables of AdminBase.metadata
          ProjectTables,   \* tables of the project's own metadata
          AiTables,        \* the kit's tables that exist only with ai_enabled
          UserTable, AuthTable,  \* admin_users; the table of a custom auth_model
          RoleTable,       \* admin_roles
          ProjectModels, KitModels,
          Skipped,         \* behavior.skip_models and the default skip list
          Seeds,           \* seed_roles: a sequence of role names
          OwnRole,         \* a role an administrator creates
          MaxCalls, MaxEdits, MaxCrashes   \* bounds of the exploration

Models == ProjectModels \cup KitModels
Tables == KitTables \cup ProjectTables
SeedNames == {Seeds[i] : i \in 1..Len(Seeds)}
\* What setup adds to the application or to the process.
Middlewares == {"token", "session", "audit"}
Parts == Middlewares \cup {"csrf", "notifications", "listeners", "ai_nav", "ai"}
\* The admin object of a registered model: ModelAdmin itself, which has no tag,
\* a class of the project's with one, or the kit's for a built-in model.
ModelAdmins == {"plain", "own", "kit"}

ConfigType ==
    [ early: BOOLEAN,       \* Admin(app=...), rather than setup(app)
      ddl: {"auto", "skip", "alembic"},  \* skip: SKIP_CREATE_TABLES=true
      custom: BOOLEAN,      \* auth_model is the project's
      ai: BOOLEAN,
      overwrite: BOOLEAN,   \* seed_roles_overwrite
      discover: BOOLEAN, tags: BOOLEAN,   \* auto_discover, require_tags
      reg: [Models -> ModelAdmins \cup {"none"}],   \* registrations at import
      tables: SUBSET Tables, full: SUBSET Tables ]  \* the database met

\* A seed is no role of an administrator; what exists has its own columns.
ASSUME SetupAssumption ==
    /\ MaxCalls \in Nat \ {0} /\ MaxEdits \in Nat /\ MaxCrashes \in Nat
    /\ Seeds \in Seq(SeedNames) /\ OwnRole \notin SeedNames
    /\ Skipped \subseteq Models
    /\ \A c \in Configs : c \in ConfigType /\ c.full \subseteq c.tables

VARIABLES config,   \* the installation, fixed
          tables,   \* tables that exist
          full,     \* tables that have every column of the metadata
          roles,    \* names of the committed roles
          proc,     \* the processes
          edits, crashes,
          made, dropped   \* history: OwnRole was created; seeds deleted by hand

vars == <<config, tables, full, roles, proc, edits, crashes, made, dropped>>

Unregistered == [m \in Models |-> "none"]

Off == [pc |-> "off", why |-> "none", calls |-> 0, met |-> FALSE,
        parts |-> [p \in Parts |-> 0], flags |-> {}, frozen |-> FALSE,
        adapted |-> FALSE, stage |-> 0, plan |-> {}, seen |-> {}, flushed |-> 0,
        reg |-> Unregistered, hidden |-> {}, jinja |-> FALSE, links |-> {},
        routed |-> FALSE, pages |-> Unregistered, edited |-> {}]

Inside == {"checking", "emitting", "seeding", "inserting", "wiring"}
Idle == {"built", "failed", "serving"}

TypeOK ==
    /\ config \in Configs
    /\ full \subseteq tables /\ tables \subseteq Tables
    /\ roles \subseteq SeedNames \cup {OwnRole}
    /\ dropped \subseteq SeedNames /\ made \in BOOLEAN
    /\ edits \in 0..MaxEdits /\ crashes \in 0..MaxCrashes
    /\ \A w \in Workers :
          /\ proc[w].pc \in {"off"} \cup Idle \cup Inside
          /\ proc[w].why \in {"none", "database", "schema", "tags"}
          /\ proc[w].calls \in 0..MaxCalls
          /\ \A p \in Parts : proc[w].parts[p] \in 0..MaxCalls
          /\ proc[w].flags \subseteq Middlewares \cup {"csrf"}
          /\ proc[w].plan \subseteq Tables
          /\ proc[w].flushed \in 0..Len(Seeds)
          /\ proc[w].hidden \cup proc[w].links \cup proc[w].edited \subseteq Models

Init == /\ config \in Configs
        /\ tables = config.tables /\ full = config.full
        /\ roles = {}
        /\ proc = [w \in Workers |-> Off]
        /\ edits = 0 /\ crashes = 0
        /\ made = FALSE /\ dropped = {}

Database == <<tables, full, roles>>
History == <<edits, crashes, made, dropped>>

\* The process goes on; the database and the history stay as they are.
Goes(w, p) == /\ proc' = [proc EXCEPT ![w] = p]
              /\ UNCHANGED <<config, Database, History>>

Failed(p, why) == [p EXCEPT !.pc = "failed", !.why = why, !.plan = {},
                            !.seen = {}, !.flushed = 0]

(***************************** Admin() ************************************)
\* The module of the project runs: Admin(), then its admin.register() calls.
EarlyStack == IF config.early THEN Middlewares \cup {"csrf"} ELSE {}
Once(parts) == [x \in Parts |-> IF x \in parts THEN 1 ELSE 0]

Import(w) ==
    /\ proc[w].pc = "off"
    /\ Goes(w, [Off EXCEPT !.pc = "built", !.reg = config.reg,
                           !.flags = EarlyStack, !.parts = Once(EarlyStack)])

\* Starlette freezes the middleware stack at its first scope: the lifespan's,
\* or the first request's after setup threw the old stack away.
StackFreezes(w) == /\ proc[w].pc \in {"built", "serving"}
                   /\ ~proc[w].frozen
                   /\ Goes(w, [proc[w] EXCEPT !.frozen = TRUE])

(***************************** setup: the stack ***************************)
\* A middleware without its flag is added; on a frozen stack the kit's three
\* throw the stack away and try again, the CSRF middleware is passed over.
Adds(p, part) == part \notin p.flags /\ (part # "csrf" \/ ~p.frozen)

Added(p) == {x \in Middlewares \cup {"csrf"} : Adds(p, x)}
WithAdded(p) == [x \in Parts |-> IF x \in Added(p) THEN p.parts[x] + 1 ELSE p.parts[x]]

StackedUnflagged(p) ==
    [p EXCEPT !.parts = WithAdded(p), !.frozen = @ /\ Middlewares \subseteq p.flags]

Stacked(p) ==
    [p EXCEPT !.parts = WithAdded(p), !.flags = @ \cup Middlewares,
              !.frozen = @ /\ Middlewares \subseteq p.flags]

\* create_tables: the mapper is turned to a custom auth_model before any DDL, and
\* only once, unless SKIP_CREATE_TABLES returned first.
Adapted(p) == [p EXCEPT !.adapted = @ \/ (config.custom /\ config.ddl # "skip")]

Begun(p, met) ==
    [p EXCEPT !.calls = @ + 1, !.why = "none", !.stage = 1, !.met = met,
              !.pc = IF config.ddl = "auto" THEN "checking" ELSE "seeding"]

Begin(w) ==
    /\ proc[w].pc \in Idle
    /\ proc[w].calls < MaxCalls
    /\ LET others == {v \in Workers \ {w} : proc[v].pc \in Inside} IN
       proc' = [v \in Workers |->
           IF v = w THEN Begun(Adapted(Stacked(proc[w])), others # {})
           ELSE IF v \in others THEN [proc[v] EXCEPT !.met = TRUE]
           ELSE proc[v]]
    /\ UNCHANGED <<config, Database, History>>

(***************************** setup: the tables **************************)
\* What create_all leaves out of both metadatas: the built-in users of a custom
\* auth_model, the auth table - its shadow in the kit's metadata has the primary
\* key only - and the tables of a feature that is off.
Excluded == (IF config.custom THEN {UserTable, AuthTable} ELSE {})
            \cup (IF config.ai THEN {} ELSE AiTables)

\* create_all and auto_migrate, each for the kit's metadata, then the project's.
Steps == << "create kit", "create project", "migrate kit", "migrate project" >>
Creates(p) == p.stage <= 2
Metadata(p) == IF p.stage \in {1, 3} THEN KitTables ELSE ProjectTables

\* checkfirst, and the columns the inspector finds missing.
Missing(p) ==
    IF Creates(p) THEN Metadata(p) \ (Excluded \cup tables)
    ELSE (Metadata(p) \cap tables) \ full

Check(w) ==
    /\ proc[w].pc = "checking"
    /\ Goes(w, [proc[w] EXCEPT !.pc = "emitting", !.plan = Missing(proc[w])])

\* A CREATE of a table, or an ADD of a column, that came in between fails.
Collides(p) == p.plan \cap (IF Creates(p) THEN tables ELSE full) # {}

Emitted(p) ==
    [p EXCEPT !.plan = {}, !.stage = @ + 1,
              !.pc = IF p.stage = Len(Steps) THEN "seeding" ELSE "checking"]

Emit(w) ==
    /\ proc[w].pc = "emitting" /\ ~Collides(proc[w])
    /\ tables' = IF Creates(proc[w]) THEN tables \cup proc[w].plan ELSE tables
    /\ full' = full \cup proc[w].plan
    /\ proc' = [proc EXCEPT ![w] = Emitted(proc[w])]
    /\ UNCHANGED <<config, roles, History>>

EmitFails(w) ==
    /\ proc[w].pc = "emitting" /\ Collides(proc[w])
    /\ Goes(w, Failed(proc[w], "database"))

(***************************** setup: the seed roles **********************)
\* Roles there already end the seeding; with overwrite they are deleted first,
\* in the transaction that inserts the seeds.
Reads(w) ==
    /\ proc[w].pc = "seeding" /\ RoleTable \in tables
    /\ Goes(w, IF roles # {} /\ ~config.overwrite
               THEN [proc[w] EXCEPT !.pc = "wiring"]
               ELSE [proc[w] EXCEPT !.pc = "inserting", !.flushed = 0,
                                    !.seen = IF config.overwrite THEN roles ELSE {}])

NoRoleTable(w) ==
    /\ proc[w].pc = "seeding" /\ RoleTable \notin tables
    /\ Goes(w, Failed(proc[w], "schema"))

\* A role's name is unique: the insert waits for another transaction that has
\* inserted the name, and fails once the name is committed.
Held(w, name) == \E v \in Workers \ {w} : /\ proc[v].pc = "inserting"
                    /\ \E i \in 1..proc[v].flushed : Seeds[i] = name

\* A flush commits nothing.
FlushedAndCommitted(committed, name) == committed \cup {name}
Flushed(committed, name) == committed

Flush(w) ==
    /\ proc[w].pc = "inserting" /\ proc[w].flushed < Len(Seeds)
    /\ LET name == Seeds[proc[w].flushed + 1] IN
          /\ ~Held(w, name)
          /\ IF name \in roles \ proc[w].seen
             THEN /\ proc' = [proc EXCEPT ![w] = Failed(proc[w], "database")]
                  /\ roles' = roles
             ELSE /\ proc' = [proc EXCEPT ![w] = [proc[w] EXCEPT !.flushed = @ + 1]]
                  /\ roles' = Flushed(roles, name)
    /\ UNCHANGED <<config, tables, full, History>>

SeedCommit(w) ==
    /\ proc[w].pc = "inserting" /\ proc[w].flushed = Len(Seeds)
    /\ roles' = (roles \ proc[w].seen) \cup SeedNames
    /\ proc' = [proc EXCEPT ![w] =
                  [proc[w] EXCEPT !.pc = "wiring", !.flushed = 0, !.seen = {}]]
    /\ UNCHANGED <<config, tables, full, History>>

(***************************** setup: the application *********************)
\* _wire_app_state, _mount_static and _init_jinja write the same things again.
Stated(p) == [p EXCEPT !.jinja = TRUE]

\* The notification router goes in once per application.
Count(parts, part, n) == [parts EXCEPT ![part] = n]
Notified(p) == [p EXCEPT !.parts = Count(p.parts, "notifications", 1)]

\* Built-in models that are not registered yet, then, with auto_discover, every
\* mapped model.
Builtins(reg) == [m \in Models |-> IF reg[m] = "none" /\ m \in KitModels THEN "kit"
                                   ELSE reg[m]]
Builtin(p) == [p EXCEPT !.reg = Builtins(p.reg)]
Discoveries(reg) == [m \in Models |-> IF reg[m] = "none" /\ config.discover THEN "plain"
                                      ELSE reg[m]]
Discovered(p) == [p EXCEPT !.reg = Discoveries(p.reg)]

\* skip_auto_routes is set on the admin object a model has at that moment.
Hidden(p) == [p EXCEPT !.hidden = @ \cup {m \in Skipped : p.reg[m] # "none"}]

\* Listeners are attached to every Session of the process, on every call.
Attached(p) ==
    [p EXCEPT !.parts = Count(p.parts, "listeners", p.parts["listeners"] + 1)]

Wired(p) == Attached(Hidden(Discovered(Builtin(Notified(Stated(p))))))

\* require_tags looks at the hidden models too.
Untagged(p) == {m \in Models : p.reg[m] = "plain"}

\* The models the sidebar links and the routers serve.
Shown(p) == {m \in Models : p.reg[m] # "none" /\ m \notin p.hidden}

\* The AI group is added to the sidebar once.
Grouped(p) == [p EXCEPT !.parts = Count(p.parts, "ai_nav", IF config.ai THEN 1 ELSE 0)]
Sidebar(p) == [p EXCEPT !.links = Shown(p)]

\* _build_router returns at once when it has run before; the AI routes do not.
Pages(p) == [m \in Models |-> IF m \in Shown(p) THEN p.reg[m] ELSE "none"]
Routed(p) ==
    IF p.routed THEN p ELSE [p EXCEPT !.pages = Pages(p), !.routed = TRUE]
AiRouted(p) ==
    IF config.ai THEN [p EXCEPT !.parts = Count(p.parts, "ai", p.parts["ai"] + 1)] ELSE p

Ready(p) == AiRouted(Routed(Sidebar(Grouped(p))))

\* Everything after the seeding runs without an await.
Wire(w) ==
    /\ proc[w].pc = "wiring"
    /\ LET p == Wired(proc[w]) IN
       Goes(w, IF config.tags /\ Untagged(p) # {}
               THEN Failed(p, "tags")
               ELSE [Ready(p) EXCEPT !.pc = "serving"])

(***************************** register and unregister ********************)
\* build_registered_model makes a new admin object, which is not hidden; the
\* routers are never rebuilt.
Edited(p, m, admin) ==
    [p EXCEPT !.reg = [p.reg EXCEPT ![m] = admin], !.hidden = @ \ {m},
              !.edited = IF p.routed THEN p.edited \cup {m} ELSE p.edited]

Edit(w, p) == /\ edits < MaxEdits
              /\ proc' = [proc EXCEPT ![w] = p]
              /\ edits' = edits + 1
              /\ UNCHANGED <<config, Database, crashes, made, dropped>>

\* The sidebar is rebuilt if there is one.  "plain" is also what a decorated class
\* leaves that names an unknown field: the model was registered before the class.
Register(w, m, admin) ==
    /\ proc[w].pc \in Idle
    /\ LET p == Edited(proc[w], m, admin) IN
       Edit(w, IF p.jinja /\ p.links # {} THEN Sidebar(p) ELSE p)

Unregister(w, m) ==
    /\ proc[w].pc \in Idle /\ proc[w].reg[m] # "none"
    /\ Edit(w, Edited(proc[w], m, "none"))

(***************************** roles, crashes *****************************)
\* An administrator's work in between (module AccessControl).
CreateRole == /\ \E w \in Workers : proc[w].pc = "serving"
              /\ ~made /\ roles' = roles \cup {OwnRole} /\ made' = TRUE
              /\ UNCHANGED <<config, tables, full, proc, edits, crashes, dropped>>

DeleteRole(name) ==
    /\ \E w \in Workers : proc[w].pc = "serving"
    /\ name \in roles \cap SeedNames
    /\ edits < MaxEdits /\ edits' = edits + 1
    /\ roles' = roles \ {name} /\ dropped' = dropped \cup {name}
    /\ UNCHANGED <<config, tables, full, proc, crashes, made>>

\* The process dies, and its open transaction with it.
Crash(w) == /\ proc[w].pc # "off" /\ crashes < MaxCrashes
            /\ proc' = [proc EXCEPT ![w] = Off]
            /\ crashes' = crashes + 1
            /\ UNCHANGED <<config, Database, edits, made, dropped>>

Next ==
    \/ \E w \in Workers :
          \/ Import(w) \/ StackFreezes(w) \/ Begin(w)
          \/ Check(w) \/ Emit(w) \/ EmitFails(w)
          \/ Reads(w) \/ NoRoleTable(w) \/ Flush(w) \/ SeedCommit(w)
          \/ Wire(w) \/ Crash(w)
          \/ \E m \in Models : \/ \E a \in {"plain", "own"} : Register(w, m, a)
                               \/ Unregister(w, m)
    \/ CreateRole
    \/ \E name \in SeedNames : DeleteRole(name)

Spec == Init /\ [][Next]_vars
-----------------------------------------------------------------------------
\* A process that serves found, or made, every table it needs with every
\* column, whatever the other processes did meanwhile, and turned the mapper to
\* a custom auth_model; no start creates a table that was not asked for
\* (AdminDatabase._create_tables, adapt_auth_model).
ServingMeansMigrated ==
    /\ \A w \in Workers : (proc[w].pc = "serving" /\ config.ddl = "auto") =>
          /\ Tables \ Excluded \subseteq full
          /\ tables = full
          /\ config.custom => proc[w].adapted
    /\ tables \cap Excluded \subseteq config.tables

\* The seed roles come all or not at all: a crash or a failure half-way leaves
\* none of them, and without seed_roles_overwrite a start takes no role away
\* that an administrator made (seed_roles).
SeedsComeWhole ==
    /\ SeedNames \cap roles # {} => SeedNames \subseteq roles \cup dropped
    /\ (made /\ ~config.overwrite) => OwnRole \in roles

\* A start that fails in the database was not alone: every step of a lone start
\* accepts what an earlier release, or a start that died, left behind.
FailedStartsNeedOverlap ==
    \A w \in Workers : proc[w].why = "database" => proc[w].met

\* What a start leaves behind, and what stops one.
StartsComeWhole == TypeOK /\ SeedsComeWhole /\ FailedStartsNeedOverlap

\* However often setup fails or is called again, a serving process has each of
\* the kit's middlewares and the notification router once, and the CSRF
\* middleware once if Admin() was given the app.  Only a second call attaches
\* the audit listeners, or mounts the AI routes, again.
MountedOnce(p) ==
    /\ \A x \in Middlewares \cup {"notifications"} : p.parts[x] = 1
    /\ config.early => p.parts["csrf"] = 1
    /\ p.parts["listeners"] \in 1..p.calls
    /\ p.parts["ai"] <= p.parts["listeners"]
    /\ config.ai => p.parts["ai_nav"] = 1

\* The sidebar links exactly the models that have pages, and the pages show the
\* model's present admin object, for every model left alone since the routers
\* were built; a skipped one has neither (_build_sidebar, _build_router).
PagesMatchTheRegistry(p) ==
    \A m \in Models \ p.edited :
        /\ m \in p.links <=> p.pages[m] # "none"
        /\ p.pages[m] # "none" => p.pages[m] = p.reg[m] /\ m \notin Skipped

\* What a serving process offers is whole: the tables and columns it needs, each
\* part of the application once, and pages and links that match its registry.
ServingMeansReady ==
    /\ ServingMeansMigrated
    /\ \A w \in Workers : proc[w].pc = "serving" =>
          MountedOnce(proc[w]) /\ PagesMatchTheRegistry(proc[w])
=============================================================================
