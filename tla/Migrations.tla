----------------------------- MODULE Migrations -----------------------------
(* Two ways a SQLite database follows the models of the kit                   *)
(* (cli/migrate.py).  `fak migrate' drops a table whose columns differ,       *)
(* creates it again and puts the rows back, while the application may be      *)
(* serving.  `fak init-alembic' and `fak migrate-alembic' leave it to         *)
(* Alembic.  The driver opens a transaction at the first INSERT: a DROP or    *)
(* CREATE before it is committed at once, and so survives a rollback.         *)
EXTENDS Naturals, Sequences, FiniteSets

CONSTANTS KitTables, ProjectTables,
          Releases,      \* models of each release: a sequence of functions
                         \* from KitTables to [cols, required, indexes]
          Commands,      \* the sequences of tables `fak migrate' is given
          NoTable, NoTxn,
          MaxWritten,       \* bound: rows ever written
          MaxCommands,   \* bound: migrate and alembic commands
          MaxRevisions   \* bound: revisions ever made

\* What tables are made of.
Columns == UNION {Releases[i][t].cols : i \in DOMAIN Releases, t \in KitTables}
Indexes == UNION {Releases[i][t].indexes : i \in DOMAIN Releases, t \in KitTables}
TableRow == [id : Nat, born : Nat, kept : SUBSET Columns, filled : SUBSET Columns]
Table == [cols : SUBSET Columns, indexes : SUBSET Indexes, rows : SUBSET TableRow]

\* A table of the kit keeps at least one column, its primary key, from any
\* release to any other.
ASSUME MigrationsAssumption ==
    /\ MaxWritten \in Nat /\ MaxRevisions \in Nat \ {0}
    /\ KitTables \cap ProjectTables = {}
    /\ 1 \in DOMAIN Releases
    /\ \A i, j \in DOMAIN Releases, t \in KitTables :
         Releases[i][t].cols \cap Releases[j][t].cols # {}
    /\ \A i \in DOMAIN Releases, t \in KitTables :
         Releases[i][t].required \subseteq Releases[i][t].cols
    /\ \A ts \in Commands : ts \in Seq(KitTables \cup ProjectTables)
    /\ NoTable \notin Table
    /\ NoTxn \notin [KitTables \cup ProjectTables -> Table \cup {NoTable}]

Tables == KitTables \cup ProjectTables
Releasable == DOMAIN Releases

VARIABLES installed, \* the release of the kit in use
          schema,        \* the tables, committed or of the open transaction
          saved,     \* schema before the open transaction
          command,   \* `fak migrate': its progress
          alembic,   \* the project's alembic directory
          stamped,   \* alembic_version: the revision the database is at, or 0
          commands,
          written,   \* history: where each row was written, with which columns
          why,       \* history: why a row may be lost
          gone,      \* history: columns a table was without for a time
          torn,      \* history: tables dropped by a command that failed
          careless,  \* history: a revision was made without the project's models
          bypassed   \* history: a revision was stamped that had work to do

migrationVars == <<installed, schema, saved, command, alembic, stamped, commands, written,
          why, gone, torn, careless, bypassed>>
migrationHistory == <<written, why, gone, torn, careless, bypassed>>

Model(t) == Releases[installed][t]
Present == {t \in Tables : schema[t] # NoTable}

\* table.create: columns and indexes of the model, no rows.
Created(t, release) ==
    IF t \in KitTables THEN [cols |-> Releases[release][t].cols,
                             indexes |-> Releases[release][t].indexes, rows |-> {}]
    ELSE [cols |-> {}, indexes |-> {}, rows |-> {}]

Idle == [at |-> "idle", named |-> {}, left |-> <<>>, dropped |-> {},
         copy |-> {}, had |-> {}]
NoAlembic == [there |-> FALSE, knows |-> FALSE, first |-> 1, versions |-> <<>>]

MigrationsInit ==
    /\ installed = 1
    /\ \E some \in {{}, KitTables} :
         schema = [t \in Tables |-> IF t \in some \cup ProjectTables THEN Created(t, 1) ELSE NoTable]
    /\ saved = NoTxn
    /\ command = Idle
    /\ alembic = NoAlembic /\ stamped = 0 /\ commands = 0
    /\ written = <<>> /\ why = <<>>
    /\ gone = [t \in KitTables |-> {}]
    /\ torn = {} /\ careless = FALSE /\ bypassed = FALSE

-----------------------------------------------------------------------------
(* The application, which serves from the database the command works on.  An  *)
(* open transaction locks it out.                                             *)

Recreating(t) == command.at \in {"copied", "dropped", "created"} /\ Head(command.left) = t
Blame(rows, reason) ==
    [b \in DOMAIN why |-> IF b \in rows THEN why[b] \cup {reason} ELSE why[b]]

\* SQLite gives the largest id and one.
FreshId(t) == CHOOSE n \in 1 .. MaxWritten + 1 :
    /\ \A r \in schema[t].rows : r.id < n
    /\ n = 1 \/ \E r \in schema[t].rows : r.id = n - 1

\* A request writes a row, if the table has the columns of the model.
Insert(t) ==
    /\ saved = NoTxn /\ Len(written) < MaxWritten
    /\ t \in Present \cap KitTables
    /\ LET cols == Model(t).cols
           b == Len(written) + 1
       IN  /\ schema[t].cols = cols
           /\ schema' = [schema EXCEPT ![t].rows = @ \cup
                        {[id |-> FreshId(t), born |-> b, kept |-> cols, filled |-> cols]}]
           /\ written' = Append(written, [in |-> t, cols |-> cols])
           /\ why' = Append(why, IF Recreating(t) THEN {"overlap"} ELSE {})
    /\ UNCHANGED <<installed, saved, command, alembic, stamped, commands, gone, torn, careless, bypassed>>

\* Starting, it creates missing tables and adds missing columns: a column that
\* may not be empty gets a default.
Grown(t) ==
    IF schema[t] = NoTable THEN Created(t, installed)
    ELSE [schema[t] EXCEPT !.cols = @ \cup Model(t).cols,
                       !.rows = {[r EXCEPT !.filled = @ \cup (Model(t).required \ schema[t].cols)] :
                                     r \in schema[t].rows}]
Start ==
    /\ saved = NoTxn
    /\ schema' = [t \in Tables |-> IF t \in KitTables THEN Grown(t) ELSE schema[t]]
    /\ schema' # schema
    /\ gone' = [t \in KitTables |-> gone[t] \cup (IF t \in Present THEN Model(t).cols \ schema[t].cols
                                                                 ELSE {})]
    /\ UNCHANGED <<installed, saved, command, alembic, stamped, commands, written, why,
                   torn, careless, bypassed>>

\* A new release of the kit is installed.
Install ==
    /\ command.at \in {"idle", "done"}
    /\ installed + 1 \in Releasable
    /\ installed' = installed + 1
    /\ command' = Idle
    /\ UNCHANGED <<schema, saved, alembic, stamped, commands, migrationHistory>>

-----------------------------------------------------------------------------
(* fak migrate: _migrate_tables.                                              *)

Migrate(ts) ==
    /\ command.at \in {"idle", "done"} /\ commands < MaxCommands
    /\ command' = [Idle EXCEPT !.at = "look", !.named = {ts[i] : i \in DOMAIN ts}, !.left = ts]
    /\ commands' = commands + 1
    /\ UNCHANGED <<installed, schema, saved, alembic, stamped, migrationHistory>>

NextTable == [command EXCEPT !.at = "look", !.left = Tail(@), !.copy = {}, !.had = {}]

\* A table: indexes the model lacks go, a missing table is created, and one
\* whose columns differ has its rows read.
Look ==
    /\ command.at = "look" /\ command.left # <<>>
    /\ LET t == Head(command.left)
           kept == [schema EXCEPT ![t].indexes = @ \cap Model(t).indexes]
       IN  \/ /\ t \notin KitTables  \* not in the metadata
              /\ command' = NextTable /\ UNCHANGED schema
           \/ /\ t \in KitTables \ Present
              /\ schema' = [schema EXCEPT ![t] = Created(t, installed)]
              /\ command' = NextTable
           \/ /\ t \in KitTables \cap Present /\ schema[t].cols = Model(t).cols
              /\ schema' = kept /\ command' = NextTable
           \/ /\ t \in KitTables \cap Present /\ schema[t].cols # Model(t).cols
              /\ schema' = kept
              /\ command' = [command EXCEPT !.at = "copied", !.copy = schema[t].rows, !.had = schema[t].cols]
    /\ UNCHANGED <<installed, saved, alembic, stamped, commands, migrationHistory>>

Drop ==
    /\ command.at = "copied"
    /\ LET t == Head(command.left)
       IN  /\ schema' = [schema EXCEPT ![t] = NoTable]
           /\ command' = [command EXCEPT !.at = "dropped", !.dropped = @ \cup {t}]
           /\ gone' = [gone EXCEPT ![t] = @ \cup (Model(t).cols \ schema[t].cols)
                                              \cup (schema[t].cols \ Model(t).cols)]
    /\ UNCHANGED <<installed, saved, alembic, stamped, commands, written, why, torn, careless, bypassed>>

\* An error or a crash: what the transaction holds is undone, what came before
\* it stays, and every table dropped may be without its rows.
Abandoned(reason) ==
    /\ schema' = IF saved = NoTxn THEN schema ELSE saved
    /\ saved' = NoTxn
    /\ command' = Idle
    /\ why' = Blame({b \in DOMAIN written : written[b].in \in command.dropped}, reason)
    /\ torn' = torn \cup command.dropped
    /\ UNCHANGED <<installed, alembic, stamped, commands, written, gone, careless, bypassed>>

\* It fails if the application, starting, has created the table meanwhile.
CreateTable ==
    /\ command.at = "dropped"
    /\ LET t == Head(command.left)
       IN  \/ /\ schema[t] = NoTable
              /\ schema' = [schema EXCEPT ![t] = Created(t, installed)]
              /\ command' = [command EXCEPT !.at = "created"]
              /\ UNCHANGED <<installed, saved, alembic, stamped, commands, migrationHistory>>
           \/ schema[t] # NoTable /\ Abandoned("overlap")

\* Mutant: the columns of the old table are read after it is dropped.
SharedAfterDrop(t) == {}

\* The columns both tables have, which are put back.
Shared(t) == command.had \cap Model(t).cols

Part(r, columns) == [r EXCEPT !.kept = @ \cap columns, !.filled = @ \cap columns]

Restored(t) ==
    IF Shared(t) = {} THEN {} ELSE {Part(r, Shared(t)) : r \in command.copy}

\* INSERT of every row read; the first opens the transaction.
Restore ==
    /\ command.at = "created"
    /\ LET t == Head(command.left)
           rows == Restored(t)
           empty == \E r \in rows : ~(Model(t).required \subseteq r.filled)
           taken == \E r \in rows, s \in schema[t].rows : r.id = s.id
       IN  \/ /\ ~empty /\ ~taken
              /\ saved' = IF saved = NoTxn /\ rows # {} THEN schema ELSE saved
              /\ schema' = [schema EXCEPT ![t].rows = @ \cup rows]
              /\ command' = NextTable
              /\ UNCHANGED <<installed, alembic, stamped, commands, migrationHistory>>
           \/ empty /\ Abandoned("required")
           \/ ~empty /\ taken /\ Abandoned("overlap")

CommitMigration ==
    /\ command.at = "look" /\ command.left = <<>>
    /\ saved' = NoTxn
    /\ command' = [command EXCEPT !.at = "done"]
    /\ UNCHANGED <<installed, schema, alembic, stamped, commands, migrationHistory>>

Crash == command.at \notin {"idle", "done"} /\ Abandoned("crash")

-----------------------------------------------------------------------------
(* Alembic.  Revisions are numbered in the order they are made.               *)

HeadOf(a) == IF a.versions = <<>> THEN 0 ELSE a.first + Len(a.versions) - 1
NextRevision(a) == a.first + Len(a.versions)
\* Is the revision the database is at among the project's?
Located(a) == stamped = 0 \/ stamped \in a.first .. HeadOf(a)

\* env.py compares the metadata it knows with the database.
Target(a) == KitTables \cup (IF a.knows THEN ProjectTables ELSE {})
Autogenerated(a) ==
    IF Located(a) /\ stamped = HeadOf(a)
    THEN [a EXCEPT !.versions = Append(@, [make |-> Target(a) \ Present,
                                           drop |-> Present \ Target(a), of |-> installed])]
    ELSE a  \* "Target database is not up to date", or no such revision

Baseline(a) ==
    [a EXCEPT !.versions = Append(@, [make |-> {}, drop |-> {}, of |-> installed])]

\* --force removes the directory, with its revisions and its env.py.
Fresh == [NoAlembic EXCEPT !.there = TRUE, !.first = NextRevision(alembic)]

Makes(a) == Len(a.versions) > 0 /\ LET last == a.versions[Len(a.versions)]
                                   IN  last.drop \cap ProjectTables # {}

\* fak init-alembic: _init_alembic.
InitAlembic(force, auto, baseline) ==
    /\ commands < MaxCommands /\ NextRevision(alembic) + 1 < MaxRevisions
    /\ ~alembic.there \/ force
    /\ LET made == IF auto THEN Autogenerated(Fresh) ELSE Fresh
           last == IF baseline THEN Baseline(made) ELSE made
           stamps == baseline /\ Located(last)
       IN  /\ alembic' = last
           /\ stamped' = IF stamps THEN HeadOf(last) ELSE stamped
           /\ careless' = (careless \/ Makes(made))
           /\ bypassed' = (bypassed \/ (stamps /\ made.versions # <<>>))
    /\ commands' = commands + 1
    /\ UNCHANGED <<installed, schema, saved, command, written, why, gone, torn>>

\* The project adds its own metadata to env.py, as the file says.
EditEnv ==
    /\ alembic.there /\ ~alembic.knows
    /\ alembic' = [alembic EXCEPT !.knows = TRUE]
    /\ UNCHANGED <<installed, schema, saved, command, stamped, commands, migrationHistory>>

\* alembic revision --autogenerate, which init-alembic tells the user to run.
Revise ==
    /\ alembic.there /\ commands < MaxCommands /\ NextRevision(alembic) < MaxRevisions
    /\ alembic' = Autogenerated(alembic) /\ alembic' # alembic
    /\ careless' = (careless \/ Makes(alembic'))
    /\ commands' = commands + 1
    /\ UNCHANGED <<installed, schema, saved, command, stamped, written, why, gone, torn, bypassed>>

\* The revision to run, and the tables after what it makes and drops.
Following == IF stamped = 0 THEN alembic.first ELSE stamped + 1
Pending == alembic.versions[Following - alembic.first + 1]
After(made, dropped, release) ==
    [t \in Tables |-> IF t \in made THEN Created(t, release)
                      ELSE IF t \in dropped THEN NoTable ELSE schema[t]]

\* fak migrate-alembic: _alembic_upgrade, one revision of it; the database
\* keeps what a failing revision has created.
UpgradeOne ==
    /\ alembic.there /\ command.at \in {"idle", "done"} /\ Located(alembic)
    /\ stamped < HeadOf(alembic)
    /\ LET r == Pending
           runs == r.make \cap Present = {} /\ r.drop \subseteq Present
       IN  \/ /\ runs
              /\ schema' = After(r.make, r.drop, r.of)
              /\ stamped' = Following
           \/ /\ ~runs
              /\ \E made \in SUBSET (r.make \ Present) : schema' = After(made, {}, r.of)
              /\ UNCHANGED stamped
    /\ command' = Idle
    /\ UNCHANGED <<installed, saved, alembic, commands, migrationHistory>>

MigrationsNext ==
    \/ \E t \in KitTables : Insert(t)
    \/ Start \/ Install
    \/ \E ts \in Commands : Migrate(ts)
    \/ Look \/ Drop \/ CreateTable \/ Restore \/ CommitMigration \/ Crash
    \/ \E force, auto, baseline \in BOOLEAN : InitAlembic(force, auto, baseline)
    \/ EditEnv \/ Revise \/ UpgradeOne

MigrationsSpec == MigrationsInit /\ [][MigrationsNext]_migrationVars

-----------------------------------------------------------------------------
(* Properties.                                                                *)

MigrationsTypeOK ==
    /\ installed \in Releasable
    /\ \A t \in Present \cap KitTables :
         /\ schema[t].rows \subseteq [id : 1 .. MaxWritten, born : DOMAIN written,
                                  kept : SUBSET schema[t].cols, filled : SUBSET schema[t].cols]
         /\ \A r, s \in schema[t].rows : r.id = s.id => r = s
    /\ command.at \in {"idle", "look", "copied", "dropped", "created", "done"}
    /\ saved # NoTxn => command.at \in {"look", "copied", "dropped", "created"}
    /\ stamped \in 0 .. MaxRevisions

RowsOf(t) == IF t \in Present THEN schema[t].rows ELSE {}

\* A row that was committed is lost only to a command that dropped its table
\* and then failed, for a crash, a required column the rows have no value for
\* or the application at work on the table, or to having been written while
\* the command was at work on its table.  A command that fails on its second
\* table takes the rows of the first with it.
RowsSurvive ==
    command.at \in {"idle", "done"} =>
        \A b \in DOMAIN written :
            why[b] = {} => \E r \in RowsOf(written[b].in) : r.born = b

\* A row keeps what was written of it in every column its table has had
\* throughout.
ColumnsSurvive ==
    \A t \in KitTables : \A r \in RowsOf(t) :
        written[r.born].cols \ r.kept \subseteq gone[t]

\* A command that ends well leaves its tables with the columns of the models
\* and no other index.
MigratedIsCurrent ==
    command.at = "done" => \A t \in command.named \cap KitTables :
        /\ t \in Present
        /\ schema[t].cols = Model(t).cols /\ schema[t].indexes \subseteq Model(t).indexes

\* A project's table goes only by a revision made from an env.py that did not
\* know the project's models.
ProjectTablesSurvive == careless \/ ProjectTables \subseteq Present

\* A database at a revision has the tables made up to it, unless a baseline
\* stamped a revision that had yet to be run, or `fak migrate' failed between
\* dropping one and creating it.
StampIsTrue ==
    ~bypassed /\ stamped # 0 /\ Located(alembic) /\ command.at \in {"idle", "done"} =>
        \A n \in alembic.first .. stamped :
            LET r == alembic.versions[n - alembic.first + 1]
            IN  r.make \cap KitTables \subseteq Present \cup torn

\* No migration loses data or misstates the schema, but for the causes named.
MigrationsAreExplained ==
    MigrationsTypeOK /\ RowsSurvive /\ ColumnsSurvive /\ MigratedIsCurrent
        /\ ProjectTablesSurvive /\ StampIsTrue
=============================================================================
