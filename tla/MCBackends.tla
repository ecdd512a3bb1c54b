----------------------------- MODULE MCBackends -----------------------------
(* Backends, Filters and Migrations beside each other for TLC: a behaviour is *)
(* one of the subject's, with the others, which share nothing, at rest.       *)
(* Backends: two sessions on one table of up to three rows, two values, NULL. *)
(* Filters: a field of each type; floats exact up to 4, days of two instants. *)
(* Migrations: two tables of the kit and one of the project; a release that   *)
(* replaces a column and one that adds columns, one of them required.         *)
EXTENDS Backends, Migrations, TLC

CONSTANTS Kinds, FieldValues, Raws, Precision, DayLength, MaxParams

VARIABLES kind, row, introspects, form
VARIABLE subject

FL == INSTANCE Filters WITH Values <- FieldValues

filterVars == <<kind, row, introspects, form>>

\* Those at rest have one initial state.
FiltersRest == kind = "time" /\ row = [id |-> 1, value |-> 0] /\ introspects /\ form = <<>>
MigrationsRest == "users" \in Present

MCInit ==
    /\ subject \in {"backends", "filters", "migrations"}
    /\ Init /\ FL!Init /\ MigrationsInit
    /\ subject # "filters" => FiltersRest
    /\ subject # "migrations" => MigrationsRest

MCNext ==
    /\ \/ subject = "backends" /\ Next /\ UNCHANGED <<filterVars, migrationVars>>
       \/ subject = "filters" /\ FL!Next /\ UNCHANGED <<vars, migrationVars>>
       \/ subject = "migrations" /\ MigrationsNext /\ UNCHANGED <<vars, filterVars>>
    /\ UNCHANGED subject

MCSpec == MCInit /\ [][MCNext]_<<vars, filterVars, migrationVars, subject>>

\* QueriesAgree, which takes long, in the behaviours of the two backends only:
\* memory answers a query as SQL may, but for the order of sorts and NULL.
MemoryQueriesAgree == subject = "backends" => QueriesAgree

\* The same of the filters: a filter lets pass what its parameters ask for,
\* but for the cases Filters lists.
FiltersAreFaithful == subject = "filters" => FL!FiltersAreFaithful

Eq(v) == {[op |-> "eq", than |-> {v}]}
Col(by, desc) == [by |-> by, desc |-> desc, string |-> FALSE]
Wheres == {{}, {Eq(1)}, {Eq(Null)}, {{[op |-> "gt", than |-> {0}]}},
           {{[op |-> "in", than |-> {0, 1}]}}, {{[op |-> "ne", than |-> {Null}]}},
           {{[op |-> "ne", than |-> {0}]}}, {Eq(0) \cup Eq(Null)}}
OrderLists == {<<>>, <<Col("cell", FALSE)>>, <<Col("cell", TRUE)>>,
               <<Col("cell", FALSE), Col("id", TRUE)>>,
               <<Col("id", TRUE), Col("cell", TRUE)>>,
               <<[by |-> "id", desc |-> TRUE, string |-> TRUE]>>}
MCQueries == [where : Wheres, order : OrderLists, offset : {0, 1}, limit : {1, 3}]
Symmetric == Permutations(Sessions)

MCKinds == {"text", "boolean", "enum", "foreign key", "members", "integer",
            "numeric", "date", "datetime", "time"}
N(n) == [is |-> "number", of |-> n]
D(n) == [is |-> "day", of |-> n]
I(n) == [is |-> "instant", of |-> n]
T(t) == [is |-> "text", of |-> t]
Numbers == {<<N(3)>>, <<N(5)>>, <<N(7)>>, <<N(2), N(6)>>, <<N(7), T(<<"x">>)>>, <<T(<<"x">>)>>}
Days == {<<D(1)>>, <<I(3)>>, <<D(0), D(1)>>, <<I(1), T(<<"x">>)>>, <<T(<<"x">>)>>}
Texts == {<<T(<<"a">>)>>, <<T(<<"A", "b">>)>>, <<T(<<"%">>)>>, <<T(<<"b", "%">>)>>, <<T(<<"a">>), T(<<"b">>)>>}
MCFieldValues ==
    [k \in Kinds |->
        CASE k = "text" -> {Null} \cup UNION {[1 .. n -> {"a", "A", "b"}] : n \in 1 .. 2}
          [] k = "enum" -> {Null, <<"a">>, <<"b">>}
          [] k = "boolean" -> {Null, "true", "false"}
          [] k = "foreign key" -> {Null, 1, 2}
          [] k = "members" -> SUBSET {1, 2}
          [] k \in {"integer", "numeric", "time"} -> {Null} \cup 0 .. 9
          [] k = "date" -> {Null} \cup 0 .. 3
          [] k = "datetime" -> {Null} \cup 0 .. 5]
MCRaws ==
    [k \in Kinds |->
        CASE k = "text" -> Texts
          [] k = "enum" -> {<<T(<<"a">>)>>, <<T(<<"a">>), T(<<"b">>)>>}
          [] k = "boolean" -> {<<T(<<"1">>)>>, <<T(<<"n">>)>>, <<T(<<"x">>)>>}
          [] k \in {"foreign key", "members"} ->
                {<<N(1)>>, <<N(1), N(2)>>, <<N(2), T(<<"x">>)>>, <<T(<<"x">>)>>}
          [] k \in {"integer", "numeric", "time"} -> Numbers
          [] k \in {"date", "datetime"} -> Days]
Declares(cols, required, indexes) == [cols |-> cols, required |-> required, indexes |-> indexes]
MCReleases ==
    << [t \in KitTables |-> Declares({"id", "a"}, {"id"}, {"ia"})],
       [t \in KitTables |-> IF t = "users" THEN Declares({"id", "b"}, {"id"}, {})
                                           ELSE Declares({"id", "a", "b"}, {"id", "b"}, {"ib"})],
       [t \in KitTables |-> Declares({"id", "a", "b"}, {"id"}, {"ia"})] >>
MCCommands == {<<"users", "roles">>, <<"roles">>, <<"items", "users">>}
=============================================================================
