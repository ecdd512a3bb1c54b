---------------------------- MODULE SetupProofs ----------------------------
(***************************************************************************)
(* Proofs about starting the kit, for any number of processes, any models, *)
(* seed roles and tables.                                                  *)
(*                                                                         *)
(* Setup: the seed roles come all or not at all, none of an                *)
(* administrator's roles is taken away, a start that fails in the database *)
(* met another one, and a process that serves has its tables, its mapper,  *)
(* each part of the application once, and pages that match its registry.   *)
(* AuthTables: an Admin's tables fit its own users unless another came in  *)
(* between, and a reset leaves nothing behind.                             *)
(*                                                                         *)
(* The two modules share no state and no definition: each theorem is about *)
(* the behaviours of one of them.                                          *)
(***************************************************************************)
EXTENDS Setup, AuthTables, TLAPS

-----------------------------------------------------------------------------
(* The inductive invariant.  A process is judged by the configuration alone   *)
(* (ProcInv), against the database (DbInv) and beside the others (MetInv).    *)

Outcomes == {"none", "database", "schema", "tags"}
Objects == ModelAdmins \cup {"none"}
Registries == [Models -> Objects]
Roles == SeedNames \cup {OwnRole}

Procs ==
    [ pc : {"off"} \cup Idle \cup Inside, why : Outcomes, calls : Nat, met : BOOLEAN,
      parts : [Parts -> Nat], flags : SUBSET (Middlewares \cup {"csrf"}),
      frozen : BOOLEAN, adapted : BOOLEAN, stage : Nat, plan : SUBSET Tables,
      seen : SUBSET Roles, flushed : Nat, reg : Registries, hidden : SUBSET Models,
      jinja : BOOLEAN, links : SUBSET Models, routed : BOOLEAN, pages : Registries,
      edited : SUBSET Models ]

Within(p) == p.pc \in Inside

\* The flags say which middlewares are in the stack.
StackInv(c, p) ==
    /\ \A x \in Middlewares : p.parts[x] = IF x \in p.flags THEN 1 ELSE 0
    /\ p.pc \in Inside \cup {"serving"} => Middlewares \subseteq p.flags
    /\ c.early /\ p.pc # "off" => "csrf" \in p.flags
    /\ c.early => p.parts["csrf"] = IF p.pc # "off" THEN 1 ELSE 0
    /\ ~c.early => p.parts["csrf"] <= p.calls

\* Every part is attached at most once in a call, after the call was counted.
MountInv(c, p) ==
    /\ p.parts["notifications"] <= 1 /\ p.parts["ai_nav"] <= 1
    /\ p.parts["listeners"] <= p.calls /\ p.calls <= MaxCalls
    /\ p.pc \in Inside => p.parts["listeners"] < p.calls
    /\ p.parts["ai"] <= p.parts["listeners"]
    /\ p.pc = "serving" => /\ p.parts["notifications"] = 1
                           /\ p.parts["listeners"] >= 1
                           /\ c.ai => p.parts["ai_nav"] = 1

\* How far the call has come.
StageInv(c, p) ==
    /\ p.flushed <= Len(Seeds)
    /\ p.pc \in {"checking", "emitting"} => c.ddl = "auto" /\ p.stage \in 1 .. 4
    /\ p.pc \in {"seeding", "inserting", "wiring", "serving"} /\ c.ddl = "auto"
       => p.stage = 5
    /\ p.pc \in Inside \cup {"serving"} /\ c.ddl = "auto" /\ c.custom => p.adapted
    /\ ~c.overwrite => p.seen = {}

\* The pages and links of the models that were left alone since they were built.
PagesInv(c, p) ==
    /\ p.hidden \subseteq Skipped
    /\ p.pc = "serving" => p.routed
    /\ p.routed => \A m \in Models \ p.edited :
          /\ p.pages[m] = IF m \in Shown(p) THEN p.reg[m] ELSE "none"
          /\ m \in p.links <=> m \in Shown(p)
          /\ p.reg[m] # "none" /\ m \in Skipped => m \in p.hidden
          /\ p.reg[m] = "none" => m \notin KitModels /\ ~c.discover

ProcInv(c, p) == StackInv(c, p) /\ MountInv(c, p) /\ StageInv(c, p) /\ PagesInv(c, p)

\* What the steps taken so far left in the database: x is what create_all leaves
\* out, t and f the tables and the whole ones.
MigratedInv(x, t, f, p) ==
    /\ p.stage >= 2 => KitTables \ x \subseteq t
    /\ p.stage >= 3 => ProjectTables \ x \subseteq t
    /\ p.stage >= 4 => KitTables \cap t \subseteq f
    /\ p.stage >= 5 => ProjectTables \cap t \subseteq f

\* The plan covers what is missing, and is up to date while nobody else starts.
PlanInv(x, t, f, p) ==
    p.pc = "emitting" =>
        /\ Creates(p) => /\ p.plan \subseteq Metadata(p) \ x
                         /\ Metadata(p) \ x \subseteq t \cup p.plan
                         /\ ~p.met => p.plan \cap t = {}
        /\ ~Creates(p) => /\ p.plan \subseteq Metadata(p) \cap t
                          /\ Metadata(p) \cap t \subseteq f \cup p.plan
                          /\ ~p.met => p.plan \cap f = {}

LoneInv(r, p) ==
    /\ p.pc = "inserting" /\ ~p.met => r \cap SeedNames \subseteq p.seen
    /\ p.why = "database" => p.met

DbInv(x, t, f, r, p) == MigratedInv(x, t, f, p) /\ PlanInv(x, t, f, p) /\ LoneInv(r, p)

MetInv == \A v, w \in Workers : v # w /\ Within(proc[v]) /\ Within(proc[w]) => proc[w].met

ProcsInv ==
    /\ proc \in [Workers -> Procs]
    /\ \A w \in Workers : ProcInv(config, proc[w])
    /\ \A w \in Workers : DbInv(Excluded, tables, full, roles, proc[w])
    /\ MetInv

DataInv ==
    /\ config \in Configs
    /\ full \subseteq tables /\ tables \subseteq Tables
    /\ roles \subseteq Roles /\ dropped \subseteq SeedNames /\ made \in BOOLEAN
    /\ edits \in 0 .. MaxEdits /\ crashes \in 0 .. MaxCrashes
    /\ tables \cap Excluded \subseteq config.tables
    /\ SeedsComeWhole

SetupInv == DataInv /\ ProcsInv
-----------------------------------------------------------------------------
(* The fields of a process after each of the operators of Setup.              *)

LEMMA ConfigFields ==
    ASSUME config \in Configs
    PROVE  /\ config.early \in BOOLEAN /\ config.ddl \in {"auto", "skip", "alembic"}
           /\ config.custom \in BOOLEAN /\ config.ai \in BOOLEAN
           /\ config.overwrite \in BOOLEAN /\ config.discover \in BOOLEAN
           /\ config.tags \in BOOLEAN /\ config.reg \in Registries
           /\ config.tables \subseteq Tables /\ config.full \subseteq config.tables
BY SetupAssumption DEF ConfigType, Registries, Objects

LEMMA FailedFields ==
    ASSUME NEW p \in Procs, NEW why \in Outcomes
    PROVE  LET q == Failed(p, why) IN
           /\ q \in Procs
           /\ q.pc = "failed" /\ q.why = why /\ q.plan = {} /\ q.seen = {} /\ q.flushed = 0
           /\ q.calls = p.calls /\ q.met = p.met /\ q.parts = p.parts /\ q.flags = p.flags
           /\ q.adapted = p.adapted /\ q.stage = p.stage /\ q.reg = p.reg
           /\ q.hidden = p.hidden /\ q.links = p.links /\ q.routed = p.routed
           /\ q.pages = p.pages /\ q.edited = p.edited
<1>. DEFINE a == [p EXCEPT !.pc = "failed"]
            b == [a EXCEPT !.why = why]
            c == [b EXCEPT !.plan = {}]
            d == [c EXCEPT !.seen = {}]
            e == [d EXCEPT !.flushed = 0]
<1>1. a \in Procs BY DEF Procs, Idle
<1>2. b \in Procs BY <1>1 DEF Procs
<1>3. c \in Procs BY <1>2 DEF Procs
<1>4. d \in Procs BY <1>3 DEF Procs
<1>5. e \in Procs BY <1>4 DEF Procs
<1>6. e = Failed(p, why) BY DEF Failed
<1>7. Failed(p, why) \in Procs BY <1>5, <1>6
<1>. QED BY <1>7 DEF Failed, Procs

LEMMA OffFields ==
    /\ Off \in Procs
    /\ Off.pc = "off" /\ Off.why = "none" /\ Off.plan = {} /\ Off.seen = {}
    /\ Off.flushed = 0 /\ Off.calls = 0 /\ Off.parts = [x \in Parts |-> 0]
    /\ Off.flags = {} /\ Off.stage = 0 /\ Off.hidden = {} /\ Off.routed = FALSE
    /\ Off.met = FALSE /\ Off.adapted = FALSE
BY DEF Off, Procs, Unregistered, Registries, Objects, Outcomes

LEMMA ImportFields ==
    ASSUME config \in Configs
    PROVE  LET q == [Off EXCEPT !.pc = "built", !.reg = config.reg,
                                !.flags = EarlyStack, !.parts = Once(EarlyStack)] IN
           /\ q \in Procs
           /\ q.pc = "built" /\ q.flags = EarlyStack /\ q.parts = Once(EarlyStack)
           /\ q.why = "none" /\ q.plan = {} /\ q.seen = {}
           /\ q.flushed = 0 /\ q.calls = 0 /\ q.stage = 0 /\ q.hidden = {}
           /\ q.routed = FALSE /\ q.met = FALSE /\ q.adapted = FALSE
<1>. DEFINE s == EarlyStack   o == Once(EarlyStack)   g == config.reg
            a == [Off EXCEPT !.pc = "built"]
            b == [a EXCEPT !.reg = g]
            c == [b EXCEPT !.flags = s]
            d == [c EXCEPT !.parts = o]
<1>1. g \in Registries BY ConfigFields
<1>2. s \in SUBSET (Middlewares \cup {"csrf"}) BY DEF EarlyStack
<1>3. o \in [Parts -> Nat] BY DEF Once
<1>4. Off \in Procs BY OffFields
<1>. HIDE DEF s, o, g
<1>5. a \in Procs BY <1>4 DEF Procs, Idle
<1>6. b \in Procs BY <1>5, <1>1 DEF Procs
<1>7. c \in Procs BY <1>6, <1>2 DEF Procs
<1>8. d \in Procs BY <1>7, <1>3 DEF Procs
<1>9. d = [Off EXCEPT !.pc = "built", !.reg = g, !.flags = s, !.parts = o]
  OBVIOUS
<1>10. /\ d.pc = "built" /\ d.flags = s /\ d.parts = o /\ d.why = Off.why
       /\ d.plan = Off.plan /\ d.seen = Off.seen /\ d.flushed = Off.flushed
       /\ d.calls = Off.calls /\ d.stage = Off.stage /\ d.hidden = Off.hidden
       /\ d.routed = Off.routed /\ d.met = Off.met /\ d.adapted = Off.adapted
  BY <1>4, <1>9 DEF Procs
<1>. QED BY <1>8, <1>9, <1>10, OffFields DEF s, o, g

LEMMA FreezeFields ==
    ASSUME NEW p \in Procs
    PROVE  LET q == [p EXCEPT !.frozen = TRUE] IN
           /\ q \in Procs
           /\ q.pc = p.pc /\ q.why = p.why /\ q.plan = p.plan /\ q.seen = p.seen
           /\ q.flushed = p.flushed /\ q.calls = p.calls /\ q.met = p.met
           /\ q.parts = p.parts /\ q.flags = p.flags /\ q.adapted = p.adapted
           /\ q.stage = p.stage /\ q.reg = p.reg /\ q.hidden = p.hidden
           /\ q.links = p.links /\ q.routed = p.routed /\ q.pages = p.pages
           /\ q.edited = p.edited
BY DEF Procs

LEMMA MetFields ==
    ASSUME NEW p \in Procs
    PROVE  LET q == [p EXCEPT !.met = TRUE] IN
           /\ q \in Procs
           /\ q.pc = p.pc /\ q.why = p.why /\ q.plan = p.plan /\ q.seen = p.seen
           /\ q.flushed = p.flushed /\ q.calls = p.calls /\ q.met = TRUE
           /\ q.parts = p.parts /\ q.flags = p.flags /\ q.adapted = p.adapted
           /\ q.stage = p.stage /\ q.reg = p.reg /\ q.hidden = p.hidden
           /\ q.links = p.links /\ q.routed = p.routed /\ q.pages = p.pages
           /\ q.edited = p.edited
BY DEF Procs

LEMMA StackedFields ==
    ASSUME NEW p \in Procs
    PROVE  LET q == Stacked(p) IN
           /\ q \in Procs
           /\ q.parts = WithAdded(p) /\ q.flags = p.flags \cup Middlewares
           /\ q.pc = p.pc /\ q.why = p.why /\ q.plan = p.plan /\ q.seen = p.seen
           /\ q.flushed = p.flushed /\ q.calls = p.calls /\ q.adapted = p.adapted
           /\ q.stage = p.stage /\ q.reg = p.reg /\ q.hidden = p.hidden
           /\ q.links = p.links /\ q.routed = p.routed /\ q.pages = p.pages
           /\ q.edited = p.edited
<1>. DEFINE n == WithAdded(p)   s == p.flags \cup Middlewares
            f == (p.frozen /\ Middlewares \subseteq p.flags)
            a == [p EXCEPT !.parts = n]
            b == [a EXCEPT !.flags = s]
            c == [b EXCEPT !.frozen = f]
<1>1. n \in [Parts -> Nat] BY DEF WithAdded, Procs
<1>2. s \in SUBSET (Middlewares \cup {"csrf"}) BY DEF Procs
<1>3. f \in BOOLEAN OBVIOUS
<1>4. Stacked(p) = [p EXCEPT !.parts = n, !.flags = s, !.frozen = f]
  BY DEF Stacked
<1>. HIDE DEF n, s, f
<1>5. a \in Procs BY <1>1 DEF Procs
<1>6. b \in Procs BY <1>5, <1>2 DEF Procs
<1>7. c \in Procs BY <1>6, <1>3 DEF Procs
<1>8. c = [p EXCEPT !.parts = n, !.flags = s, !.frozen = f] OBVIOUS
<1>9. /\ c.parts = n /\ c.flags = s
      /\ c.pc = p.pc /\ c.why = p.why /\ c.plan = p.plan /\ c.seen = p.seen
      /\ c.flushed = p.flushed /\ c.calls = p.calls /\ c.adapted = p.adapted
      /\ c.stage = p.stage /\ c.reg = p.reg /\ c.hidden = p.hidden
      /\ c.links = p.links /\ c.routed = p.routed /\ c.pages = p.pages
      /\ c.edited = p.edited
  BY <1>8 DEF Procs
<1>. HIDE DEF c
<1>. QED BY <1>4, <1>7, <1>8, <1>9 DEF n, s

LEMMA AdaptedFields ==
    ASSUME NEW p \in Procs
    PROVE  LET q == Adapted(p) IN
           /\ q \in Procs
           /\ q.adapted = (p.adapted \/ (config.custom /\ config.ddl # "skip"))
           /\ q.parts = p.parts /\ q.flags = p.flags
           /\ q.pc = p.pc /\ q.why = p.why /\ q.plan = p.plan /\ q.seen = p.seen
           /\ q.flushed = p.flushed /\ q.calls = p.calls
           /\ q.stage = p.stage /\ q.reg = p.reg /\ q.hidden = p.hidden
           /\ q.links = p.links /\ q.routed = p.routed /\ q.pages = p.pages
           /\ q.edited = p.edited
<1>. DEFINE n == p.adapted \/ (config.custom /\ config.ddl # "skip")
<1>1. n \in BOOLEAN OBVIOUS
<1>2. Adapted(p) = [p EXCEPT !.adapted = n] BY DEF Adapted
<1>. HIDE DEF n
<1>3. [p EXCEPT !.adapted = n] \in Procs BY <1>1 DEF Procs
<1>4. LET q == [p EXCEPT !.adapted = n] IN
      /\ q.adapted = n
      /\ q.parts = p.parts /\ q.flags = p.flags
      /\ q.pc = p.pc /\ q.why = p.why /\ q.plan = p.plan /\ q.seen = p.seen
      /\ q.flushed = p.flushed /\ q.calls = p.calls
      /\ q.stage = p.stage /\ q.reg = p.reg /\ q.hidden = p.hidden
      /\ q.links = p.links /\ q.routed = p.routed /\ q.pages = p.pages
      /\ q.edited = p.edited
  BY <1>1 DEF Procs
<1>. QED BY <1>2, <1>3, <1>4 DEF n

LEMMA BegunFields ==
    ASSUME NEW p \in Procs, NEW met \in BOOLEAN
    PROVE  LET q == Begun(p, met) IN
           /\ q \in Procs
           /\ q.calls = p.calls + 1 /\ q.why = "none" /\ q.stage = 1 /\ q.met = met
           /\ q.pc = IF config.ddl = "auto" THEN "checking" ELSE "seeding"
           /\ q.plan = p.plan /\ q.seen = p.seen /\ q.flushed = p.flushed
           /\ q.parts = p.parts /\ q.flags = p.flags /\ q.adapted = p.adapted
           /\ q.reg = p.reg /\ q.hidden = p.hidden /\ q.links = p.links
           /\ q.routed = p.routed /\ q.pages = p.pages /\ q.edited = p.edited
<1>. DEFINE n == p.calls + 1
            k == IF config.ddl = "auto" THEN "checking" ELSE "seeding"
            a == [p EXCEPT !.calls = n]
            b == [a EXCEPT !.why = "none"]
            c == [b EXCEPT !.stage = 1]
            d == [c EXCEPT !.met = met]
            e == [d EXCEPT !.pc = k]
<1>1. n \in Nat BY DEF Procs
<1>2. k \in Inside BY DEF Inside
<1>3. Begun(p, met) = [p EXCEPT !.calls = n, !.why = "none", !.stage = 1, !.met = met, !.pc = k]
  BY DEF Begun
<1>. HIDE DEF n, k
<1>4. a \in Procs BY <1>1 DEF Procs
<1>5. b \in Procs BY <1>4 DEF Procs, Outcomes
<1>6. c \in Procs BY <1>5 DEF Procs
<1>7. d \in Procs BY <1>6 DEF Procs
<1>8. e \in Procs BY <1>7, <1>2 DEF Procs
<1>9. e = [p EXCEPT !.calls = n, !.why = "none", !.stage = 1, !.met = met, !.pc = k]
  OBVIOUS
<1>10. /\ e.calls = n /\ e.why = "none" /\ e.stage = 1 /\ e.met = met /\ e.pc = k
       /\ e.plan = p.plan /\ e.seen = p.seen /\ e.flushed = p.flushed
       /\ e.parts = p.parts /\ e.flags = p.flags /\ e.adapted = p.adapted
       /\ e.reg = p.reg /\ e.hidden = p.hidden /\ e.links = p.links
       /\ e.routed = p.routed /\ e.pages = p.pages /\ e.edited = p.edited
  BY <1>9 DEF Procs
<1>. HIDE DEF e
<1>. QED BY <1>3, <1>8, <1>9, <1>10 DEF n, k

Checked(p, todo) == [p EXCEPT !.pc = "emitting", !.plan = todo]

LEMMA CheckedFields ==
    ASSUME NEW p \in Procs, NEW todo \in SUBSET Tables
    PROVE  LET q == Checked(p, todo) IN
           /\ q \in Procs
           /\ q.pc = "emitting" /\ q.plan = todo /\ q.why = p.why /\ q.seen = p.seen
           /\ q.flushed = p.flushed /\ q.calls = p.calls /\ q.met = p.met
           /\ q.parts = p.parts /\ q.flags = p.flags /\ q.adapted = p.adapted
           /\ q.stage = p.stage /\ q.reg = p.reg /\ q.hidden = p.hidden
           /\ q.links = p.links /\ q.routed = p.routed /\ q.pages = p.pages
           /\ q.edited = p.edited
<1>. DEFINE a == [p EXCEPT !.pc = "emitting"]   b == [a EXCEPT !.plan = todo]
<1>1. a \in Procs BY DEF Procs, Inside
<1>2. b \in Procs BY <1>1 DEF Procs
<1>3. b = Checked(p, todo) BY DEF Checked
<1>. QED BY <1>2, <1>3 DEF Procs, Checked

LEMMA EmittedFields ==
    ASSUME NEW p \in Procs
    PROVE  LET q == Emitted(p) IN
           /\ q \in Procs
           /\ q.pc = IF p.stage = 4 THEN "seeding" ELSE "checking"
           /\ q.stage = p.stage + 1
           /\ q.plan = {} /\ q.why = p.why /\ q.seen = p.seen
           /\ q.flushed = p.flushed /\ q.calls = p.calls /\ q.met = p.met
           /\ q.parts = p.parts /\ q.flags = p.flags /\ q.adapted = p.adapted
           /\ q.reg = p.reg /\ q.hidden = p.hidden
           /\ q.links = p.links /\ q.routed = p.routed /\ q.pages = p.pages
           /\ q.edited = p.edited
<1>. DEFINE n == p.stage + 1
            k == IF p.stage = Len(Steps) THEN "seeding" ELSE "checking"
            a == [p EXCEPT !.plan = {}]
            b == [a EXCEPT !.stage = n]
            c == [b EXCEPT !.pc = k]
<1>1. n \in Nat BY DEF Procs
<1>2. k \in Inside BY DEF Inside
<1>3. k = IF p.stage = 4 THEN "seeding" ELSE "checking" BY DEF Steps
<1>4. Emitted(p) = [p EXCEPT !.plan = {}, !.stage = n, !.pc = k] BY DEF Emitted
<1>. HIDE DEF n, k
<1>5. a \in Procs BY DEF Procs
<1>6. b \in Procs BY <1>5, <1>1 DEF Procs
<1>7. c \in Procs BY <1>6, <1>2 DEF Procs
<1>8. c = [p EXCEPT !.plan = {}, !.stage = n, !.pc = k] OBVIOUS
<1>9. /\ c.pc = k /\ c.stage = n /\ c.plan = {} /\ c.why = p.why /\ c.seen = p.seen
      /\ c.flushed = p.flushed /\ c.calls = p.calls /\ c.met = p.met
      /\ c.parts = p.parts /\ c.flags = p.flags /\ c.adapted = p.adapted
      /\ c.reg = p.reg /\ c.hidden = p.hidden
      /\ c.links = p.links /\ c.routed = p.routed /\ c.pages = p.pages
      /\ c.edited = p.edited
  BY <1>8 DEF Procs
<1>. HIDE DEF c
<1>. QED BY <1>3, <1>4, <1>7, <1>8, <1>9 DEF n

\* The seeding changes where a process is, what it saw and what it flushed.
Seeding(p, pc, seen, n) == [p EXCEPT !.pc = pc, !.flushed = n, !.seen = seen]

LEMMA SeedingFields ==
    ASSUME NEW p \in Procs, NEW pc \in Inside, NEW seen \in SUBSET Roles, NEW n \in Nat
    PROVE  LET q == Seeding(p, pc, seen, n) IN
           /\ q \in Procs
           /\ q.pc = pc /\ q.seen = seen /\ q.flushed = n /\ q.plan = p.plan
           /\ q.why = p.why /\ q.calls = p.calls /\ q.met = p.met
           /\ q.parts = p.parts /\ q.flags = p.flags /\ q.adapted = p.adapted
           /\ q.stage = p.stage /\ q.reg = p.reg /\ q.hidden = p.hidden
           /\ q.links = p.links /\ q.routed = p.routed /\ q.pages = p.pages
           /\ q.edited = p.edited
<1>. DEFINE a == [p EXCEPT !.pc = pc]
            b == [a EXCEPT !.flushed = n]
            c == [b EXCEPT !.seen = seen]
<1>1. a \in Procs BY DEF Procs
<1>2. b \in Procs BY <1>1 DEF Procs
<1>3. c \in Procs BY <1>2 DEF Procs
<1>4. c = Seeding(p, pc, seen, n) BY DEF Seeding
<1>. QED BY <1>3, <1>4 DEF Procs, Seeding

LEMMA ServingFields ==
    ASSUME NEW p \in Procs, NEW pc \in Inside \cup {"serving"}
    PROVE  LET q == [p EXCEPT !.pc = pc] IN
           /\ q \in Procs
           /\ q.pc = pc /\ q.seen = p.seen /\ q.flushed = p.flushed /\ q.plan = p.plan
           /\ q.why = p.why /\ q.calls = p.calls /\ q.met = p.met
           /\ q.parts = p.parts /\ q.flags = p.flags /\ q.adapted = p.adapted
           /\ q.stage = p.stage /\ q.reg = p.reg /\ q.hidden = p.hidden
           /\ q.links = p.links /\ q.routed = p.routed /\ q.pages = p.pages
           /\ q.edited = p.edited
BY DEF Procs, Idle

LEMMA PartsFields ==
    ASSUME NEW p \in Procs, NEW v \in [Parts -> Nat]
    PROVE  LET q == [p EXCEPT !.parts = v] IN
           /\ q \in Procs
           /\ q.parts = v /\ q.pc = p.pc /\ q.seen = p.seen
           /\ q.flushed = p.flushed /\ q.plan = p.plan /\ q.why = p.why
           /\ q.calls = p.calls /\ q.met = p.met /\ q.flags = p.flags
           /\ q.adapted = p.adapted /\ q.stage = p.stage /\ q.reg = p.reg
           /\ q.hidden = p.hidden /\ q.links = p.links /\ q.routed = p.routed
           /\ q.pages = p.pages /\ q.edited = p.edited /\ q.jinja = p.jinja
BY DEF Procs

LEMMA RegFields ==
    ASSUME NEW p \in Procs, NEW v \in Registries
    PROVE  LET q == [p EXCEPT !.reg = v] IN
           /\ q \in Procs
           /\ q.reg = v /\ q.pc = p.pc /\ q.seen = p.seen
           /\ q.flushed = p.flushed /\ q.plan = p.plan /\ q.why = p.why
           /\ q.calls = p.calls /\ q.met = p.met /\ q.parts = p.parts
           /\ q.flags = p.flags /\ q.adapted = p.adapted /\ q.stage = p.stage
           /\ q.hidden = p.hidden /\ q.links = p.links /\ q.routed = p.routed
           /\ q.pages = p.pages /\ q.edited = p.edited /\ q.jinja = p.jinja
BY DEF Procs

LEMMA HiddenFields ==
    ASSUME NEW p \in Procs, NEW v \in SUBSET Models
    PROVE  LET q == [p EXCEPT !.hidden = v] IN
           /\ q \in Procs
           /\ q.hidden = v /\ q.pc = p.pc /\ q.seen = p.seen
           /\ q.flushed = p.flushed /\ q.plan = p.plan /\ q.why = p.why
           /\ q.calls = p.calls /\ q.met = p.met /\ q.parts = p.parts
           /\ q.flags = p.flags /\ q.adapted = p.adapted /\ q.stage = p.stage
           /\ q.reg = p.reg /\ q.links = p.links /\ q.routed = p.routed
           /\ q.pages = p.pages /\ q.edited = p.edited /\ q.jinja = p.jinja
BY DEF Procs

LEMMA LinksFields ==
    ASSUME NEW p \in Procs, NEW v \in SUBSET Models
    PROVE  LET q == [p EXCEPT !.links = v] IN
           /\ q \in Procs
           /\ q.links = v /\ q.pc = p.pc /\ q.seen = p.seen
           /\ q.flushed = p.flushed /\ q.plan = p.plan /\ q.why = p.why
           /\ q.calls = p.calls /\ q.met = p.met /\ q.parts = p.parts
           /\ q.flags = p.flags /\ q.adapted = p.adapted /\ q.stage = p.stage
           /\ q.reg = p.reg /\ q.hidden = p.hidden /\ q.routed = p.routed
           /\ q.pages = p.pages /\ q.edited = p.edited /\ q.jinja = p.jinja
BY DEF Procs

LEMMA JinjaFields ==
    ASSUME NEW p \in Procs, NEW v \in BOOLEAN
    PROVE  LET q == [p EXCEPT !.jinja = v] IN
           /\ q \in Procs
           /\ q.jinja = v /\ q.pc = p.pc /\ q.seen = p.seen
           /\ q.flushed = p.flushed /\ q.plan = p.plan /\ q.why = p.why
           /\ q.calls = p.calls /\ q.met = p.met /\ q.parts = p.parts
           /\ q.flags = p.flags /\ q.adapted = p.adapted /\ q.stage = p.stage
           /\ q.reg = p.reg /\ q.hidden = p.hidden /\ q.links = p.links
           /\ q.routed = p.routed /\ q.pages = p.pages /\ q.edited = p.edited
BY DEF Procs

LEMMA EditedFields ==
    ASSUME NEW p \in Procs, NEW v \in SUBSET Models
    PROVE  LET q == [p EXCEPT !.edited = v] IN
           /\ q \in Procs
           /\ q.edited = v /\ q.pc = p.pc /\ q.seen = p.seen
           /\ q.flushed = p.flushed /\ q.plan = p.plan /\ q.why = p.why
           /\ q.calls = p.calls /\ q.met = p.met /\ q.parts = p.parts
           /\ q.flags = p.flags /\ q.adapted = p.adapted /\ q.stage = p.stage
           /\ q.reg = p.reg /\ q.hidden = p.hidden /\ q.links = p.links
           /\ q.routed = p.routed /\ q.pages = p.pages /\ q.jinja = p.jinja
BY DEF Procs

LEMMA Counted ==
    ASSUME NEW parts \in [Parts -> Nat], NEW part \in Parts, NEW n \in Nat
    PROVE  /\ Count(parts, part, n) \in [Parts -> Nat]
           /\ Count(parts, part, n)[part] = n
           /\ \A x \in Parts \ {part} : Count(parts, part, n)[x] = parts[x]
BY DEF Count

LEMMA WiredFields ==
    ASSUME NEW p \in Procs
    PROVE  LET q == Wired(p)   reg == Discoveries(Builtins(p.reg)) IN
           /\ q \in Procs
           /\ q.reg = reg
           /\ q.hidden = p.hidden \cup {m \in Skipped : reg[m] # "none"}
           /\ q.parts["notifications"] = 1
           /\ q.parts["listeners"] = p.parts["listeners"] + 1
           /\ \A x \in Parts \ {"notifications", "listeners"} : q.parts[x] = p.parts[x]
           /\ q.jinja = TRUE /\ q.pc = p.pc /\ q.seen = p.seen
           /\ q.flushed = p.flushed /\ q.plan = p.plan /\ q.why = p.why
           /\ q.calls = p.calls /\ q.met = p.met /\ q.flags = p.flags
           /\ q.adapted = p.adapted /\ q.stage = p.stage /\ q.links = p.links
           /\ q.routed = p.routed /\ q.pages = p.pages /\ q.edited = p.edited
<1>. DEFINE a == Stated(p)      b == Notified(a)   c == Builtin(b)
            d == Discovered(c)  e == Hidden(d)     f == Attached(e)
            n == Count(a.parts, "notifications", 1)
            m == Count(e.parts, "listeners", e.parts["listeners"] + 1)
            h == d.hidden \cup {x \in Skipped : d.reg[x] # "none"}
<1>1. /\ a \in Procs
      /\ a.jinja = TRUE /\ a.pc = p.pc /\ a.seen = p.seen
      /\ a.flushed = p.flushed /\ a.plan = p.plan /\ a.why = p.why
      /\ a.calls = p.calls /\ a.met = p.met /\ a.parts = p.parts
      /\ a.flags = p.flags /\ a.adapted = p.adapted /\ a.stage = p.stage
      /\ a.reg = p.reg /\ a.hidden = p.hidden /\ a.links = p.links
      /\ a.routed = p.routed /\ a.pages = p.pages /\ a.edited = p.edited
  BY JinjaFields DEF Stated
<1>2. /\ b \in Procs /\ n["notifications"] = 1
      /\ \A x \in Parts \ {"notifications"} : n[x] = a.parts[x]
      /\ b.parts = n /\ b.pc = a.pc /\ b.seen = a.seen
      /\ b.flushed = a.flushed /\ b.plan = a.plan /\ b.why = a.why
      /\ b.calls = a.calls /\ b.met = a.met /\ b.flags = a.flags
      /\ b.adapted = a.adapted /\ b.stage = a.stage /\ b.reg = a.reg
      /\ b.hidden = a.hidden /\ b.links = a.links /\ b.routed = a.routed
      /\ b.pages = a.pages /\ b.edited = a.edited /\ b.jinja = a.jinja
  <2>. HIDE DEF a
  <2>1. n \in [Parts -> Nat] /\ n["notifications"] = 1
        /\ \A x \in Parts \ {"notifications"} : n[x] = a.parts[x]
    <3>1. a.parts \in [Parts -> Nat] BY <1>1 DEF Procs
    <3>2. "notifications" \in Parts BY DEF Parts
    <3>. QED BY <3>1, <3>2, Counted
  <2>2. b = [a EXCEPT !.parts = n] BY DEF Notified
  <2>. HIDE DEF n, b
  <2>. QED BY <1>1, <2>1, <2>2, PartsFields
<1>3. /\ c \in Procs
      /\ c.reg = Builtins(b.reg) /\ c.pc = b.pc /\ c.seen = b.seen
      /\ c.flushed = b.flushed /\ c.plan = b.plan /\ c.why = b.why
      /\ c.calls = b.calls /\ c.met = b.met /\ c.parts = b.parts
      /\ c.flags = b.flags /\ c.adapted = b.adapted /\ c.stage = b.stage
      /\ c.hidden = b.hidden /\ c.links = b.links /\ c.routed = b.routed
      /\ c.pages = b.pages /\ c.edited = b.edited /\ c.jinja = b.jinja
  <2>. HIDE DEF b
  <2>1. Builtins(b.reg) \in Registries BY <1>2 DEF Builtins, Procs, Registries, Objects, ModelAdmins
  <2>. QED BY <1>2, <2>1, RegFields DEF Builtin
<1>4. /\ d \in Procs
      /\ d.reg = Discoveries(c.reg) /\ d.pc = c.pc /\ d.seen = c.seen
      /\ d.flushed = c.flushed /\ d.plan = c.plan /\ d.why = c.why
      /\ d.calls = c.calls /\ d.met = c.met /\ d.parts = c.parts
      /\ d.flags = c.flags /\ d.adapted = c.adapted /\ d.stage = c.stage
      /\ d.hidden = c.hidden /\ d.links = c.links /\ d.routed = c.routed
      /\ d.pages = c.pages /\ d.edited = c.edited /\ d.jinja = c.jinja
  <2>. HIDE DEF c
  <2>1. Discoveries(c.reg) \in Registries
    BY <1>3 DEF Discoveries, Procs, Registries, Objects, ModelAdmins
  <2>. QED BY <1>3, <2>1, RegFields DEF Discovered
<1>5. /\ e \in Procs
      /\ e.hidden = h /\ e.pc = d.pc /\ e.seen = d.seen
      /\ e.flushed = d.flushed /\ e.plan = d.plan /\ e.why = d.why
      /\ e.calls = d.calls /\ e.met = d.met /\ e.parts = d.parts
      /\ e.flags = d.flags /\ e.adapted = d.adapted /\ e.stage = d.stage
      /\ e.reg = d.reg /\ e.links = d.links /\ e.routed = d.routed
      /\ e.pages = d.pages /\ e.edited = d.edited /\ e.jinja = d.jinja
  <2>. HIDE DEF d
  <2>1. h \in SUBSET Models BY <1>4, SetupAssumption DEF Procs
  <2>2. e = [d EXCEPT !.hidden = h] BY DEF Hidden
  <2>. HIDE DEF h, e
  <2>. QED BY <1>4, <2>1, <2>2, HiddenFields
<1>6. /\ f \in Procs /\ m["listeners"] = e.parts["listeners"] + 1
      /\ \A x \in Parts \ {"listeners"} : m[x] = e.parts[x]
      /\ f.parts = m /\ f.pc = e.pc /\ f.seen = e.seen
      /\ f.flushed = e.flushed /\ f.plan = e.plan /\ f.why = e.why
      /\ f.calls = e.calls /\ f.met = e.met /\ f.flags = e.flags
      /\ f.adapted = e.adapted /\ f.stage = e.stage /\ f.reg = e.reg
      /\ f.hidden = e.hidden /\ f.links = e.links /\ f.routed = e.routed
      /\ f.pages = e.pages /\ f.edited = e.edited /\ f.jinja = e.jinja
  <2>. HIDE DEF e
  <2>1. e.parts \in [Parts -> Nat] /\ "listeners" \in Parts
    <3>1. e.parts \in [Parts -> Nat] BY <1>5 DEF Procs
    <3>2. "listeners" \in Parts BY DEF Parts
    <3>. QED BY <3>1, <3>2
  <2>2. m \in [Parts -> Nat] /\ m["listeners"] = e.parts["listeners"] + 1
        /\ \A x \in Parts \ {"listeners"} : m[x] = e.parts[x]
    BY <2>1, Counted
  <2>3. f = [e EXCEPT !.parts = m] BY DEF Attached
  <2>. HIDE DEF m, f
  <2>. QED BY <1>5, <2>2, <2>3, PartsFields
<1>7. f = Wired(p) BY DEF Wired
<1>. HIDE DEF a, b, c, d, e, f
<1>8. d.reg = Discoveries(Builtins(p.reg)) BY <1>1, <1>2, <1>3, <1>4
<1>9. d.hidden = p.hidden /\ f.hidden = h BY <1>1, <1>2, <1>3, <1>4, <1>5, <1>6
<1>10. f.hidden = p.hidden \cup {x \in Skipped : Discoveries(Builtins(p.reg))[x] # "none"}
  BY <1>8, <1>9
<1>. HIDE DEF n, m, h
<1>11. /\ f.parts["notifications"] = 1
       /\ f.parts["listeners"] = p.parts["listeners"] + 1
       /\ \A x \in Parts \ {"notifications", "listeners"} : f.parts[x] = p.parts[x]
  <2>1. f.parts = m /\ e.parts = n /\ a.parts = p.parts
    BY <1>1, <1>2, <1>3, <1>4, <1>5, <1>6
  <2>2. {"notifications", "listeners"} \subseteq Parts BY DEF Parts
  <2>. QED BY <2>1, <2>2, <1>2, <1>6
<1>12. /\ f.jinja = TRUE /\ f.pc = p.pc /\ f.seen = p.seen
       /\ f.flushed = p.flushed /\ f.plan = p.plan /\ f.why = p.why
       /\ f.calls = p.calls /\ f.met = p.met /\ f.flags = p.flags
       /\ f.adapted = p.adapted /\ f.stage = p.stage /\ f.links = p.links
       /\ f.routed = p.routed /\ f.pages = p.pages /\ f.edited = p.edited
  BY <1>1, <1>2, <1>3, <1>4, <1>5, <1>6
<1>13. f.reg = Discoveries(Builtins(p.reg)) BY <1>8, <1>5, <1>6
<1>. QED BY <1>6, <1>7, <1>10, <1>11, <1>12, <1>13

LEMMA ReadyFields ==
    ASSUME NEW p \in Procs
    PROVE  LET q == Ready(p) IN
           /\ q \in Procs
           /\ q.parts["ai_nav"] = IF config.ai THEN 1 ELSE 0
           /\ q.parts["ai"] = IF config.ai THEN p.parts["ai"] + 1 ELSE p.parts["ai"]
           /\ \A x \in Parts \ {"ai_nav", "ai"} : q.parts[x] = p.parts[x]
           /\ q.links = Shown(p) /\ q.routed = TRUE
           /\ q.pages = IF p.routed THEN p.pages ELSE Pages(p)
           /\ q.pc = p.pc /\ q.seen = p.seen /\ q.flushed = p.flushed
           /\ q.plan = p.plan /\ q.why = p.why /\ q.calls = p.calls
           /\ q.met = p.met /\ q.flags = p.flags /\ q.adapted = p.adapted
           /\ q.stage = p.stage /\ q.reg = p.reg /\ q.hidden = p.hidden
           /\ q.edited = p.edited /\ q.jinja = p.jinja
<1>. DEFINE n == IF config.ai THEN 1 ELSE 0
            g == Count(p.parts, "ai_nav", n)
            a == Grouped(p)   b == Sidebar(a)   c == Routed(b)   d == AiRouted(c)
            h == Count(c.parts, "ai", c.parts["ai"] + 1)
<1>1. /\ a \in Procs /\ g["ai_nav"] = n
      /\ \A x \in Parts \ {"ai_nav"} : g[x] = p.parts[x]
      /\ a.parts = g /\ a.pc = p.pc /\ a.seen = p.seen
      /\ a.flushed = p.flushed /\ a.plan = p.plan /\ a.why = p.why
      /\ a.calls = p.calls /\ a.met = p.met /\ a.flags = p.flags
      /\ a.adapted = p.adapted /\ a.stage = p.stage /\ a.reg = p.reg
      /\ a.hidden = p.hidden /\ a.links = p.links /\ a.routed = p.routed
      /\ a.pages = p.pages /\ a.edited = p.edited /\ a.jinja = p.jinja
  <2>1. p.parts \in [Parts -> Nat] BY DEF Procs
  <2>2. "ai_nav" \in Parts BY DEF Parts
  <2>3. n \in Nat OBVIOUS
  <2>4. a = [p EXCEPT !.parts = g] BY DEF Grouped
  <2>. HIDE DEF n, a
  <2>5. g \in [Parts -> Nat] /\ g["ai_nav"] = n
        /\ \A x \in Parts \ {"ai_nav"} : g[x] = p.parts[x]
    BY <2>1, <2>2, <2>3, Counted
  <2>. HIDE DEF g
  <2>. QED BY <2>4, <2>5, PartsFields
<1>2. /\ b \in Procs
      /\ b.links = Shown(a) /\ b.pc = a.pc /\ b.seen = a.seen
      /\ b.flushed = a.flushed /\ b.plan = a.plan /\ b.why = a.why
      /\ b.calls = a.calls /\ b.met = a.met /\ b.parts = a.parts
      /\ b.flags = a.flags /\ b.adapted = a.adapted /\ b.stage = a.stage
      /\ b.reg = a.reg /\ b.hidden = a.hidden /\ b.routed = a.routed
      /\ b.pages = a.pages /\ b.edited = a.edited /\ b.jinja = a.jinja
  <2>. HIDE DEF a
  <2>1. Shown(a) \in SUBSET Models BY DEF Shown
  <2>. QED BY <1>1, <2>1, LinksFields DEF Sidebar
<1>3. Shown(a) = Shown(p) /\ Shown(b) = Shown(p) BY <1>1, <1>2 DEF Shown
<1>4. Pages(b) = Pages(p) BY <1>1, <1>2, <1>3 DEF Pages
<1>5. /\ c \in Procs /\ c.routed = TRUE /\ c.pages = IF b.routed THEN b.pages ELSE Pages(b)
      /\ c.pc = b.pc /\ c.seen = b.seen /\ c.flushed = b.flushed
      /\ c.plan = b.plan /\ c.why = b.why /\ c.calls = b.calls
      /\ c.met = b.met /\ c.parts = b.parts /\ c.flags = b.flags
      /\ c.adapted = b.adapted /\ c.stage = b.stage /\ c.reg = b.reg
      /\ c.hidden = b.hidden /\ c.links = b.links /\ c.edited = b.edited
      /\ c.jinja = b.jinja
  <2>. HIDE DEF b
  <2>1. CASE b.routed
    <3>1. b.routed = TRUE BY <1>2, <2>1 DEF Procs
    <3>. QED BY <1>2, <2>1, <3>1 DEF Routed
  <2>2. CASE ~b.routed
    <3>1. Pages(b) \in Registries BY <1>2 DEF Pages, Procs, Registries, Objects, ModelAdmins
    <3>. DEFINE v == Pages(b)
                x == [b EXCEPT !.pages = v]
                y == [x EXCEPT !.routed = TRUE]
    <3>2. c = [b EXCEPT !.pages = v, !.routed = TRUE] BY <2>2 DEF Routed
    <3>. HIDE DEF c, v
    <3>3. b \in Procs /\ v \in Registries BY <1>2, <3>1 DEF v
    <3>4. x \in Procs BY <3>3 DEF Procs
    <3>5. y \in Procs BY <3>4 DEF Procs
    <3>6. y = c BY <3>2
    <3>7. /\ c \in Procs /\ c.routed = TRUE /\ c.pages = v
          /\ c.pc = b.pc /\ c.seen = b.seen /\ c.flushed = b.flushed
          /\ c.plan = b.plan /\ c.why = b.why /\ c.calls = b.calls
          /\ c.met = b.met /\ c.parts = b.parts /\ c.flags = b.flags
          /\ c.adapted = b.adapted /\ c.stage = b.stage /\ c.reg = b.reg
          /\ c.hidden = b.hidden /\ c.links = b.links /\ c.edited = b.edited
          /\ c.jinja = b.jinja
      BY <3>2, <3>3, <3>5, <3>6 DEF Procs
    <3>. QED BY <2>2, <3>7 DEF v
  <2>. QED BY <2>1, <2>2
<1>6. /\ d \in Procs
      /\ d.parts["ai"] = IF config.ai THEN c.parts["ai"] + 1 ELSE c.parts["ai"]
      /\ \A x \in Parts \ {"ai"} : d.parts[x] = c.parts[x]
      /\ d.pc = c.pc /\ d.seen = c.seen /\ d.flushed = c.flushed
      /\ d.plan = c.plan /\ d.why = c.why /\ d.calls = c.calls
      /\ d.met = c.met /\ d.flags = c.flags /\ d.adapted = c.adapted
      /\ d.stage = c.stage /\ d.reg = c.reg /\ d.hidden = c.hidden
      /\ d.links = c.links /\ d.routed = c.routed /\ d.pages = c.pages
      /\ d.edited = c.edited /\ d.jinja = c.jinja
  <2>. HIDE DEF c
  <2>1. CASE config.ai
    <3>1. c.parts \in [Parts -> Nat] BY <1>5 DEF Procs
    <3>2. "ai" \in Parts BY DEF Parts
    <3>3. h \in [Parts -> Nat] /\ h["ai"] = c.parts["ai"] + 1
          /\ \A x \in Parts \ {"ai"} : h[x] = c.parts[x]
      <4>1. c.parts["ai"] + 1 \in Nat BY <3>1, <3>2
      <4>. QED BY <3>1, <3>2, <4>1, Counted
    <3>4. d = [c EXCEPT !.parts = h] BY <2>1 DEF AiRouted
    <3>. HIDE DEF h, d
    <3>. QED BY <1>5, <2>1, <3>3, <3>4, PartsFields
  <2>2. CASE ~config.ai
    BY <1>5, <2>2 DEF AiRouted
  <2>. QED BY <2>1, <2>2
<1>7. d = Ready(p) BY DEF Ready
<1>. HIDE DEF a, b, c, d, g, n
<1>8. /\ d.pc = p.pc /\ d.seen = p.seen /\ d.flushed = p.flushed
      /\ d.plan = p.plan /\ d.why = p.why /\ d.calls = p.calls
      /\ d.met = p.met /\ d.flags = p.flags /\ d.adapted = p.adapted
      /\ d.stage = p.stage /\ d.reg = p.reg /\ d.hidden = p.hidden
      /\ d.edited = p.edited /\ d.jinja = p.jinja
  BY <1>1, <1>2, <1>5, <1>6
<1>9. d.links = Shown(p) /\ d.routed = TRUE /\ d.pages = IF p.routed THEN p.pages ELSE Pages(p)
  <2>1. d.links = c.links /\ c.links = b.links /\ b.links = Shown(a)
        /\ d.routed = c.routed /\ d.pages = c.pages /\ b.routed = p.routed
        /\ b.pages = p.pages
    BY <1>1, <1>2, <1>5, <1>6
  <2>. QED BY <2>1, <1>3, <1>4, <1>5
<1>10. /\ d.parts["ai_nav"] = n
       /\ d.parts["ai"] = IF config.ai THEN p.parts["ai"] + 1 ELSE p.parts["ai"]
       /\ \A x \in Parts \ {"ai_nav", "ai"} : d.parts[x] = p.parts[x]
  <2>1. c.parts = b.parts /\ b.parts = a.parts /\ a.parts = g BY <1>1, <1>2, <1>5
  <2>2. "ai" \in Parts /\ "ai_nav" \in Parts BY DEF Parts
  <2>3. c.parts["ai"] = p.parts["ai"] /\ d.parts["ai_nav"] = g["ai_nav"]
    BY <1>1, <1>6, <2>1, <2>2
  <2>4. ASSUME NEW x \in Parts \ {"ai_nav", "ai"} PROVE d.parts[x] = p.parts[x]
    <3>1. d.parts[x] = c.parts[x] BY <1>6
    <3>. QED BY <1>1, <3>1, <2>1
  <2>. QED BY <1>1, <1>6, <2>3, <2>4
<1>. QED BY <1>6, <1>7, <1>8, <1>9, <1>10 DEF n

EditedAs(p, m, q) ==
    /\ q \in Procs
    /\ \A x \in Models \ {m} : q.reg[x] = p.reg[x]
    /\ q.hidden = p.hidden \ {m}
    /\ q.edited = IF p.routed THEN p.edited \cup {m} ELSE p.edited
    /\ q.pc = p.pc /\ q.seen = p.seen /\ q.flushed = p.flushed
    /\ q.plan = p.plan /\ q.why = p.why /\ q.calls = p.calls
    /\ q.met = p.met /\ q.parts = p.parts /\ q.flags = p.flags
    /\ q.adapted = p.adapted /\ q.stage = p.stage /\ q.links = p.links
    /\ q.routed = p.routed /\ q.pages = p.pages /\ q.jinja = p.jinja

LEMMA EditedRegistry ==
    ASSUME NEW p \in Procs, NEW m \in Models, NEW admin \in Objects
    PROVE  EditedAs(p, m, Edited(p, m, admin))
<1>. DEFINE r == [p.reg EXCEPT ![m] = admin]   h == p.hidden \ {m}
            e == IF p.routed THEN p.edited \cup {m} ELSE p.edited
            a == [p EXCEPT !.reg = r]   b == [a EXCEPT !.hidden = h]
            c == [b EXCEPT !.edited = e]
<1>1. p.reg \in Registries BY DEF Procs
<1>2. r \in Registries /\ r[m] = admin /\ \A x \in Models \ {m} : r[x] = p.reg[x]
  BY <1>1 DEF Registries, Objects
<1>3. h \in SUBSET Models BY DEF Procs
<1>4. e \in SUBSET Models BY DEF Procs
<1>5. c = Edited(p, m, admin) BY DEF Edited
<1>. HIDE DEF r, h, e
<1>6. a \in Procs BY <1>2 DEF Procs
<1>7. b \in Procs BY <1>6, <1>3 DEF Procs
<1>8. c \in Procs BY <1>7, <1>4 DEF Procs
<1>9. c = [p EXCEPT !.reg = r, !.hidden = h, !.edited = e] OBVIOUS
<1>10. /\ c.reg = r /\ c.hidden = h /\ c.edited = e /\ c.pc = p.pc
       /\ c.seen = p.seen /\ c.flushed = p.flushed /\ c.plan = p.plan
       /\ c.why = p.why /\ c.calls = p.calls /\ c.met = p.met
       /\ c.parts = p.parts /\ c.flags = p.flags /\ c.adapted = p.adapted
       /\ c.stage = p.stage /\ c.links = p.links /\ c.routed = p.routed
       /\ c.pages = p.pages /\ c.jinja = p.jinja
  BY <1>9 DEF Procs
<1>. HIDE DEF c
<1>. QED BY <1>2, <1>5, <1>8, <1>10 DEF EditedAs, h, e

-----------------------------------------------------------------------------
(* What a process keeps on its way through setup.                             *)

\* The application of q is that of p.
SameApp(p, q) ==
    /\ q.parts = p.parts /\ q.flags = p.flags /\ q.calls = p.calls
    /\ q.reg = p.reg /\ q.hidden = p.hidden /\ q.links = p.links
    /\ q.routed = p.routed /\ q.pages = p.pages /\ q.edited = p.edited

LEMMA ShownSame ==
    ASSUME NEW p, NEW q, q.reg = p.reg, q.hidden = p.hidden
    PROVE  Shown(q) = Shown(p)
BY DEF Shown

LEMMA InShown ==
    ASSUME NEW p, NEW m \in Models
    PROVE  m \in Shown(p) <=> p.reg[m] # "none" /\ m \notin p.hidden
BY DEF Shown

LEMMA PagesSame ==
    ASSUME NEW c, NEW p, NEW q, SameApp(p, q), PagesInv(c, p),
           q.pc = "serving" => q.routed
    PROVE  PagesInv(c, q)
<1>1. Shown(q) = Shown(p) BY ShownSame DEF SameApp
<1>. QED BY <1>1 DEF PagesInv, SameApp

LEMMA InsideInv ==
    ASSUME NEW c, NEW p, NEW q, ProcInv(c, p), SameApp(p, q),
           p.pc \in Inside, q.pc \in Inside, StageInv(c, q)
    PROVE  ProcInv(c, q)
<1>1. q.pc \notin {"off", "serving"} /\ p.pc \notin {"off", "serving"} BY DEF Inside
<1>2. StackInv(c, q) BY <1>1 DEF ProcInv, StackInv, SameApp
<1>3. MountInv(c, q) BY <1>1 DEF ProcInv, MountInv, SameApp
<1>4. PagesInv(c, q) BY <1>1, PagesSame DEF ProcInv
<1>. QED BY <1>2, <1>3, <1>4 DEF ProcInv

LEMMA SameInv ==
    ASSUME NEW c, NEW p, NEW q, ProcInv(c, p), SameApp(p, q),
           q.pc = p.pc, q.stage = p.stage, q.adapted = p.adapted,
           q.flushed = p.flushed, q.seen = p.seen
    PROVE  ProcInv(c, q)
<1>1. StackInv(c, q) BY DEF ProcInv, StackInv, SameApp
<1>2. MountInv(c, q) BY DEF ProcInv, MountInv, SameApp
<1>3. StageInv(c, q) BY DEF ProcInv, StageInv, SameApp
<1>4. PagesInv(c, q) BY PagesSame DEF ProcInv, PagesInv, SameApp
<1>. QED BY <1>1, <1>2, <1>3, <1>4 DEF ProcInv

LEMMA SeedsLength == Len(Seeds) \in Nat
BY SetupAssumption

LEMMA FailedInv ==
    ASSUME NEW p \in Procs, NEW why \in Outcomes, ProcInv(config, p), p.pc \in Inside
    PROVE  ProcInv(config, Failed(p, why))
<1>. DEFINE q == Failed(p, why)
<1>1. /\ q.pc = "failed" /\ q.seen = {} /\ q.flushed = 0 /\ SameApp(p, q)
  BY FailedFields DEF SameApp
<1>2. "failed" \notin Inside \cup {"off", "serving"} /\ p.pc # "off" BY DEF Inside
<1>. HIDE DEF q
<1>3. StackInv(config, q) BY <1>1, <1>2 DEF ProcInv, StackInv, SameApp
<1>4. MountInv(config, q) BY <1>1, <1>2 DEF ProcInv, MountInv, SameApp
<1>5. StageInv(config, q)
  BY <1>1, <1>2, SeedsLength DEF ProcInv, StageInv, SameApp
<1>6. PagesInv(config, q) BY <1>1, PagesSame DEF ProcInv
<1>. QED BY <1>3, <1>4, <1>5, <1>6 DEF ProcInv, q

LEMMA OffInv == ASSUME config \in Configs PROVE ProcInv(config, Off)
<1>. DEFINE q == Off
<1>1. /\ q.pc = "off" /\ q.seen = {} /\ q.flushed = 0 /\ q.calls = 0 /\ q.flags = {}
      /\ q.parts = [x \in Parts |-> 0] /\ q.hidden = {} /\ q.routed = FALSE
  BY OffFields
<1>2. "off" \notin Inside BY DEF Inside
<1>. HIDE DEF q
<1>3. \A x \in Parts : q.parts[x] = 0 BY <1>1
<1>4. q.parts["csrf"] = 0 /\ q.parts["notifications"] = 0 /\ q.parts["ai_nav"] = 0
      /\ q.parts["listeners"] = 0 /\ q.parts["ai"] = 0
      /\ \A x \in Middlewares : q.parts[x] = 0
  BY <1>3 DEF Parts
<1>5. config.early \in BOOLEAN BY ConfigFields
<1>6. StackInv(config, q) BY <1>1, <1>2, <1>4, <1>5 DEF StackInv
<1>7. MountInv(config, q) BY <1>1, <1>2, <1>4, SetupAssumption DEF MountInv
<1>8. StageInv(config, q) BY <1>1, <1>2, SeedsLength DEF StageInv
<1>9. PagesInv(config, q) BY <1>1 DEF PagesInv
<1>. QED BY <1>6, <1>7, <1>8, <1>9 DEF ProcInv, q

LEMMA ImportInv ==
    ASSUME config \in Configs
    PROVE  ProcInv(config, [Off EXCEPT !.pc = "built", !.reg = config.reg,
                               !.flags = EarlyStack, !.parts = Once(EarlyStack)])
<1>. DEFINE q == [Off EXCEPT !.pc = "built", !.reg = config.reg,
                             !.flags = EarlyStack, !.parts = Once(EarlyStack)]
<1>1. /\ q.pc = "built" /\ q.flags = EarlyStack /\ q.parts = Once(EarlyStack)
      /\ q.seen = {} /\ q.flushed = 0 /\ q.calls = 0 /\ q.hidden = {} /\ q.routed = FALSE
  BY ImportFields
<1>2. "built" \notin Inside \cup {"off", "serving"} BY DEF Inside
<1>. HIDE DEF q
<1>3. config.early \in BOOLEAN BY ConfigFields
<1>4. \A x \in Parts : q.parts[x] = IF x \in q.flags THEN 1 ELSE 0 BY <1>1 DEF Once
<1>5. q.flags = IF config.early THEN Middlewares \cup {"csrf"} ELSE {}
  BY <1>1 DEF EarlyStack
<1>6. {"notifications", "ai_nav", "listeners", "ai"} \cap q.flags = {} /\ "csrf" \notin Middlewares
  BY <1>5 DEF Middlewares
<1>7. /\ q.parts["notifications"] = 0 /\ q.parts["ai_nav"] = 0
      /\ q.parts["listeners"] = 0 /\ q.parts["ai"] = 0
      /\ q.parts["csrf"] = IF config.early THEN 1 ELSE 0
      /\ \A x \in Middlewares : q.parts[x] = IF x \in q.flags THEN 1 ELSE 0
  <2>1. {"notifications", "ai_nav", "listeners", "ai", "csrf"} \subseteq Parts
        /\ Middlewares \subseteq Parts
    BY DEF Parts
  <2>2. "csrf" \in q.flags <=> config.early BY <1>5, <1>6
  <2>3. q.parts["csrf"] = IF config.early THEN 1 ELSE 0 BY <1>4, <2>1, <2>2
  <2>. QED BY <1>4, <1>6, <2>1, <2>3
<1>8. q.pc = "built" /\ q.calls = 0 BY <1>1
<1>9. StackInv(config, q)
  <2>1. config.early => "csrf" \in q.flags BY <1>5
  <2>. QED BY <1>2, <1>7, <1>8, <2>1 DEF StackInv
<1>10. MountInv(config, q) BY <1>2, <1>7, <1>8, SetupAssumption DEF MountInv
<1>11. StageInv(config, q) BY <1>1, <1>2, SeedsLength DEF StageInv
<1>12. PagesInv(config, q) BY <1>1 DEF PagesInv
<1>. QED BY <1>9, <1>10, <1>11, <1>12 DEF ProcInv, q

LEMMA BegunInv ==
    ASSUME config \in Configs, NEW p \in Procs, NEW met \in BOOLEAN,
           ProcInv(config, p), p.pc \in Idle, p.calls < MaxCalls
    PROVE  ProcInv(config, Begun(Adapted(Stacked(p)), met))
<1>. DEFINE s == Stacked(p)   a == Adapted(s)   q == Begun(a, met)
<1>1. /\ s \in Procs /\ s.parts = WithAdded(p) /\ s.flags = p.flags \cup Middlewares
      /\ s.seen = p.seen /\ s.flushed = p.flushed /\ s.calls = p.calls
      /\ s.reg = p.reg /\ s.hidden = p.hidden /\ s.links = p.links
      /\ s.routed = p.routed /\ s.pages = p.pages /\ s.edited = p.edited
  BY StackedFields
<1>. HIDE DEF s
<1>2. /\ a \in Procs /\ SameApp(s, a) /\ a.seen = s.seen /\ a.flushed = s.flushed
      /\ a.adapted = (s.adapted \/ (config.custom /\ config.ddl # "skip"))
  BY <1>1, AdaptedFields DEF SameApp
<1>. HIDE DEF a
<1>3. /\ q.calls = a.calls + 1 /\ q.stage = 1
      /\ q.pc = IF config.ddl = "auto" THEN "checking" ELSE "seeding"
      /\ q.seen = a.seen /\ q.flushed = a.flushed /\ q.parts = a.parts
      /\ q.flags = a.flags /\ q.adapted = a.adapted /\ q.reg = a.reg
      /\ q.hidden = a.hidden /\ q.links = a.links /\ q.routed = a.routed
      /\ q.pages = a.pages /\ q.edited = a.edited
  BY <1>2, BegunFields
<1>. HIDE DEF q
<1>4. q.pc \in Inside /\ q.pc \notin {"off", "serving"} /\ p.pc # "off" /\ p.pc \notin Inside
  BY <1>3 DEF Inside, Idle
<1>5. /\ q.calls = p.calls + 1 /\ q.parts = WithAdded(p)
      /\ q.flags = p.flags \cup Middlewares
      /\ q.seen = p.seen /\ q.flushed = p.flushed
  BY <1>1, <1>2, <1>3 DEF SameApp
<1>6. /\ q.reg = p.reg /\ q.hidden = p.hidden /\ q.links = p.links /\ q.routed = p.routed
      /\ q.pages = p.pages /\ q.edited = p.edited
  BY <1>1, <1>2, <1>3 DEF SameApp
<1>7. \A x \in Parts : q.parts[x] = IF x \in Added(p) THEN p.parts[x] + 1 ELSE p.parts[x]
  BY <1>5 DEF WithAdded
<1>8. {"notifications", "ai_nav", "listeners", "ai"} \cap Added(p) = {}
      /\ {"notifications", "ai_nav", "listeners", "ai", "csrf"} \subseteq Parts
      /\ Middlewares \subseteq Parts
  BY DEF Added, Middlewares, Parts
<1>9. q.parts["notifications"] = p.parts["notifications"]
      /\ q.parts["ai_nav"] = p.parts["ai_nav"] /\ q.parts["ai"] = p.parts["ai"]
      /\ q.parts["listeners"] = p.parts["listeners"]
      /\ q.parts["csrf"] = IF "csrf" \in Added(p) THEN p.parts["csrf"] + 1 ELSE p.parts["csrf"]
  BY <1>7, <1>8
<1>10. \A x \in Middlewares : x \in Added(p) <=> x \notin p.flags
  BY DEF Added, Adds, Middlewares
<1>11. \A x \in Middlewares : q.parts[x] = 1
  <2>. TAKE x \in Middlewares
  <2>1. p.parts[x] = IF x \in p.flags THEN 1 ELSE 0 BY DEF ProcInv, StackInv
  <2>2. q.parts[x] = IF x \in Added(p) THEN p.parts[x] + 1 ELSE p.parts[x] BY <1>7, <1>8
  <2>. QED BY <2>1, <2>2, <1>10
<1>12. p.calls \in Nat /\ p.parts["csrf"] \in Nat
  <2>1. p.parts \in [Parts -> Nat] /\ p.calls \in Nat BY DEF Procs
  <2>. QED BY <2>1, <1>8
<1>13. "csrf" \in p.flags => "csrf" \notin Added(p) BY DEF Added, Adds
<1>14. StackInv(config, q)
  BY <1>4, <1>5, <1>9, <1>11, <1>12, <1>13 DEF ProcInv, StackInv
<1>15. MountInv(config, q)
  <2>1. p.parts["listeners"] \in Nat BY <1>8 DEF Procs
  <2>. QED BY <1>4, <1>5, <1>9, <1>12, <2>1, SetupAssumption DEF ProcInv, MountInv
<1>16. StageInv(config, q)
  <2>1. config.custom /\ config.ddl = "auto" => q.adapted BY <1>2, <1>3
  <2>. QED BY <2>1, <1>3, <1>5 DEF ProcInv, StageInv
<1>17. PagesInv(config, q)
  <2>1. Shown(q) = Shown(p) BY <1>6, ShownSame
  <2>. QED BY <2>1, <1>4, <1>6 DEF ProcInv, PagesInv
<1>. QED BY <1>14, <1>15, <1>16, <1>17 DEF ProcInv, q, a, s

LEMMA WiredRegistry ==
    ASSUME NEW reg \in Registries, NEW m \in Models
    PROVE  LET r == Discoveries(Builtins(reg)) IN
           /\ reg[m] # "none" => r[m] = reg[m]
           /\ m \notin KitModels /\ ~config.discover => r[m] = reg[m]
           /\ r[m] = "none" => m \notin KitModels /\ ~config.discover
BY DEF Discoveries, Builtins

\* With the routers built, the models left alone keep their pages and links.
LEMMA WiredPages ==
    ASSUME config \in Configs, NEW p \in Procs, PagesInv(config, p), p.pc = "wiring"
    PROVE  /\ PagesInv(config, Wired(p))
           /\ \A m \in Models :
                 /\ Wired(p).reg[m] # "none" /\ m \in Skipped => m \in Wired(p).hidden
                 /\ Wired(p).reg[m] = "none" => m \notin KitModels /\ ~config.discover
<1>. DEFINE q == Wired(p)   r == Discoveries(Builtins(p.reg))
<1>1. /\ q.pc = p.pc /\ q.reg = r /\ q.links = p.links /\ q.routed = p.routed
      /\ q.hidden = p.hidden \cup {m \in Skipped : r[m] # "none"}
      /\ q.pages = p.pages /\ q.edited = p.edited
  BY WiredFields
<1>2. p.reg \in Registries BY DEF Procs
<1>3. \A m \in Models : /\ p.reg[m] # "none" => r[m] = p.reg[m]
                        /\ m \notin KitModels /\ ~config.discover => r[m] = p.reg[m]
                        /\ r[m] = "none" => m \notin KitModels /\ ~config.discover
  BY <1>2, WiredRegistry
<1>. HIDE DEF q, r
<1>4. q.hidden \subseteq Skipped BY <1>1 DEF PagesInv
<1>5. \A m \in Models : /\ q.reg[m] # "none" /\ m \in Skipped => m \in q.hidden
                        /\ q.reg[m] = "none" => m \notin KitModels /\ ~config.discover
  BY <1>1, <1>3
<1>6. ASSUME q.routed, NEW m \in Models \ q.edited
      PROVE  /\ q.reg[m] = p.reg[m]
             /\ m \in q.hidden <=> m \in p.hidden
  <2>1. /\ p.reg[m] # "none" /\ m \in Skipped => m \in p.hidden
        /\ p.reg[m] = "none" => m \notin KitModels /\ ~config.discover
    BY <1>1, <1>6 DEF PagesInv
  <2>2. q.reg[m] = p.reg[m] BY <1>1, <1>3, <2>1
  <2>3. m \in q.hidden => m \in p.hidden BY <1>1, <2>1, <2>2
  <2>4. m \in p.hidden => m \in q.hidden BY <1>1
  <2>. QED BY <2>2, <2>3, <2>4
<1>7. PagesInv(config, q)
  <2>1. ASSUME q.routed, NEW m \in Models \ q.edited
        PROVE  /\ q.pages[m] = IF m \in Shown(q) THEN q.reg[m] ELSE "none"
               /\ m \in q.links <=> m \in Shown(q)
    <3>1. m \in Shown(q) <=> m \in Shown(p) BY <1>6, <2>1, InShown
    <3>2. /\ p.pages[m] = IF m \in Shown(p) THEN p.reg[m] ELSE "none"
          /\ m \in p.links <=> m \in Shown(p)
      BY <1>1, <2>1 DEF PagesInv
    <3>. QED BY <1>1, <1>6, <2>1, <3>1, <3>2
  <2>. QED BY <1>1, <1>4, <1>5, <2>1 DEF PagesInv
<1>. QED BY <1>5, <1>7 DEF q

LEMMA WiredParts ==
    ASSUME NEW p \in Procs
    PROVE  /\ Wired(p).parts["notifications"] = 1
           /\ Wired(p).parts["listeners"] = p.parts["listeners"] + 1
           /\ Wired(p).parts["csrf"] = p.parts["csrf"]
           /\ Wired(p).parts["ai_nav"] = p.parts["ai_nav"]
           /\ Wired(p).parts["ai"] = p.parts["ai"]
           /\ \A x \in Middlewares : Wired(p).parts[x] = p.parts[x]
           /\ p.parts["listeners"] \in Nat /\ p.parts["ai"] \in Nat
<1>1. {"csrf", "ai_nav", "ai"} \cup Middlewares \subseteq Parts \ {"notifications", "listeners"}
  BY DEF Parts, Middlewares
<1>2. \A x \in {"csrf", "ai_nav", "ai"} \cup Middlewares : Wired(p).parts[x] = p.parts[x]
  BY <1>1, WiredFields
<1>3. p.parts["listeners"] \in Nat /\ p.parts["ai"] \in Nat
  <2>1. p.parts \in [Parts -> Nat] BY DEF Procs
  <2>2. "listeners" \in Parts /\ "ai" \in Parts BY DEF Parts
  <2>. QED BY <2>1, <2>2
<1>4. Wired(p).parts["notifications"] = 1
      /\ Wired(p).parts["listeners"] = p.parts["listeners"] + 1
  BY WiredFields
<1>. QED BY <1>2, <1>3, <1>4

\* A start that ends because models have no tag.
LEMMA UntaggedInv ==
    ASSUME config \in Configs, NEW p \in Procs, ProcInv(config, p), p.pc = "wiring"
    PROVE  ProcInv(config, Failed(Wired(p), "tags"))
<1>. DEFINE w == Wired(p)   q == Failed(w, "tags")
<1>1. /\ w \in Procs /\ w.flags = p.flags /\ w.calls = p.calls
  BY WiredFields
<1>2. /\ w.parts["notifications"] = 1 /\ w.parts["listeners"] = p.parts["listeners"] + 1
      /\ w.parts["csrf"] = p.parts["csrf"] /\ w.parts["ai_nav"] = p.parts["ai_nav"]
      /\ w.parts["ai"] = p.parts["ai"]
      /\ \A x \in Middlewares : w.parts[x] = p.parts[x]
      /\ p.parts["listeners"] \in Nat /\ p.parts["ai"] \in Nat
  BY WiredParts
<1>3. PagesInv(config, w) BY WiredPages DEF ProcInv
<1>. HIDE DEF w
<1>4. /\ q.pc = "failed" /\ q.seen = {} /\ q.flushed = 0 /\ SameApp(w, q)
  BY <1>1, FailedFields DEF SameApp, Outcomes
<1>. HIDE DEF q
<1>5. "failed" \notin Inside \cup {"off", "serving"} /\ p.pc \in Inside /\ p.pc # "off"
  BY DEF Inside
<1>6. q.parts = w.parts /\ q.flags = p.flags /\ q.calls = p.calls BY <1>1, <1>4 DEF SameApp
<1>7. StackInv(config, q) BY <1>2, <1>4, <1>5, <1>6 DEF ProcInv, StackInv
<1>8. MountInv(config, q)
  <2>1. p.calls \in Nat BY DEF Procs
  <2>. QED BY <1>2, <1>4, <1>5, <1>6, <2>1 DEF ProcInv, MountInv
<1>9. StageInv(config, q) BY <1>4, <1>5, SeedsLength DEF StageInv
<1>10. PagesInv(config, q) BY <1>3, <1>4, PagesSame
<1>. QED BY <1>7, <1>8, <1>9, <1>10 DEF ProcInv, q, w

\* A start that comes to serve.
LEMMA ServingInv ==
    ASSUME config \in Configs, NEW p \in Procs, ProcInv(config, p), p.pc = "wiring"
    PROVE  LET q == [Ready(Wired(p)) EXCEPT !.pc = "serving"] IN
           /\ q \in Procs /\ ProcInv(config, q)
           /\ q.pc = "serving" /\ q.stage = p.stage /\ q.why = p.why
<1>. DEFINE w == Wired(p)   r == Ready(w)   q == [r EXCEPT !.pc = "serving"]
<1>1. /\ w \in Procs /\ w.flags = p.flags /\ w.calls = p.calls /\ w.adapted = p.adapted
      /\ w.flushed = p.flushed /\ w.seen = p.seen /\ w.stage = p.stage /\ w.why = p.why
      /\ w.routed = p.routed /\ w.edited = p.edited
  BY WiredFields
<1>2. /\ w.parts["notifications"] = 1 /\ w.parts["listeners"] = p.parts["listeners"] + 1
      /\ w.parts["csrf"] = p.parts["csrf"] /\ w.parts["ai_nav"] = p.parts["ai_nav"]
      /\ w.parts["ai"] = p.parts["ai"]
      /\ \A x \in Middlewares : w.parts[x] = p.parts[x]
      /\ p.parts["listeners"] \in Nat /\ p.parts["ai"] \in Nat
  BY WiredParts
<1>3. /\ PagesInv(config, w)
      /\ \A m \in Models : /\ w.reg[m] # "none" /\ m \in Skipped => m \in w.hidden
                           /\ w.reg[m] = "none" => m \notin KitModels /\ ~config.discover
  BY WiredPages DEF ProcInv
<1>. HIDE DEF w
<1>4. /\ r \in Procs
      /\ r.parts["ai_nav"] = IF config.ai THEN 1 ELSE 0
      /\ r.parts["ai"] = IF config.ai THEN w.parts["ai"] + 1 ELSE w.parts["ai"]
      /\ \A x \in Parts \ {"ai_nav", "ai"} : r.parts[x] = w.parts[x]
  BY <1>1, ReadyFields
<1>5. /\ r.links = Shown(w) /\ r.routed = TRUE
      /\ r.pages = IF w.routed THEN w.pages ELSE Pages(w)
  BY <1>1, ReadyFields
<1>6. /\ r.flags = w.flags /\ r.calls = w.calls /\ r.adapted = w.adapted
      /\ r.flushed = w.flushed /\ r.seen = w.seen /\ r.stage = w.stage /\ r.why = w.why
      /\ r.reg = w.reg /\ r.hidden = w.hidden /\ r.edited = w.edited
  BY <1>1, ReadyFields
<1>. HIDE DEF r
<1>7. q \in Procs /\ q.pc = "serving" /\ q.parts = r.parts /\ q.flags = p.flags
      /\ q.calls = p.calls /\ q.adapted = p.adapted /\ q.flushed = p.flushed
      /\ q.seen = p.seen /\ q.stage = p.stage /\ q.why = p.why
  BY <1>1, <1>4, <1>6, ServingFields
<1>8. q.links = Shown(w) /\ q.routed = TRUE /\ q.pages = r.pages
      /\ q.reg = w.reg /\ q.hidden = w.hidden /\ q.edited = w.edited
  BY <1>4, <1>5, <1>6, ServingFields
<1>. HIDE DEF q
<1>9. p.pc \in Inside /\ "serving" \notin Inside BY DEF Inside
<1>10. {"csrf", "notifications", "listeners"} \cup Middlewares \subseteq Parts \ {"ai_nav", "ai"}
  BY DEF Parts, Middlewares
<1>11. /\ q.parts["notifications"] = 1 /\ q.parts["listeners"] = p.parts["listeners"] + 1
       /\ q.parts["csrf"] = p.parts["csrf"]
       /\ \A x \in Middlewares : q.parts[x] = p.parts[x]
  <2>1. \A x \in {"csrf", "notifications", "listeners"} \cup Middlewares : q.parts[x] = w.parts[x]
    BY <1>4, <1>7, <1>10
  <2>. QED BY <1>2, <2>1
<1>12. StackInv(config, q) BY <1>7, <1>9, <1>11 DEF ProcInv, StackInv
<1>13. MountInv(config, q)
  <2>1. p.calls \in Nat BY DEF Procs
  <2>2. q.parts["ai_nav"] = IF config.ai THEN 1 ELSE 0 BY <1>4, <1>7
  <2>3. q.parts["ai"] <= p.parts["ai"] + 1 BY <1>2, <1>4, <1>7
  <2>4. q.parts["ai"] \in Nat BY <1>2, <1>4, <1>7
  <2>. QED BY <1>2, <1>7, <1>9, <1>11, <2>1, <2>2, <2>3, <2>4 DEF ProcInv, MountInv
<1>14. StageInv(config, q) BY <1>7, <1>9 DEF ProcInv, StageInv
<1>15. PagesInv(config, q)
  <2>1. Shown(q) = Shown(w) BY <1>8, ShownSame
  <2>2. ASSUME NEW m \in Models \ q.edited
        PROVE  q.pages[m] = IF m \in Shown(q) THEN q.reg[m] ELSE "none"
    <3>1. CASE w.routed
      BY <1>3, <1>5, <1>8, <2>1, <2>2, <3>1 DEF PagesInv
    <3>2. CASE ~w.routed
      <4>1. q.pages = Pages(w) BY <1>5, <1>8, <3>2
      <4>2. Pages(w)[m] = IF m \in Shown(w) THEN w.reg[m] ELSE "none" BY DEF Pages
      <4>. QED BY <1>8, <2>1, <4>1, <4>2
    <3>. QED BY <3>1, <3>2
  <2>3. q.hidden \subseteq Skipped BY <1>3, <1>8 DEF PagesInv
  <2>. QED BY <1>3, <1>8, <2>1, <2>2, <2>3 DEF PagesInv
<1>. QED BY <1>7, <1>12, <1>13, <1>14, <1>15 DEF ProcInv, q, r, w

\* register and unregister, outside a start.
LEMMA EditedInv ==
    ASSUME NEW p \in Procs, NEW m \in Models, NEW admin \in Objects,
           ProcInv(config, p)
    PROVE  ProcInv(config, Edited(p, m, admin))
<1>. DEFINE q == Edited(p, m, admin)
<1>0. EditedAs(p, m, q) BY EditedRegistry
<1>. HIDE DEF q
<1>1. /\ \A x \in Models \ {m} : q.reg[x] = p.reg[x]
      /\ q.hidden = p.hidden \ {m}
      /\ q.edited = IF p.routed THEN p.edited \cup {m} ELSE p.edited
  BY <1>0 DEF EditedAs
<1>2. /\ q.pc = p.pc /\ q.stage = p.stage /\ q.adapted = p.adapted /\ q.seen = p.seen
      /\ q.flushed = p.flushed /\ q.parts = p.parts /\ q.flags = p.flags
      /\ q.calls = p.calls /\ q.links = p.links /\ q.routed = p.routed /\ q.pages = p.pages
  BY <1>0 DEF EditedAs
<1>3. StackInv(config, q) BY <1>2 DEF ProcInv, StackInv
<1>4. MountInv(config, q) BY <1>2 DEF ProcInv, MountInv
<1>5. StageInv(config, q) BY <1>2 DEF ProcInv, StageInv
<1>6. ASSUME q.routed, NEW x \in Models \ q.edited
      PROVE  /\ x \in Models \ p.edited /\ q.reg[x] = p.reg[x]
             /\ x \in Shown(q) <=> x \in Shown(p)
             /\ x \in q.hidden <=> x \in p.hidden
  <2>1. x # m /\ x \in Models \ p.edited BY <1>1, <1>2, <1>6
  <2>2. q.reg[x] = p.reg[x] /\ (x \in q.hidden <=> x \in p.hidden) BY <1>1, <2>1
  <2>. QED BY <2>1, <2>2, InShown
<1>7. PagesInv(config, q)
  <2>1. q.hidden \subseteq Skipped /\ (q.pc = "serving" => q.routed)
    BY <1>1, <1>2 DEF ProcInv, PagesInv
  <2>2. ASSUME q.routed, NEW x \in Models \ q.edited
        PROVE  /\ q.pages[x] = IF x \in Shown(q) THEN q.reg[x] ELSE "none"
               /\ x \in q.links <=> x \in Shown(q)
               /\ q.reg[x] # "none" /\ x \in Skipped => x \in q.hidden
               /\ q.reg[x] = "none" => x \notin KitModels /\ ~config.discover
    BY <1>2, <1>6, <2>2 DEF ProcInv, PagesInv
  <2>. QED BY <2>1, <2>2 DEF PagesInv
<1>. QED BY <1>3, <1>4, <1>5, <1>7 DEF ProcInv, q

LEMMA SidebarInv ==
    ASSUME NEW p \in Procs, ProcInv(config, p)
    PROVE  ProcInv(config, Sidebar(p))
<1>. DEFINE q == Sidebar(p)   s == Shown(p)
<1>1. s \in SUBSET Models BY DEF Shown
<1>2. q = [p EXCEPT !.links = s] BY DEF Sidebar
<1>. HIDE DEF q, s
<1>3. /\ q.links = s /\ q.pc = p.pc /\ q.stage = p.stage /\ q.adapted = p.adapted
      /\ q.seen = p.seen /\ q.flushed = p.flushed /\ q.parts = p.parts
      /\ q.flags = p.flags /\ q.calls = p.calls /\ q.routed = p.routed
      /\ q.pages = p.pages /\ q.reg = p.reg /\ q.hidden = p.hidden /\ q.edited = p.edited
  BY <1>1, <1>2, LinksFields
<1>4. StackInv(config, q) BY <1>3 DEF ProcInv, StackInv
<1>5. MountInv(config, q) BY <1>3 DEF ProcInv, MountInv
<1>6. StageInv(config, q) BY <1>3 DEF ProcInv, StageInv
<1>7. Shown(q) = Shown(p) BY <1>3, ShownSame
<1>8. PagesInv(config, q) BY <1>3, <1>7 DEF ProcInv, PagesInv, s
<1>. QED BY <1>4, <1>5, <1>6, <1>8 DEF ProcInv, q

-----------------------------------------------------------------------------
(* What a process knows of the database.                                      *)

LEMMA DbSame ==
    ASSUME NEW x, NEW t, NEW f, NEW r, NEW p, NEW q, DbInv(x, t, f, r, p),
           q.stage = p.stage, q.pc = p.pc, q.plan = p.plan, q.seen = p.seen,
           q.why = p.why, p.met => q.met
    PROVE  DbInv(x, t, f, r, q)
<1>1. Creates(q) = Creates(p) /\ Metadata(q) = Metadata(p) BY DEF Creates, Metadata
<1>2. MigratedInv(x, t, f, q) BY DEF DbInv, MigratedInv
<1>3. PlanInv(x, t, f, q) BY <1>1 DEF DbInv, PlanInv
<1>4. LoneInv(r, q) BY DEF DbInv, LoneInv
<1>. QED BY <1>2, <1>3, <1>4 DEF DbInv

\* A process with no statement under way.
LEMMA DbAtRest ==
    ASSUME NEW x, NEW t, NEW f, NEW r, NEW p, NEW q, MigratedInv(x, t, f, p),
           q.stage = p.stage, q.pc \notin {"emitting", "inserting"},
           q.why = "database" => q.met
    PROVE  DbInv(x, t, f, r, q)
<1>1. MigratedInv(x, t, f, q) BY DEF MigratedInv
<1>2. PlanInv(x, t, f, q) BY DEF PlanInv
<1>3. LoneInv(r, q) BY DEF LoneInv
<1>. QED BY <1>1, <1>2, <1>3 DEF DbInv

LEMMA DbAtStart ==
    ASSUME NEW x, NEW t, NEW f, NEW r, NEW q, q.stage \in {0, 1},
           q.pc \notin {"emitting", "inserting"}, q.why = "none"
    PROVE  DbInv(x, t, f, r, q)
<1>1. MigratedInv(x, t, f, q) BY DEF MigratedInv
<1>2. PlanInv(x, t, f, q) BY DEF PlanInv
<1>3. LoneInv(r, q) BY DEF LoneInv
<1>. QED BY <1>1, <1>2, <1>3 DEF DbInv

\* The database grows by whole tables and by columns.
LEMMA DbGrows ==
    ASSUME NEW x, NEW t, NEW f, NEW r, NEW t2, NEW f2, NEW p, DbInv(x, t, f, r, p),
           t \subseteq t2, f \subseteq f2, t2 \ t \subseteq f2,
           p.pc = "emitting" => p.met
    PROVE  DbInv(x, t2, f2, r, p)
<1>1. MigratedInv(x, t2, f2, p) BY DEF DbInv, MigratedInv
<1>2. PlanInv(x, t2, f2, p)
  <2>1. SUFFICES ASSUME p.pc = "emitting"
                 PROVE  /\ Creates(p) => /\ p.plan \subseteq Metadata(p) \ x
                                         /\ Metadata(p) \ x \subseteq t2 \cup p.plan
                        /\ ~Creates(p) => /\ p.plan \subseteq Metadata(p) \cap t2
                                          /\ Metadata(p) \cap t2 \subseteq f2 \cup p.plan
    BY DEF PlanInv
  <2>. QED BY <2>1 DEF DbInv, PlanInv
<1>3. LoneInv(r, p) BY DEF DbInv
<1>. QED BY <1>1, <1>2, <1>3 DEF DbInv

\* The committed roles change while the process has none pending, or is not alone.
LEMMA DbRoles ==
    ASSUME NEW x, NEW t, NEW f, NEW r, NEW r2, NEW p, DbInv(x, t, f, r, p),
           p.pc = "inserting" => p.met \/ r2 \cap SeedNames \subseteq r
    PROVE  DbInv(x, t, f, r2, p)
<1>1. LoneInv(r2, p) BY DEF DbInv, LoneInv
<1>. QED BY <1>1 DEF DbInv
-----------------------------------------------------------------------------
(* One process moves.                                                         *)

LEMMA OneMoves ==
    ASSUME ProcsInv, NEW w \in Workers, NEW q \in Procs, proc' = [proc EXCEPT ![w] = q],
           config' = config, ProcInv(config, q),
           q.pc \in Inside => proc[w].pc \in Inside /\ q.met = proc[w].met,
           DbInv(Excluded, tables', full', roles', q),
           \A v \in Workers \ {w} : DbInv(Excluded, tables', full', roles', proc[v])
    PROVE  ProcsInv'
<1>1. proc \in [Workers -> Procs] BY DEF ProcsInv
<1>2. proc' \in [Workers -> Procs] /\ proc'[w] = q BY <1>1
<1>3. \A v \in Workers \ {w} : proc'[v] = proc[v] BY <1>1
<1>4. Excluded' = Excluded BY DEF Excluded
<1>5. \A v \in Workers : ProcInv(config', proc'[v]) BY <1>2, <1>3 DEF ProcsInv
<1>6. \A v \in Workers : DbInv(Excluded', tables', full', roles', proc'[v])
  BY <1>2, <1>3, <1>4
<1>7. ASSUME NEW u \in Workers, NEW v \in Workers, u # v,
             Within(proc'[u]), Within(proc'[v])
      PROVE  proc'[v].met
  <2>1. Within(proc[u]) /\ Within(proc[v]) BY <1>2, <1>3, <1>7 DEF Within
  <2>2. proc[v].met BY <1>7, <2>1 DEF ProcsInv, MetInv
  <2>. QED BY <1>2, <1>3, <1>7, <2>2 DEF Within
<1>8. MetInv' BY <1>7 DEF MetInv
<1>. QED BY <1>2, <1>5, <1>6, <1>8 DEF ProcsInv

LEMMA GoesInv ==
    ASSUME SetupInv, NEW w \in Workers, NEW q \in Procs, Goes(w, q), ProcInv(config, q),
           q.pc \in Inside => proc[w].pc \in Inside /\ q.met = proc[w].met,
           DbInv(Excluded, tables, full, roles, q)
    PROVE  SetupInv'
<1>1. /\ proc' = [proc EXCEPT ![w] = q] /\ config' = config
      /\ tables' = tables /\ full' = full /\ roles' = roles
      /\ edits' = edits /\ crashes' = crashes /\ made' = made /\ dropped' = dropped
  BY DEF Goes, Database, History
<1>2. \A v \in Workers \ {w} : DbInv(Excluded, tables, full, roles, proc[v])
  BY DEF SetupInv, ProcsInv
<1>3. ProcsInv' BY <1>1, <1>2, OneMoves DEF SetupInv
<1>4. DataInv' BY <1>1 DEF SetupInv, DataInv, SeedsComeWhole, Excluded
<1>. QED BY <1>3, <1>4 DEF SetupInv

LEMMA ProcFacts ==
    ASSUME SetupInv, NEW w \in Workers
    PROVE  /\ proc[w] \in Procs /\ ProcInv(config, proc[w])
           /\ DbInv(Excluded, tables, full, roles, proc[w])
           /\ config \in Configs
BY DEF SetupInv, DataInv, ProcsInv

LEMMA ImportStep ==
    ASSUME SetupInv, NEW w \in Workers, Import(w)
    PROVE  SetupInv'
<1>. DEFINE q == [Off EXCEPT !.pc = "built", !.reg = config.reg,
                             !.flags = EarlyStack, !.parts = Once(EarlyStack)]
<1>1. config \in Configs BY ProcFacts
<1>2. q \in Procs /\ q.pc = "built" /\ q.why = "none" /\ q.stage = 0 BY <1>1, ImportFields
<1>3. ProcInv(config, q) BY <1>1, ImportInv
<1>4. Goes(w, q) BY DEF Import
<1>. HIDE DEF q
<1>5. "built" \notin Inside BY DEF Inside
<1>6. DbInv(Excluded, tables, full, roles, q) BY <1>2, DbAtStart
<1>. QED BY <1>2, <1>3, <1>4, <1>5, <1>6, GoesInv

LEMMA FreezeStep ==
    ASSUME SetupInv, NEW w \in Workers, StackFreezes(w)
    PROVE  SetupInv'
<1>. DEFINE p == proc[w]   q == [p EXCEPT !.frozen = TRUE]
<1>1. p \in Procs /\ ProcInv(config, p) /\ DbInv(Excluded, tables, full, roles, p)
  BY ProcFacts
<1>2. Goes(w, q) BY DEF StackFreezes
<1>. HIDE DEF p
<1>3. /\ q \in Procs /\ SameApp(p, q)
      /\ q.pc = p.pc /\ q.stage = p.stage /\ q.adapted = p.adapted /\ q.why = p.why
      /\ q.flushed = p.flushed /\ q.seen = p.seen /\ q.plan = p.plan /\ q.met = p.met
  BY <1>1, FreezeFields DEF SameApp
<1>. HIDE DEF q
<1>4. ProcInv(config, q) BY <1>1, <1>3, SameInv
<1>5. DbInv(Excluded, tables, full, roles, q) BY <1>1, <1>3, DbSame
<1>. QED BY <1>2, <1>3, <1>4, <1>5, GoesInv DEF p

LEMMA CheckStep ==
    ASSUME SetupInv, NEW w \in Workers, Check(w)
    PROVE  SetupInv'
<1>. DEFINE p == proc[w]   m == Missing(p)   q == Checked(p, m)
<1>1. p \in Procs /\ ProcInv(config, p) /\ DbInv(Excluded, tables, full, roles, p)
  BY ProcFacts
<1>2. Goes(w, q) /\ p.pc = "checking" BY DEF Check, Checked
<1>. HIDE DEF p
<1>3. m \in SUBSET Tables BY DEF Missing, Metadata, Tables
<1>. HIDE DEF m
<1>4. /\ q \in Procs /\ SameApp(p, q) /\ q.pc = "emitting" /\ q.plan = m
      /\ q.stage = p.stage /\ q.adapted = p.adapted /\ q.why = p.why
      /\ q.flushed = p.flushed /\ q.seen = p.seen /\ q.met = p.met
  BY <1>1, <1>3, CheckedFields DEF SameApp
<1>. HIDE DEF q
<1>5. "checking" \in Inside /\ "emitting" \in Inside BY DEF Inside
<1>6. StageInv(config, q) BY <1>1, <1>2, <1>4, <1>5 DEF ProcInv, StageInv
<1>7. ProcInv(config, q) BY <1>1, <1>2, <1>4, <1>5, <1>6, InsideInv
<1>8. DbInv(Excluded, tables, full, roles, q)
  <2>1. Creates(q) = Creates(p) /\ Metadata(q) = Metadata(p) BY <1>4 DEF Creates, Metadata
  <2>2. MigratedInv(Excluded, tables, full, q) BY <1>1, <1>4 DEF DbInv, MigratedInv
  <2>3. PlanInv(Excluded, tables, full, q) BY <1>4, <2>1 DEF PlanInv, Missing, m
  <2>4. LoneInv(roles, q) BY <1>1, <1>4 DEF DbInv, LoneInv
  <2>. QED BY <2>2, <2>3, <2>4 DEF DbInv
<1>. QED BY <1>2, <1>4, <1>5, <1>7, <1>8, GoesInv DEF p

\* A failure in the database is that of a process that met another.
LEMMA FailStep ==
    ASSUME SetupInv, NEW w \in Workers, NEW why \in Outcomes, proc[w].pc \in Inside,
           Goes(w, Failed(proc[w], why)), why = "database" => proc[w].met
    PROVE  SetupInv'
<1>. DEFINE p == proc[w]   q == Failed(p, why)
<1>1. p \in Procs /\ ProcInv(config, p) /\ DbInv(Excluded, tables, full, roles, p)
  BY ProcFacts
<1>. HIDE DEF p
<1>2. /\ q \in Procs /\ q.pc = "failed" /\ q.why = why /\ q.stage = p.stage /\ q.met = p.met
  BY <1>1, FailedFields
<1>3. ProcInv(config, q) BY <1>1, FailedInv DEF p
<1>. HIDE DEF q
<1>4. "failed" \notin Inside BY DEF Inside
<1>5. DbInv(Excluded, tables, full, roles, q)
  BY <1>1, <1>2, DbAtRest DEF DbInv, p
<1>. QED BY <1>2, <1>3, <1>4, <1>5, GoesInv DEF p, q

LEMMA EmitFailsStep ==
    ASSUME SetupInv, NEW w \in Workers, EmitFails(w)
    PROVE  SetupInv'
<1>1. proc[w].pc = "emitting" /\ Collides(proc[w]) /\ Goes(w, Failed(proc[w], "database"))
  BY DEF EmitFails
<1>2. proc[w].met
  <2>1. PlanInv(Excluded, tables, full, proc[w]) BY ProcFacts DEF DbInv
  <2>. QED BY <1>1, <2>1 DEF PlanInv, Collides
<1>3. "emitting" \in Inside /\ "database" \in Outcomes BY DEF Inside, Outcomes
<1>. QED BY <1>1, <1>2, <1>3, FailStep

LEMMA NoRoleTableStep ==
    ASSUME SetupInv, NEW w \in Workers, NoRoleTable(w)
    PROVE  SetupInv'
<1>1. proc[w].pc = "seeding" /\ Goes(w, Failed(proc[w], "schema")) BY DEF NoRoleTable
<1>2. "seeding" \in Inside /\ "schema" \in Outcomes BY DEF Inside, Outcomes
<1>. QED BY <1>1, <1>2, FailStep

LEMMA EmitStep ==
    ASSUME SetupInv, NEW w \in Workers, Emit(w)
    PROVE  SetupInv'
<1>. DEFINE p == proc[w]   q == Emitted(p)   x == Excluded
<1>1. /\ p \in Procs /\ ProcInv(config, p) /\ DbInv(x, tables, full, roles, p)
      /\ config \in Configs
  BY ProcFacts
<1>2. /\ p.pc = "emitting" /\ ~Collides(p)
      /\ tables' = (IF Creates(p) THEN tables \cup p.plan ELSE tables)
      /\ full' = full \cup p.plan /\ proc' = [proc EXCEPT ![w] = q]
      /\ config' = config /\ roles' = roles
      /\ edits' = edits /\ crashes' = crashes /\ made' = made /\ dropped' = dropped
  BY DEF Emit, History
<1>3. MetInv /\ proc \in [Workers -> Procs] BY DEF SetupInv, ProcsInv
<1>4. \A v \in Workers : DbInv(x, tables, full, roles, proc[v])
  BY DEF SetupInv, ProcsInv
<1>. HIDE DEF x
<1>5. \A v \in Workers \ {w} : proc[v].pc = "emitting" => proc[v].met
  <2>1. "emitting" \in Inside BY DEF Inside
  <2>. QED BY <1>2, <1>3, <2>1 DEF MetInv, Within
<1>. HIDE DEF p
<1>6. /\ Creates(p) => /\ p.plan \subseteq Metadata(p) \ x
                       /\ Metadata(p) \ x \subseteq tables \cup p.plan
                       /\ p.plan \cap tables = {}
      /\ ~Creates(p) => /\ p.plan \subseteq Metadata(p) \cap tables
                        /\ Metadata(p) \cap tables \subseteq full \cup p.plan
  BY <1>1, <1>2 DEF DbInv, PlanInv, Collides
<1>7. tables \subseteq tables' /\ full \subseteq full' /\ tables' \ tables \subseteq full'
  BY <1>2
<1>8. \A v \in Workers \ {w} : DbInv(x, tables', full', roles', proc[v])
  <2>. TAKE v \in Workers \ {w}
  <2>. DEFINE z == proc[v]
  <2>1. DbInv(x, tables, full, roles, z) /\ (z.pc = "emitting" => z.met) BY <1>4, <1>5
  <2>. HIDE DEF z
  <2>2. DbInv(x, tables', full', roles, z) BY <1>7, <2>1, DbGrows
  <2>. QED BY <1>2, <2>2 DEF z
<1>9. /\ q \in Procs /\ SameApp(p, q)
      /\ q.pc = IF p.stage = 4 THEN "seeding" ELSE "checking"
      /\ q.stage = p.stage + 1 /\ q.plan = {} /\ q.why = p.why /\ q.seen = p.seen
      /\ q.flushed = p.flushed /\ q.met = p.met /\ q.adapted = p.adapted
  BY <1>1, EmittedFields DEF SameApp
<1>. HIDE DEF q
<1>10. q.pc \in Inside /\ p.pc \in Inside BY <1>2, <1>9 DEF Inside
<1>11. p.stage \in 1 .. 4 /\ config.ddl = "auto"
  BY <1>1, <1>2 DEF ProcInv, StageInv
<1>12. StageInv(config, q)
  BY <1>1, <1>2, <1>9, <1>10, <1>11 DEF ProcInv, StageInv
<1>13. ProcInv(config, q) BY <1>1, <1>9, <1>10, <1>12, InsideInv
<1>14. MigratedInv(x, tables', full', q)
  <2>1. MigratedInv(x, tables, full, p) BY <1>1 DEF DbInv
  <2>2. CASE p.stage = 1
    <3>1. Creates(p) /\ Metadata(p) = KitTables /\ q.stage = 2
      BY <1>9, <2>2 DEF Creates, Metadata
    <3>. QED BY <1>2, <1>6, <3>1 DEF MigratedInv
  <2>3. CASE p.stage = 2
    <3>1. Creates(p) /\ Metadata(p) = ProjectTables /\ q.stage = 3
      BY <1>9, <2>3 DEF Creates, Metadata
    <3>2. KitTables \ x \subseteq tables BY <2>1, <2>3 DEF MigratedInv
    <3>. QED BY <1>2, <1>6, <3>1, <3>2 DEF MigratedInv
  <2>4. CASE p.stage = 3
    <3>1. ~Creates(p) /\ Metadata(p) = KitTables /\ q.stage = 4
      BY <1>9, <2>4 DEF Creates, Metadata
    <3>2. KitTables \ x \subseteq tables /\ ProjectTables \ x \subseteq tables
      BY <2>1, <2>4 DEF MigratedInv
    <3>3. tables' = tables /\ full' = full \cup p.plan BY <1>2, <3>1
    <3>4. KitTables \cap tables \subseteq full' BY <1>6, <3>1, <3>3
    <3>. QED BY <3>1, <3>2, <3>3, <3>4 DEF MigratedInv
  <2>5. CASE p.stage = 4
    <3>1. ~Creates(p) /\ Metadata(p) = ProjectTables /\ q.stage = 5
      BY <1>9, <2>5 DEF Creates, Metadata
    <3>2. /\ KitTables \ x \subseteq tables /\ ProjectTables \ x \subseteq tables
          /\ KitTables \cap tables \subseteq full
      BY <2>1, <2>5 DEF MigratedInv
    <3>3. tables' = tables /\ full' = full \cup p.plan BY <1>2, <3>1
    <3>4. ProjectTables \cap tables \subseteq full' BY <1>6, <3>1, <3>3
    <3>. QED BY <3>1, <3>2, <3>3, <3>4 DEF MigratedInv
  <2>6. p.stage = 1 \/ p.stage = 2 \/ p.stage = 3 \/ p.stage = 4 BY <1>11
  <2>. QED BY <2>2, <2>3, <2>4, <2>5, <2>6
<1>15. DbInv(x, tables', full', roles', q)
  <2>1. PlanInv(x, tables', full', q) /\ q.pc # "inserting" BY <1>9 DEF PlanInv
  <2>2. q.why = "database" => q.met BY <1>1, <1>9 DEF DbInv, LoneInv
  <2>. QED BY <1>14, <2>1, <2>2 DEF DbInv, LoneInv
<1>16. ProcsInv'
  <2>1. ProcsInv BY DEF SetupInv
  <2>2. q.pc \in Inside => proc[w].pc \in Inside /\ q.met = proc[w].met
    BY <1>9, <1>10 DEF p
  <2>. QED BY <1>2, <1>8, <1>9, <1>13, <1>15, <2>1, <2>2, OneMoves DEF x
<1>17. DataInv'
  <2>1. p.plan \subseteq Tables BY <1>1 DEF Procs
  <2>2. full' \subseteq tables' /\ tables' \subseteq Tables
    BY <1>2, <1>6, <2>1 DEF SetupInv, DataInv
  <2>3. Excluded' = x BY <1>2 DEF Excluded, x
  <2>4. tables' \cap x \subseteq config.tables
    BY <1>2, <1>6 DEF SetupInv, DataInv, x
  <2>. QED BY <1>2, <2>2, <2>3, <2>4 DEF SetupInv, DataInv, SeedsComeWhole
<1>. QED BY <1>16, <1>17 DEF SetupInv

LEMMA ReadsStep ==
    ASSUME SetupInv, NEW w \in Workers, Reads(w)
    PROVE  SetupInv'
<1>. DEFINE p == proc[w]
<1>1. p \in Procs /\ ProcInv(config, p) /\ DbInv(Excluded, tables, full, roles, p)
      /\ config \in Configs
  BY ProcFacts
<1>2. p.pc = "seeding" BY DEF Reads
<1>3. {"seeding", "wiring", "inserting"} \subseteq Inside BY DEF Inside
<1>4. roles \in SUBSET Roles BY DEF SetupInv, DataInv
<1>5. CASE roles # {} /\ ~config.overwrite
  <2>. DEFINE q == [p EXCEPT !.pc = "wiring"]
  <2>1. Goes(w, q) BY <1>5 DEF Reads
  <2>. HIDE DEF p
  <2>2. /\ q \in Procs /\ SameApp(p, q) /\ q.pc = "wiring" /\ q.stage = p.stage
        /\ q.adapted = p.adapted /\ q.why = p.why /\ q.flushed = p.flushed
        /\ q.seen = p.seen /\ q.met = p.met
    BY <1>1, <1>3, ServingFields DEF SameApp
  <2>. HIDE DEF q
  <2>3. StageInv(config, q) BY <1>1, <1>2, <1>3, <2>2 DEF ProcInv, StageInv
  <2>4. ProcInv(config, q) BY <1>1, <1>2, <1>3, <2>2, <2>3, InsideInv
  <2>5. q.why = "database" => q.met BY <1>1, <2>2 DEF DbInv, LoneInv
  <2>6. DbInv(Excluded, tables, full, roles, q) BY <1>1, <2>2, <2>5, DbAtRest DEF DbInv
  <2>. QED BY <1>2, <1>3, <2>1, <2>2, <2>4, <2>6, GoesInv DEF p
<1>6. CASE ~(roles # {} /\ ~config.overwrite)
  <2>. DEFINE s == IF config.overwrite THEN roles ELSE {}
              q == Seeding(p, "inserting", s, 0)
  <2>1. Goes(w, q) BY <1>6 DEF Reads, Seeding
  <2>2. s \in SUBSET Roles BY <1>4
  <2>. HIDE DEF p, s
  <2>3. /\ q \in Procs /\ SameApp(p, q) /\ q.pc = "inserting" /\ q.stage = p.stage
        /\ q.adapted = p.adapted /\ q.why = p.why /\ q.flushed = 0
        /\ q.seen = s /\ q.met = p.met
    BY <1>1, <1>3, <2>2, SeedingFields DEF SameApp
  <2>. HIDE DEF q
  <2>4. StageInv(config, q)
    BY <1>1, <1>2, <1>3, <2>3, SeedsLength DEF ProcInv, StageInv, s
  <2>5. ProcInv(config, q) BY <1>1, <1>2, <1>3, <2>3, <2>4, InsideInv
  <2>6. q.why = "database" => q.met BY <1>1, <2>3 DEF DbInv, LoneInv
  <2>7. roles \cap SeedNames \subseteq q.seen BY <1>6, <2>3 DEF s
  <2>8. DbInv(Excluded, tables, full, roles, q)
    <3>1. MigratedInv(Excluded, tables, full, q) BY <1>1, <2>3 DEF DbInv, MigratedInv
    <3>2. PlanInv(Excluded, tables, full, q) BY <2>3 DEF PlanInv
    <3>3. LoneInv(roles, q) BY <2>6, <2>7 DEF LoneInv
    <3>. QED BY <3>1, <3>2, <3>3 DEF DbInv
  <2>. QED BY <1>2, <1>3, <2>1, <2>3, <2>5, <2>8, GoesInv DEF p
<1>. QED BY <1>5, <1>6

LEMMA FlushedFields ==
    ASSUME NEW p \in Procs
    PROVE  LET q == [p EXCEPT !.flushed = @ + 1] IN
           /\ q \in Procs
           /\ q.flushed = p.flushed + 1 /\ q.pc = p.pc /\ q.seen = p.seen
           /\ q.plan = p.plan /\ q.why = p.why /\ q.calls = p.calls
           /\ q.met = p.met /\ q.parts = p.parts /\ q.flags = p.flags
           /\ q.adapted = p.adapted /\ q.stage = p.stage /\ q.reg = p.reg
           /\ q.hidden = p.hidden /\ q.links = p.links /\ q.routed = p.routed
           /\ q.pages = p.pages /\ q.edited = p.edited /\ q.jinja = p.jinja
<1>. DEFINE n == p.flushed + 1
<1>1. n \in Nat BY DEF Procs
<1>. HIDE DEF n
<1>2. LET q == [p EXCEPT !.flushed = n] IN
      /\ q \in Procs
      /\ q.flushed = n /\ q.pc = p.pc /\ q.seen = p.seen /\ q.plan = p.plan
      /\ q.why = p.why /\ q.calls = p.calls /\ q.met = p.met
      /\ q.parts = p.parts /\ q.flags = p.flags /\ q.adapted = p.adapted
      /\ q.stage = p.stage /\ q.reg = p.reg /\ q.hidden = p.hidden
      /\ q.links = p.links /\ q.routed = p.routed /\ q.pages = p.pages
      /\ q.edited = p.edited /\ q.jinja = p.jinja
  BY <1>1 DEF Procs
<1>. QED BY <1>2 DEF n

LEMMA FlushStep ==
    ASSUME SetupInv, NEW w \in Workers, Flush(w)
    PROVE  SetupInv'
<1>. DEFINE p == proc[w]   name == Seeds[p.flushed + 1]
<1>1. p \in Procs /\ ProcInv(config, p) /\ DbInv(Excluded, tables, full, roles, p)
      /\ config \in Configs
  BY ProcFacts
<1>2. /\ p.pc = "inserting" /\ p.flushed < Len(Seeds)
      /\ config' = config /\ tables' = tables /\ full' = full
      /\ edits' = edits /\ crashes' = crashes /\ made' = made /\ dropped' = dropped
  BY DEF Flush, History
<1>3. "inserting" \in Inside /\ "database" \in Outcomes BY DEF Inside, Outcomes
<1>4. name \in SeedNames
  <2>1. p.flushed + 1 \in 1 .. Len(Seeds)
    BY <1>1, <1>2, SeedsLength DEF Procs
  <2>. QED BY <2>1 DEF SeedNames
<1>5. CASE name \in roles \ p.seen
  <2>1. Goes(w, Failed(p, "database"))
    BY <1>2, <1>5 DEF Flush, Goes, Database, History
  <2>2. p.met BY <1>1, <1>2, <1>4, <1>5 DEF DbInv, LoneInv
  <2>. QED BY <1>2, <1>3, <2>1, <2>2, FailStep
<1>6. CASE name \notin roles \ p.seen
  <2>. DEFINE q == [p EXCEPT !.flushed = @ + 1]
  <2>1. Goes(w, q)
    BY <1>2, <1>6 DEF Flush, Flushed, Goes, Database, History
  <2>. HIDE DEF p
  <2>2. /\ q \in Procs /\ SameApp(p, q) /\ q.pc = p.pc /\ q.stage = p.stage
        /\ q.adapted = p.adapted /\ q.why = p.why /\ q.flushed = p.flushed + 1
        /\ q.seen = p.seen /\ q.met = p.met /\ q.plan = p.plan
    BY <1>1, FlushedFields DEF SameApp
  <2>. HIDE DEF q
  <2>3. q.flushed <= Len(Seeds) BY <1>1, <1>2, <2>2, SeedsLength DEF Procs
  <2>4. StageInv(config, q) BY <1>1, <1>2, <2>2, <2>3 DEF ProcInv, StageInv
  <2>5. ProcInv(config, q) BY <1>1, <1>2, <1>3, <2>2, <2>4, InsideInv
  <2>6. DbInv(Excluded, tables, full, roles, q) BY <1>1, <2>2, DbSame
  <2>. QED BY <1>2, <1>3, <2>1, <2>2, <2>5, <2>6, GoesInv DEF p
<1>. QED BY <1>5, <1>6

LEMMA SeedCommitStep ==
    ASSUME SetupInv, NEW w \in Workers, SeedCommit(w)
    PROVE  SetupInv'
<1>. DEFINE p == proc[w]   q == Seeding(p, "wiring", {}, 0)
<1>1. /\ p \in Procs /\ ProcInv(config, p) /\ DbInv(Excluded, tables, full, roles, p)
      /\ config \in Configs
  BY ProcFacts
<1>2. /\ p.pc = "inserting" /\ proc' = [proc EXCEPT ![w] = q]
      /\ roles' = (roles \ p.seen) \cup SeedNames
      /\ config' = config /\ tables' = tables /\ full' = full
      /\ edits' = edits /\ crashes' = crashes /\ made' = made /\ dropped' = dropped
  BY DEF SeedCommit, Seeding, History
<1>3. {"inserting", "wiring"} \subseteq Inside BY DEF Inside
<1>4. \A v \in Workers \ {w} : DbInv(Excluded, tables', full', roles', proc[v])
  <2>. TAKE v \in Workers \ {w}
  <2>. DEFINE z == proc[v]
  <2>1. DbInv(Excluded, tables, full, roles, z) BY ProcFacts
  <2>2. z.pc = "inserting" => z.met
    BY <1>2, <1>3 DEF SetupInv, ProcsInv, MetInv, Within
  <2>. HIDE DEF z
  <2>3. DbInv(Excluded, tables, full, roles', z) BY <2>1, <2>2, DbRoles
  <2>. QED BY <1>2, <2>3 DEF z
<1>. HIDE DEF p
<1>5. /\ q \in Procs /\ SameApp(p, q) /\ q.pc = "wiring" /\ q.stage = p.stage
      /\ q.adapted = p.adapted /\ q.why = p.why /\ q.flushed = 0
      /\ q.seen = {} /\ q.met = p.met
  BY <1>1, <1>3, SeedingFields DEF SameApp
<1>. HIDE DEF q
<1>6. StageInv(config, q)
  BY <1>1, <1>2, <1>3, <1>5, SeedsLength DEF ProcInv, StageInv
<1>7. ProcInv(config, q) BY <1>1, <1>2, <1>3, <1>5, <1>6, InsideInv
<1>8. q.why = "database" => q.met BY <1>1, <1>5 DEF DbInv, LoneInv
<1>9. DbInv(Excluded, tables, full, roles', q) BY <1>1, <1>5, <1>8, DbAtRest DEF DbInv
<1>10. ProcsInv'
  <2>1. ProcsInv BY DEF SetupInv
  <2>2. q.pc \in Inside => proc[w].pc \in Inside /\ q.met = proc[w].met
    BY <1>2, <1>3, <1>5 DEF p
  <2>. QED BY <1>2, <1>4, <1>5, <1>7, <1>9, <2>1, <2>2, OneMoves
<1>11. DataInv'
  <2>1. ~config.overwrite => p.seen = {} BY <1>1 DEF ProcInv, StageInv
  <2>2. SeedsComeWhole' BY <1>2, <2>1 DEF SetupInv, DataInv, SeedsComeWhole
  <2>3. roles' \subseteq Roles BY <1>2 DEF SetupInv, DataInv, Roles
  <2>4. Excluded' = Excluded BY <1>2 DEF Excluded
  <2>. QED BY <1>2, <2>2, <2>3, <2>4 DEF SetupInv, DataInv
<1>. QED BY <1>10, <1>11 DEF SetupInv

LEMMA WireStep ==
    ASSUME SetupInv, NEW w \in Workers, Wire(w)
    PROVE  SetupInv'
<1>. DEFINE p == proc[w]
<1>1. p \in Procs /\ ProcInv(config, p) /\ DbInv(Excluded, tables, full, roles, p)
      /\ config \in Configs
  BY ProcFacts
<1>2. p.pc = "wiring" BY DEF Wire
<1>3. "wiring" \in Inside /\ "serving" \notin Inside /\ "failed" \notin Inside BY DEF Inside
<1>4. MigratedInv(Excluded, tables, full, p) /\ (p.why = "database" => p.met)
  BY <1>1 DEF DbInv, LoneInv
<1>5. CASE config.tags /\ Untagged(Wired(p)) # {}
  <2>. DEFINE z == Wired(p)   q == Failed(z, "tags")
  <2>1. Goes(w, q) BY <1>5 DEF Wire
  <2>2. z \in Procs /\ z.stage = p.stage BY <1>1, WiredFields
  <2>3. ProcInv(config, q) BY <1>1, <1>2, UntaggedInv
  <2>. HIDE DEF z
  <2>4. q \in Procs /\ q.pc = "failed" /\ q.why = "tags" /\ q.stage = p.stage
    BY <2>2, FailedFields DEF Outcomes
  <2>. HIDE DEF q
  <2>5. DbInv(Excluded, tables, full, roles, q) BY <1>4, <2>4, DbAtRest
  <2>. QED BY <1>3, <2>1, <2>3, <2>4, <2>5, GoesInv
<1>6. CASE ~(config.tags /\ Untagged(Wired(p)) # {})
  <2>. DEFINE q == [Ready(Wired(p)) EXCEPT !.pc = "serving"]
  <2>1. Goes(w, q) BY <1>6 DEF Wire
  <2>2. /\ q \in Procs /\ ProcInv(config, q)
        /\ q.pc = "serving" /\ q.stage = p.stage /\ q.why = p.why
    BY <1>1, <1>2, ServingInv
  <2>3. q.met = p.met
    <3>1. Wired(p) \in Procs /\ Wired(p).met = p.met BY <1>1, WiredFields
    <3>. DEFINE a == Wired(p)   b == Ready(a)
    <3>. HIDE DEF a
    <3>2. b \in Procs /\ b.met = a.met BY <3>1, ReadyFields DEF a
    <3>. HIDE DEF b
    <3>3. [b EXCEPT !.pc = "serving"].met = b.met BY <3>2, ServingFields
    <3>. QED BY <3>1, <3>2, <3>3 DEF a, b
  <2>. HIDE DEF q
  <2>4. DbInv(Excluded, tables, full, roles, q) BY <1>4, <2>2, <2>3, DbAtRest
  <2>. QED BY <1>3, <2>1, <2>2, <2>4, GoesInv
<1>. QED BY <1>5, <1>6

\* A registration changes a process that is not starting.
LEMMA EditStep ==
    ASSUME SetupInv, NEW w \in Workers, NEW q \in Procs, Edit(w, q), ProcInv(config, q),
           proc[w].pc \in Idle, q.pc = proc[w].pc, q.stage = proc[w].stage,
           q.why = proc[w].why, q.met = proc[w].met
    PROVE  SetupInv'
<1>1. /\ proc' = [proc EXCEPT ![w] = q] /\ edits < MaxEdits /\ edits' = edits + 1
      /\ config' = config /\ tables' = tables /\ full' = full /\ roles' = roles
      /\ crashes' = crashes /\ made' = made /\ dropped' = dropped
  BY DEF Edit, Database
<1>2. q.pc \notin Inside /\ q.pc \notin {"emitting", "inserting"} BY DEF Idle, Inside
<1>3. DbInv(Excluded, tables, full, roles, proc[w]) BY ProcFacts
<1>4. DbInv(Excluded, tables, full, roles, q)
  BY <1>2, <1>3, DbAtRest DEF DbInv, LoneInv
<1>5. \A v \in Workers \ {w} : DbInv(Excluded, tables, full, roles, proc[v])
  BY DEF SetupInv, ProcsInv
<1>6. ProcsInv' BY <1>1, <1>2, <1>4, <1>5, OneMoves DEF SetupInv
<1>7. edits' \in 0 .. MaxEdits BY <1>1, SetupAssumption DEF SetupInv, DataInv
<1>8. DataInv' BY <1>1, <1>7 DEF SetupInv, DataInv, SeedsComeWhole, Excluded
<1>. QED BY <1>6, <1>8 DEF SetupInv

LEMMA EditedStill ==
    ASSUME NEW p \in Procs, NEW m \in Models, NEW admin \in Objects
    PROVE  LET q == Edited(p, m, admin) IN
           /\ q \in Procs /\ q.pc = p.pc /\ q.stage = p.stage /\ q.why = p.why
           /\ q.met = p.met
<1>1. EditedAs(p, m, Edited(p, m, admin)) BY EditedRegistry
<1>. QED BY <1>1 DEF EditedAs

LEMMA RegisterStep ==
    ASSUME SetupInv, NEW w \in Workers, NEW m \in Models,
           NEW admin \in {"plain", "own"}, Register(w, m, admin)
    PROVE  SetupInv'
<1>. DEFINE p == proc[w]   q == Edited(p, m, admin)
<1>1. p \in Procs /\ ProcInv(config, p) /\ admin \in Objects
  BY ProcFacts DEF Objects, ModelAdmins
<1>2. p.pc \in Idle /\ Edit(w, IF q.jinja /\ q.links # {} THEN Sidebar(q) ELSE q)
  BY DEF Register
<1>3. ProcInv(config, q) BY <1>1, EditedInv
<1>4. /\ q \in Procs /\ q.pc = p.pc /\ q.stage = p.stage /\ q.why = p.why /\ q.met = p.met
  BY <1>1, EditedStill
<1>. HIDE DEF q
<1>5. CASE q.jinja /\ q.links # {}
  <2>. DEFINE z == Sidebar(q)
  <2>1. Edit(w, z) BY <1>2, <1>5
  <2>2. ProcInv(config, z) BY <1>3, <1>4, SidebarInv
  <2>3. /\ z \in Procs /\ z.pc = q.pc /\ z.stage = q.stage /\ z.why = q.why /\ z.met = q.met
    <3>1. Shown(q) \in SUBSET Models BY DEF Shown
    <3>. QED BY <1>4, <3>1, LinksFields DEF Sidebar
  <2>. HIDE DEF z
  <2>. QED BY <1>2, <1>4, <2>1, <2>2, <2>3, EditStep
<1>6. CASE ~(q.jinja /\ q.links # {})
  <2>1. Edit(w, q) BY <1>2, <1>6
  <2>. QED BY <1>2, <1>3, <1>4, <2>1, EditStep
<1>. QED BY <1>5, <1>6

LEMMA UnregisterStep ==
    ASSUME SetupInv, NEW w \in Workers, NEW m \in Models, Unregister(w, m)
    PROVE  SetupInv'
<1>. DEFINE p == proc[w]   q == Edited(p, m, "none")
<1>1. p \in Procs /\ ProcInv(config, p) /\ "none" \in Objects BY ProcFacts DEF Objects
<1>2. p.pc \in Idle /\ Edit(w, q) BY DEF Unregister
<1>3. ProcInv(config, q) BY <1>1, EditedInv
<1>4. /\ q \in Procs /\ q.pc = p.pc /\ q.stage = p.stage /\ q.why = p.why /\ q.met = p.met
  BY <1>1, EditedStill
<1>. HIDE DEF q
<1>. QED BY <1>2, <1>3, <1>4, EditStep

LEMMA CrashStep ==
    ASSUME SetupInv, NEW w \in Workers, Crash(w)
    PROVE  SetupInv'
<1>1. /\ proc' = [proc EXCEPT ![w] = Off] /\ crashes < MaxCrashes /\ crashes' = crashes + 1
      /\ config' = config /\ tables' = tables /\ full' = full /\ roles' = roles
      /\ edits' = edits /\ made' = made /\ dropped' = dropped
  BY DEF Crash, Database
<1>2. Off \in Procs /\ Off.pc = "off" /\ Off.stage = 0 /\ Off.why = "none" BY OffFields
<1>3. "off" \notin Inside BY DEF Inside
<1>4. ProcInv(config, Off) BY OffInv DEF SetupInv, DataInv
<1>5. DbInv(Excluded, tables, full, roles, Off) BY <1>2, DbAtStart
<1>6. \A v \in Workers \ {w} : DbInv(Excluded, tables, full, roles, proc[v])
  BY DEF SetupInv, ProcsInv
<1>7. ProcsInv' BY <1>1, <1>2, <1>3, <1>4, <1>5, <1>6, OneMoves DEF SetupInv
<1>8. crashes' \in 0 .. MaxCrashes BY <1>1, SetupAssumption DEF SetupInv, DataInv
<1>9. DataInv' BY <1>1, <1>8 DEF SetupInv, DataInv, SeedsComeWhole, Excluded
<1>. QED BY <1>7, <1>9 DEF SetupInv

\* An administrator's change of the roles.
LEMMA RolesStep ==
    ASSUME SetupInv, config' = config, tables' = tables, full' = full, proc' = proc,
           roles' \cap SeedNames \subseteq roles
    PROVE  ProcsInv'
<1>1. Excluded' = Excluded BY DEF Excluded
<1>2. \A w \in Workers : DbInv(Excluded', tables', full', roles', proc'[w])
  <2>. TAKE w \in Workers
  <2>1. DbInv(Excluded, tables, full, roles, proc[w]) BY ProcFacts
  <2>2. DbInv(Excluded, tables, full, roles', proc[w]) BY <2>1, DbRoles
  <2>. QED BY <1>1, <2>2
<1>. QED BY <1>2 DEF SetupInv, ProcsInv, MetInv

LEMMA CreateRoleStep == SetupInv /\ CreateRole => SetupInv'
<1>. SUFFICES ASSUME SetupInv, CreateRole PROVE SetupInv' OBVIOUS
<1>1. /\ roles' = roles \cup {OwnRole} /\ made' = TRUE /\ config' = config
      /\ tables' = tables /\ full' = full /\ proc' = proc /\ edits' = edits
      /\ crashes' = crashes /\ dropped' = dropped
  BY DEF CreateRole
<1>2. OwnRole \notin SeedNames BY SetupAssumption
<1>3. ProcsInv' BY <1>1, <1>2, RolesStep
<1>4. DataInv' BY <1>1, <1>2 DEF SetupInv, DataInv, SeedsComeWhole, Excluded, Roles
<1>. QED BY <1>3, <1>4 DEF SetupInv

LEMMA DeleteRoleStep ==
    ASSUME SetupInv, NEW name \in SeedNames, DeleteRole(name)
    PROVE  SetupInv'
<1>1. /\ roles' = roles \ {name} /\ dropped' = dropped \cup {name} /\ config' = config
      /\ edits < MaxEdits /\ edits' = edits + 1
      /\ tables' = tables /\ full' = full /\ proc' = proc
      /\ crashes' = crashes /\ made' = made
  BY DEF DeleteRole
<1>2. OwnRole # name BY SetupAssumption
<1>3. ProcsInv' BY <1>1, RolesStep
<1>4. edits' \in 0 .. MaxEdits BY <1>1, SetupAssumption DEF SetupInv, DataInv
<1>5. DataInv' BY <1>1, <1>2, <1>4 DEF SetupInv, DataInv, SeedsComeWhole, Excluded
<1>. QED BY <1>3, <1>5 DEF SetupInv

LEMMA BeginStep ==
    ASSUME SetupInv, NEW w \in Workers, Begin(w)
    PROVE  SetupInv'
<1>. DEFINE others == {v \in Workers \ {w} : proc[v].pc \in Inside}
            p == proc[w]   met == others # {}
            q == Begun(Adapted(Stacked(p)), met)
<1>1. /\ p \in Procs /\ ProcInv(config, p) /\ config \in Configs BY ProcFacts
<1>2. /\ p.pc \in Idle /\ p.calls < MaxCalls
      /\ proc' = [v \in Workers |-> IF v = w THEN q
                                    ELSE IF v \in others THEN [proc[v] EXCEPT !.met = TRUE]
                                    ELSE proc[v]]
      /\ config' = config /\ tables' = tables /\ full' = full /\ roles' = roles
      /\ edits' = edits /\ crashes' = crashes /\ made' = made /\ dropped' = dropped
  BY DEF Begin, Database, History
<1>3. met \in BOOLEAN OBVIOUS
<1>4. ProcInv(config, q) BY <1>1, <1>2, <1>3, BegunInv
<1>5. /\ q \in Procs /\ q.stage = 1 /\ q.why = "none" /\ q.met = met
      /\ q.pc \in {"checking", "seeding"}
  <2>. DEFINE s == Stacked(p)   a == Adapted(s)
  <2>1. s \in Procs BY <1>1, StackedFields
  <2>. HIDE DEF s
  <2>2. a \in Procs BY <2>1, AdaptedFields
  <2>. HIDE DEF a, met
  <2>3. /\ Begun(a, met) \in Procs /\ Begun(a, met).stage = 1 /\ Begun(a, met).why = "none"
        /\ Begun(a, met).met = met
        /\ Begun(a, met).pc = IF config.ddl = "auto" THEN "checking" ELSE "seeding"
    BY <1>3, <2>2, BegunFields
  <2>. QED BY <2>3 DEF a, s
<1>6. DbInv(Excluded, tables, full, roles, q) BY <1>5, DbAtStart
<1>. HIDE DEF q, met
<1>7. proc'[w] = q BY <1>2
<1>8. ASSUME NEW v \in Workers \ {w}
      PROVE  /\ proc'[v] \in Procs /\ ProcInv(config, proc'[v])
             /\ DbInv(Excluded, tables, full, roles, proc'[v])
             /\ proc'[v].pc = proc[v].pc
             /\ proc'[v].met = (proc[v].met \/ v \in others)
  <2>. DEFINE z == proc[v]   y == [z EXCEPT !.met = TRUE]
  <2>1. z \in Procs /\ ProcInv(config, z) /\ DbInv(Excluded, tables, full, roles, z)
    BY ProcFacts
  <2>2. proc'[v] = IF v \in others THEN y ELSE z BY <1>2
  <2>. HIDE DEF z, others
  <2>3. /\ y \in Procs /\ SameApp(z, y) /\ y.met = TRUE
        /\ y.pc = z.pc /\ y.stage = z.stage /\ y.adapted = z.adapted /\ y.why = z.why
        /\ y.flushed = z.flushed /\ y.seen = z.seen /\ y.plan = z.plan
    BY <2>1, MetFields DEF SameApp
  <2>4. z.met \in BOOLEAN BY <2>1 DEF Procs
  <2>. HIDE DEF y
  <2>5. ProcInv(config, y) BY <2>1, <2>3, SameInv
  <2>6. DbInv(Excluded, tables, full, roles, y) BY <2>1, <2>3, DbSame
  <2>7. CASE v \in others BY <2>2, <2>3, <2>5, <2>6, <2>7 DEF z
  <2>8. CASE v \notin others BY <2>1, <2>2, <2>4, <2>8 DEF z
  <2>. QED BY <2>7, <2>8
<1>9. proc' \in [Workers -> Procs]
  <2>1. \A v \in Workers : proc'[v] \in Procs BY <1>5, <1>7, <1>8
  <2>2. DOMAIN proc' = Workers /\ proc' = [v \in Workers |-> proc'[v]] BY <1>2
  <2>. QED BY <2>1, <2>2
<1>10. \A v \in Workers : /\ ProcInv(config, proc'[v])
                          /\ DbInv(Excluded, tables, full, roles, proc'[v])
  BY <1>4, <1>6, <1>7, <1>8
<1>11. ASSUME NEW u \in Workers, NEW v \in Workers, u # v,
              Within(proc'[u]), Within(proc'[v])
       PROVE  proc'[v].met
  <2>1. CASE v = w
    <3>1. u \in others BY <1>8, <1>11, <2>1 DEF Within
    <3>. QED BY <1>5, <1>7, <2>1, <3>1 DEF met
  <2>2. CASE v # w
    <3>1. v \in others BY <1>8, <1>11, <2>2 DEF Within
    <3>. QED BY <1>8, <2>2, <3>1
  <2>. QED BY <2>1, <2>2
<1>12. Excluded' = Excluded BY <1>2 DEF Excluded
<1>13. ProcsInv'
  <2>1. MetInv' BY <1>11 DEF MetInv
  <2>. QED BY <1>2, <1>9, <1>10, <1>12, <2>1 DEF ProcsInv
<1>14. DataInv' BY <1>2, <1>12 DEF SetupInv, DataInv, SeedsComeWhole
<1>. QED BY <1>13, <1>14 DEF SetupInv
-----------------------------------------------------------------------------
LEMMA SetupInit == Init => SetupInv
<1>. SUFFICES ASSUME Init PROVE SetupInv OBVIOUS
<1>1. /\ config \in Configs /\ tables = config.tables /\ full = config.full
      /\ roles = {} /\ proc = [w \in Workers |-> Off] /\ edits = 0 /\ crashes = 0
      /\ made = FALSE /\ dropped = {}
  BY DEF Init
<1>2. Off \in Procs /\ Off.pc = "off" /\ Off.stage = 0 /\ Off.why = "none" BY OffFields
<1>3. \A w \in Workers : proc[w] = Off BY <1>1
<1>4. ProcInv(config, Off) BY <1>1, OffInv
<1>5. DbInv(Excluded, tables, full, roles, Off) BY <1>2, DbAtStart
<1>6. "off" \notin Inside BY DEF Inside
<1>7. MetInv BY <1>2, <1>3, <1>6 DEF MetInv, Within
<1>8. ProcsInv
  <2>1. proc \in [Workers -> Procs] BY <1>1, <1>2
  <2>. QED BY <1>3, <1>4, <1>5, <1>7, <2>1 DEF ProcsInv
<1>9. /\ full \subseteq tables /\ tables \subseteq Tables BY <1>1, ConfigFields
<1>10. 0 \in 0 .. MaxEdits /\ 0 \in 0 .. MaxCrashes BY SetupAssumption
<1>11. SeedsComeWhole BY <1>1 DEF SeedsComeWhole
<1>12. DataInv BY <1>1, <1>9, <1>10, <1>11 DEF DataInv
<1>. QED BY <1>8, <1>12 DEF SetupInv

LEMMA SetupStep == SetupInv /\ [Next]_vars => SetupInv'
<1>. SUFFICES ASSUME SetupInv, [Next]_vars PROVE SetupInv' OBVIOUS
<1>1. ASSUME NEW w \in Workers,
             Import(w) \/ StackFreezes(w) \/ Begin(w) \/ Check(w) \/ Emit(w) \/ EmitFails(w)
      PROVE  SetupInv'
  BY <1>1, ImportStep, FreezeStep, BeginStep, CheckStep, EmitStep, EmitFailsStep
<1>2. ASSUME NEW w \in Workers,
             Reads(w) \/ NoRoleTable(w) \/ Flush(w) \/ SeedCommit(w) \/ Wire(w) \/ Crash(w)
      PROVE  SetupInv'
  BY <1>2, ReadsStep, NoRoleTableStep, FlushStep, SeedCommitStep, WireStep, CrashStep
<1>3. ASSUME NEW w \in Workers, NEW m \in Models, NEW a \in {"plain", "own"},
             Register(w, m, a)
      PROVE  SetupInv'
  BY <1>3, RegisterStep
<1>4. ASSUME NEW w \in Workers, NEW m \in Models, Unregister(w, m)
      PROVE  SetupInv'
  BY <1>4, UnregisterStep
<1>5. CASE CreateRole BY <1>5, CreateRoleStep
<1>6. ASSUME NEW name \in SeedNames, DeleteRole(name) PROVE SetupInv'
  BY <1>6, DeleteRoleStep
<1>7. CASE UNCHANGED vars
  <2>1. /\ config' = config /\ tables' = tables /\ full' = full /\ roles' = roles
        /\ proc' = proc /\ edits' = edits /\ crashes' = crashes /\ made' = made
        /\ dropped' = dropped
    BY <1>7 DEF vars
  <2>2. Excluded' = Excluded BY <2>1 DEF Excluded
  <2>3. ProcsInv' BY <2>1, <2>2 DEF SetupInv, ProcsInv, MetInv
  <2>4. DataInv' BY <2>1, <2>2 DEF SetupInv, DataInv, SeedsComeWhole
  <2>. QED BY <2>3, <2>4 DEF SetupInv
<1>. QED BY <1>1, <1>2, <1>3, <1>4, <1>5, <1>6, <1>7 DEF Next

LEMMA SetupInvariance == Spec => []SetupInv
BY SetupInit, SetupStep, PTL DEF Spec

LEMMA TypesFollow == SetupInv => TypeOK
<1>. SUFFICES ASSUME SetupInv PROVE TypeOK OBVIOUS
<1>1. ASSUME NEW w \in Workers
      PROVE  /\ proc[w].pc \in {"off"} \cup Idle \cup Inside
             /\ proc[w].why \in {"none", "database", "schema", "tags"}
             /\ proc[w].calls \in 0..MaxCalls
             /\ \A x \in Parts : proc[w].parts[x] \in 0..MaxCalls
             /\ proc[w].flags \subseteq Middlewares \cup {"csrf"}
             /\ proc[w].plan \subseteq Tables
             /\ proc[w].flushed \in 0..Len(Seeds)
             /\ proc[w].hidden \cup proc[w].links \cup proc[w].edited \subseteq Models
  <2>. DEFINE p == proc[w]
  <2>1. p \in Procs /\ ProcInv(config, p) BY ProcFacts
  <2>. HIDE DEF p
  <2>2. /\ p.pc \in {"off"} \cup Idle \cup Inside
        /\ p.why \in {"none", "database", "schema", "tags"} /\ p.calls \in Nat
        /\ p.parts \in [Parts -> Nat] /\ p.flushed \in Nat
        /\ p.flags \subseteq Middlewares \cup {"csrf"} /\ p.plan \subseteq Tables
        /\ p.hidden \cup p.links \cup p.edited \subseteq Models
    BY <2>1 DEF Procs, Outcomes
  <2>3. p.calls \in 0..MaxCalls BY <2>1, <2>2, SetupAssumption DEF ProcInv, MountInv
  <2>4. p.flushed \in 0..Len(Seeds) BY <2>1, <2>2, SeedsLength DEF ProcInv, StageInv
  <2>5. 1 <= MaxCalls BY SetupAssumption
  <2>6. \A x \in Parts : p.parts[x] \in Nat BY <2>2
  <2>7. \A x \in Middlewares : p.parts[x] <= 1 BY <2>1, <2>6 DEF ProcInv, StackInv
  <2>8. p.parts["csrf"] <= MaxCalls
    <3>1. "csrf" \in Parts /\ config.early \in BOOLEAN
      BY ConfigFields DEF Parts, SetupInv, DataInv
    <3>2. p.parts["csrf"] <= 1 \/ p.parts["csrf"] <= p.calls
      BY <2>1, <2>6, <3>1 DEF ProcInv, StackInv
    <3>. QED BY <2>3, <2>5, <2>6, <3>1, <3>2, SetupAssumption
  <2>9. /\ p.parts["notifications"] <= 1 /\ p.parts["ai_nav"] <= 1
        /\ p.parts["listeners"] <= p.calls /\ p.parts["ai"] <= p.parts["listeners"]
    BY <2>1 DEF ProcInv, MountInv
  <2>10. \A x \in Parts : p.parts[x] \in 0..MaxCalls
    <3>. TAKE x \in Parts
    <3>1. x \in Middlewares \/ x \in {"csrf", "notifications", "listeners", "ai_nav", "ai"}
      BY DEF Parts
    <3>2. {"listeners", "ai"} \subseteq Parts BY DEF Parts
    <3>. QED BY <2>3, <2>5, <2>6, <2>7, <2>8, <2>9, <3>1, <3>2, SetupAssumption
  <2>. QED BY <2>2, <2>3, <2>4, <2>10 DEF p
<1>. QED BY <1>1 DEF SetupInv, DataInv, TypeOK, Roles

LEMMA OverlapFollows == SetupInv => FailedStartsNeedOverlap
BY DEF SetupInv, ProcsInv, DbInv, LoneInv, FailedStartsNeedOverlap

LEMMA ReadyFollows == SetupInv => ServingMeansReady
<1>. SUFFICES ASSUME SetupInv PROVE ServingMeansReady OBVIOUS
<1>1. ASSUME NEW w \in Workers, proc[w].pc = "serving"
      PROVE  /\ config.ddl = "auto" => /\ Tables \ Excluded \subseteq full /\ tables = full
                                       /\ config.custom => proc[w].adapted
             /\ MountedOnce(proc[w]) /\ PagesMatchTheRegistry(proc[w])
  <2>. DEFINE p == proc[w]
  <2>1. p \in Procs /\ ProcInv(config, p) /\ DbInv(Excluded, tables, full, roles, p)
    BY ProcFacts
  <2>2. p.pc = "serving" BY <1>1
  <2>. HIDE DEF p
  <2>3. ASSUME config.ddl = "auto"
        PROVE  Tables \ Excluded \subseteq full /\ tables = full
    <3>1. p.stage = 5 BY <2>1, <2>2, <2>3 DEF ProcInv, StageInv
    <3>2. /\ KitTables \ Excluded \subseteq tables /\ ProjectTables \ Excluded \subseteq tables
          /\ KitTables \cap tables \subseteq full /\ ProjectTables \cap tables \subseteq full
      BY <2>1, <3>1 DEF DbInv, MigratedInv
    <3>3. full \subseteq tables /\ tables \subseteq Tables BY DEF SetupInv, DataInv
    <3>. QED BY <3>2, <3>3 DEF Tables
  <2>4. config.ddl = "auto" /\ config.custom => p.adapted
    BY <2>1, <2>2 DEF ProcInv, StageInv
  <2>5. MountedOnce(p)
    <3>1. p.calls \in Nat /\ p.parts["listeners"] \in Nat
      <4>1. p.calls \in Nat /\ p.parts \in [Parts -> Nat] BY <2>1 DEF Procs
      <4>2. "listeners" \in Parts BY DEF Parts
      <4>. QED BY <4>1, <4>2
    <3>2. \A x \in Middlewares : p.parts[x] = 1 BY <2>1, <2>2 DEF ProcInv, StackInv
    <3>3. config.early => p.parts["csrf"] = 1 BY <2>1, <2>2 DEF ProcInv, StackInv
    <3>4. /\ p.parts["notifications"] = 1 /\ p.parts["listeners"] \in 1..p.calls
          /\ p.parts["ai"] <= p.parts["listeners"] /\ (config.ai => p.parts["ai_nav"] = 1)
      BY <2>1, <2>2, <3>1 DEF ProcInv, MountInv
    <3>. QED BY <3>2, <3>3, <3>4 DEF MountedOnce
  <2>6. PagesMatchTheRegistry(p)
    <3>1. ASSUME NEW m \in Models \ p.edited
          PROVE  /\ m \in p.links <=> p.pages[m] # "none"
                 /\ p.pages[m] # "none" => p.pages[m] = p.reg[m] /\ m \notin Skipped
      <4>1. /\ p.pages[m] = IF m \in Shown(p) THEN p.reg[m] ELSE "none"
            /\ m \in p.links <=> m \in Shown(p)
            /\ p.reg[m] # "none" /\ m \in Skipped => m \in p.hidden
        BY <2>1, <2>2, <3>1 DEF ProcInv, PagesInv
      <4>2. m \in Shown(p) <=> p.reg[m] # "none" /\ m \notin p.hidden BY InShown
      <4>. QED BY <4>1, <4>2
    <3>. QED BY <3>1 DEF PagesMatchTheRegistry
  <2>. QED BY <2>3, <2>4, <2>5, <2>6 DEF p
<1>2. tables \cap Excluded \subseteq config.tables BY DEF SetupInv, DataInv
<1>. QED BY <1>1, <1>2 DEF ServingMeansReady, ServingMeansMigrated

\* Starts are whole: types hold, the seed roles come all or not at all, none of
\* an administrator's roles is taken away, and a start that fails in the database
\* met another one (AdminDatabase._create_tables, seed_roles).
THEOREM StartsAreWhole == Spec => []StartsComeWhole
<1>1. SetupInv => SeedsComeWhole BY DEF SetupInv, DataInv
<1>2. SetupInv => StartsComeWhole BY <1>1, TypesFollow, OverlapFollows DEF StartsComeWhole
<1>. QED BY <1>2, SetupInvariance, PTL

\* A process that serves has its tables, its columns, its mapper and every part of
\* the application once, and pages that match its registry (Admin.setup).
THEOREM ServingIsReady == Spec => []ServingMeansReady
BY ReadyFollows, SetupInvariance, PTL

-----------------------------------------------------------------------------
(***************************************************************************)
(* The tables: the invariant.                                              *)
(***************************************************************************)
Own == [to |-> Users, type |-> PkType[Users]]
Snapshots == [junction : [to : AuthModels \cup {Users}, type : Types],
              type : [Logs -> Types], created : SUBSET AuthModels]

TablesTypeInv ==
    /\ auth \in [Admins -> AuthModels \cup {Users}]
    /\ mapped \subseteq Schemas \cup {Users}
    /\ type \in [Schemas -> Types \cup {None}]
    /\ \A s \in mapped \cap Schemas : type[s] \in Types
    /\ shadows \subseteq AuthModels
    /\ adapted \in AuthModels \cup {None}
    /\ cloned \in [Admins -> SUBSET AuthModels]
    /\ DOMAIN plan = Admins /\ DOMAIN emitted = Admins
    /\ touched \subseteq Admins \cup {"reset"} /\ retyped \in BOOLEAN

\* Whoever has turned the metadata last, it is turned in all its parts, and the
\* snapshot knows the way back.
AdaptedInv ==
    /\ snapshot = None <=> adapted = None
    /\ adapted # None =>
         /\ Imported
         /\ junction = [to |-> adapted, type |-> PkType[adapted]]
         /\ \A s \in Logs : type[s] = PkType[adapted]
         /\ snapshot \in Snapshots
         /\ snapshot.junction = Own
         /\ shadows = snapshot.created
         /\ ~retyped => \A s \in Logs : snapshot.type[s] \in {Declared[s], PkType[Users]}

\* What one Admin has chosen and created while no other touched the metadata.
AloneInv ==
    \A a \in Admins : touched \subseteq {a} =>
        /\ adapted = None \/ (Custom(a) /\ adapted = auth[a] /\ auth[a] \in cloned[a])
        /\ plan[a] # None => /\ Imported
                             /\ Custom(a) => adapted = auth[a]
                             /\ auth[a] \in plan[a] <=> ~Custom(a)
                             /\ Custom(a) => Users \notin plan[a]
        /\ emitted[a] # None => Fits(a)

TablesInv ==
    TablesTypeInv /\ AdaptedInv /\ AloneInv /\ RelationsAreTyped /\ ResetsArePristine

LEMMA OwnTyped == Own \in [to : AuthModels \cup {Users}, type : Types]
BY DEF Own, Types

\* What is left when an adaptation is undone.
Pristine(p) ==
    /\ p.junction = Own /\ p.shadows = {} /\ p.roleUsers = Users /\ p.userRoles = TRUE
    /\ p.adapted = None /\ p.snapshot = None

LEMMA ResetIs ==
    ASSUME TablesInv, NEW types \in [Schemas -> Types \cup {None}]
    PROVE  LET p == Reset(StateWith(types))
           IN  /\ Pristine(p)
               /\ p.type \in [Schemas -> Types \cup {None}]
               /\ \A s \in Schemas \ Logs : p.type[s] = types[s]
               /\ \A s \in Logs : p.type[s] = IF snapshot = None THEN types[s]
                                              ELSE snapshot.type[s]
<1> DEFINE m == StateWith(types)
<1>1. /\ m.type = types /\ m.junction = junction /\ m.shadows = shadows
      /\ m.roleUsers = roleUsers /\ m.userRoles = userRoles
      /\ m.adapted = adapted /\ m.snapshot = snapshot
  BY DEF StateWith
<1> HIDE DEF m
<1>2. CASE snapshot = None
  <2>1. Reset(m) = m /\ adapted = None
    BY <1>1, <1>2 DEF Reset, TablesInv, AdaptedInv
  <2>2. junction = Own /\ shadows = {} /\ roleUsers = Users /\ userRoles = TRUE
    BY <2>1 DEF TablesInv, ResetsArePristine, Own
  <2>3. QED
    BY <1>1, <1>2, <2>1, <2>2, TablesAssumption DEF Pristine, m
<1>3. CASE snapshot # None
  <2>1. snapshot \in Snapshots /\ snapshot.junction = Own /\ shadows = snapshot.created
    BY <1>3 DEF TablesInv, AdaptedInv
  <2>2. Reset(m) = [type |-> Undone(m), junction |-> Own, shadows |-> {},
                    roleUsers |-> Users, userRoles |-> TRUE, adapted |-> None,
                    snapshot |-> None]
    BY <1>1, <1>3, <2>1 DEF Reset
  <2>3. DOMAIN snapshot.type = Logs /\ \A s \in Logs : snapshot.type[s] \in Types
    BY <2>1 DEF Snapshots
  <2>4. /\ Undone(m) \in [Schemas -> Types \cup {None}]
        /\ \A s \in Schemas \ Logs : Undone(m)[s] = types[s]
        /\ \A s \in Logs : Undone(m)[s] = snapshot.type[s]
    BY <1>1, <2>3, TablesAssumption DEF Undone
  <2>5. QED
    BY <1>3, <2>2, <2>4 DEF Pristine, m
<1>4. QED
  BY <1>2, <1>3

\* The metadata turned to a table.
Turned(p, table, types) ==
    /\ p.type \in [Schemas -> Types \cup {None}]
    /\ \A s \in Logs : p.type[s] = PkType[table]
    /\ \A s \in Schemas \ Logs : p.type[s] = types[s]
    /\ p.junction = [to |-> table, type |-> PkType[table]]
    /\ p.adapted = table
    /\ p.snapshot \in Snapshots /\ p.snapshot.junction = Own
    /\ p.shadows = p.snapshot.created

LEMMA AdaptIs ==
    ASSUME TablesInv, Imported, NEW types \in [Schemas -> Types \cup {None}],
           NEW table \in AuthModels,
           \A s \in Logs : types[s] \in Types,
           adapted = table => \A s \in Logs : types[s] = PkType[table]
    PROVE  LET p == Adapt(StateWith(types), table)
           IN  /\ Turned(p, table, types)
               /\ adapted = table => p.snapshot = snapshot
               /\ adapted # table => \A s \in Logs :
                     p.snapshot.type[s] = IF snapshot = None THEN types[s]
                                          ELSE snapshot.type[s]
<1> DEFINE m == StateWith(types)
           q == Reset(m)
<1>1. /\ m.type = types /\ m.junction = junction /\ m.shadows = shadows
      /\ m.adapted = adapted /\ m.snapshot = snapshot
  BY DEF StateWith
<1>2. CASE adapted = table
  <2>1. Adapt(m, table) = m
    BY <1>1, <1>2 DEF Adapt
  <2>2. adapted # None
    BY <1>2, TablesAssumption
  <2> HIDE DEF m
  <2>3. QED
    BY <1>1, <1>2, <2>1, <2>2 DEF TablesInv, AdaptedInv, Turned, m
<1>3. CASE adapted # table
  <2>1. /\ Pristine(q) /\ q.type \in [Schemas -> Types \cup {None}]
        /\ \A s \in Schemas \ Logs : q.type[s] = types[s]
        /\ \A s \in Logs : q.type[s] = IF snapshot = None THEN types[s] ELSE snapshot.type[s]
    BY ResetIs
  <2>2. Adapt(m, table) = Turn(q, table)
    BY <1>1, <1>3 DEF Adapt
  <2> HIDE DEF q, m
  <2>3. Logs \subseteq mapped /\ Logs \subseteq Schemas
    BY TablesAssumption DEF Imported
  <2>4. \A s \in Logs : q.type[s] \in Types
    BY <2>1 DEF TablesInv, AdaptedInv, Snapshots
  <2> DEFINE k == Snapshot(q, table)
  <2>5. k = [junction |-> Own, type |-> [s \in Logs |-> q.type[s]],
             created |-> {table} \ (Resident \cup mapped)]
    BY <2>1, <2>3 DEF Snapshot, Pristine
  <2>6. /\ k \in Snapshots /\ k.junction = Own /\ \A s \in Logs : k.type[s] = q.type[s]
    BY <2>4, <2>5, OwnTyped DEF Snapshots
  <2> HIDE DEF k
  <2>7. Turn(q, table) = [type |-> RetypedLogs(q.type, PkType[table]),
                          junction |-> [to |-> table, type |-> PkType[table]],
                          shadows |-> k.created,
                          roleUsers |-> table, userRoles |-> FALSE, adapted |-> table,
                          snapshot |-> k]
    BY <2>1 DEF Turn, Pristine, k
  <2>8. /\ RetypedLogs(q.type, PkType[table]) \in [Schemas -> Types \cup {None}]
        /\ \A s \in Logs : RetypedLogs(q.type, PkType[table])[s] = PkType[table]
        /\ \A s \in Schemas \ Logs : RetypedLogs(q.type, PkType[table])[s] = types[s]
    BY <2>1, <2>3 DEF RetypedLogs, Types
  <2>9. Turned(Turn(q, table), table, types) /\ Turn(q, table).snapshot = k
    BY <2>6, <2>7, <2>8 DEF Turned
  <2>10. QED
    BY <1>3, <2>1, <2>2, <2>6, <2>9 DEF q, m
<1>4. QED
  BY <1>2, <1>3

-----------------------------------------------------------------------------
LEMMA TablesInitInv == TablesInit => TablesInv
<1> SUFFICES ASSUME TablesInit PROVE TablesInv
  OBVIOUS
<1>1. TablesTypeInv /\ AdaptedInv /\ RelationsAreTyped /\ ResetsArePristine
  BY TablesAssumption DEF TablesInit, TablesTypeInv, AdaptedInv, RelationsAreTyped, ResetsArePristine
<1>2. AloneInv
  BY DEF TablesInit, AloneInv
<1>3. QED
  BY <1>1, <1>2 DEF TablesInv

LEMMA MaterializeInv ==
    ASSUME TablesInv, NEW s \in Schemas \cup {Users}, Materialize(s)
    PROVE  TablesInv'
<1>1. /\ s \notin mapped /\ mapped' = mapped \cup {s}
      /\ UNCHANGED <<auth, metadata, cloned, plan, emitted, touched, retyped>>
  BY DEF Materialize
<1>2. /\ type' \in [Schemas -> Types \cup {None}]
      /\ \A t \in Schemas \ {s} : type'[t] = type[t]
      /\ s \in Schemas => type'[s] = TypeOf(s)
  BY TablesAssumption DEF Materialize, TypeOf, Types, TablesInv, TablesTypeInv
<1>3. TypeOf(s) \in {Declared[s], PkType[Users]}
  BY DEF TypeOf
<1>4. s \in Schemas => TypeOf(s) \in Types
  BY <1>3 DEF Types
<1>5. TablesTypeInv'
  BY <1>1, <1>2, <1>4 DEF TablesInv, TablesTypeInv, metadata
<1>6. AdaptedInv'
  <2>1. CASE adapted = None
    BY <1>1, <2>1 DEF TablesInv, AdaptedInv, metadata
  <2>2. CASE adapted # None
    <3>1. s \notin Logs /\ Imported /\ Imported'
      BY <1>1, <2>2 DEF TablesInv, AdaptedInv, Imported
    <3>2. \A t \in Logs : type'[t] = type[t]
      BY <1>2, <3>1, TablesAssumption
    <3>3. QED
      BY <1>1, <3>1, <3>2 DEF TablesInv, AdaptedInv, metadata
  <2>3. QED
    BY <2>1, <2>2
<1>7. AloneInv'
  <2>1. Imported => Imported'
    BY <1>1 DEF Imported
  <2>2. QED
    BY <1>1, <2>1 DEF TablesInv, AloneInv, Fits, Custom, metadata
<1>8. RelationsAreTyped'
  <2> SUFFICES ASSUME NEW t \in (ForeignKeys \ Logs) \cap mapped' PROVE type'[t] = PkType[Users]
    BY DEF RelationsAreTyped
  <2>1. t \in Schemas
    BY TablesAssumption DEF ForeignKeys
  <2>2. CASE t = s
    BY <1>2, <2>1, <2>2 DEF TypeOf
  <2>3. CASE t # s
    BY <1>1, <1>2, <2>1, <2>3 DEF TablesInv, RelationsAreTyped
  <2>4. QED
    BY <2>2, <2>3
<1>9. ResetsArePristine'
  <2> SUFFICES ASSUME adapted' = None PROVE ResetsArePristine'
    BY DEF ResetsArePristine
  <2>1. \A t \in Logs \cap mapped' : ~retyped => type'[t] \in {Declared[t], PkType[Users]}
    BY <1>1, <1>2, <1>3, TablesAssumption DEF TablesInv, ResetsArePristine, metadata
  <2>2. QED
    BY <1>1, <2>1 DEF TablesInv, ResetsArePristine, metadata
<1>10. QED
  BY <1>5, <1>6, <1>7, <1>8, <1>9 DEF TablesInv

\* A step that turns the metadata to the table of a, or leaves it there.
LEMMA TurnInv ==
    ASSUME TablesInv, NEW a \in Admins, Imported, Custom(a),
           NEW types \in [Schemas -> Types \cup {None}],
           \A s \in Logs : types[s] \in Types,
           \A s \in Schemas \ Logs : types[s] = type[s],
           adapted = auth[a] => \A s \in Logs : types[s] = PkType[auth[a]],
           ~retyped' => types = type /\ ~retyped, retyped' \in BOOLEAN,
           Becomes(Adapt(StateWith(types), auth[a])),
           cloned' = Recorded(a), touched' = touched \cup {a},
           UNCHANGED <<auth, mapped, emitted>>, DOMAIN plan' = Admins,
           \A b \in Admins \ {a} : plan'[b] = plan[b]
    PROVE  /\ TablesTypeInv' /\ AdaptedInv' /\ RelationsAreTyped' /\ ResetsArePristine'
           /\ adapted' = auth[a]
           /\ touched' \subseteq {a} => auth[a] \in cloned'[a]
           /\ \A b \in Admins \ {a} : ~(touched' \subseteq {b})
<1> DEFINE p == Adapt(StateWith(types), auth[a])
<1>1. auth[a] \in AuthModels /\ auth[a] # None /\ auth[a] # Users
  BY TablesAssumption DEF TablesInv, TablesTypeInv, Custom
<1>2. /\ Turned(p, auth[a], types)
      /\ adapted = auth[a] => p.snapshot = snapshot
      /\ adapted # auth[a] => \A s \in Logs :
            p.snapshot.type[s] = IF snapshot = None THEN types[s] ELSE snapshot.type[s]
  BY <1>1, AdaptIs
<1>3. /\ type' = p.type /\ junction' = p.junction /\ shadows' = p.shadows
      /\ adapted' = p.adapted /\ snapshot' = p.snapshot
  BY DEF Becomes
<1> HIDE DEF p
<1>4. /\ type' \in [Schemas -> Types \cup {None}]
      /\ \A s \in Logs : type'[s] = PkType[auth[a]]
      /\ \A s \in Schemas \ Logs : type'[s] = type[s]
      /\ junction' = [to |-> auth[a], type |-> PkType[auth[a]]]
      /\ adapted' = auth[a]
      /\ snapshot' \in Snapshots /\ snapshot'.junction = Own
      /\ shadows' = snapshot'.created
  BY <1>2, <1>3 DEF Turned
<1>5. cloned' \in [Admins -> SUBSET AuthModels]
  BY <1>1 DEF Recorded, TablesInv, TablesTypeInv
<1>6. TablesTypeInv'
  <2>1. \A s \in mapped' \cap Schemas : type'[s] \in Types
    BY <1>1, <1>4 DEF TablesInv, TablesTypeInv, Types
  <2>2. shadows' \subseteq AuthModels
    BY <1>4 DEF Snapshots
  <2>3. QED
    BY <1>1, <1>4, <1>5, <2>1, <2>2 DEF TablesInv, TablesTypeInv
<1>7. AdaptedInv'
  <2>1. snapshot' # None
    BY <1>4, TablesAssumption DEF Snapshots
  <2>2. ASSUME ~retyped', NEW s \in Logs PROVE snapshot'.type[s] \in {Declared[s], PkType[Users]}
    <3>1. types = type /\ ~retyped /\ s \in mapped
      BY <2>2 DEF Imported
    <3>2. CASE adapted = auth[a]
      BY <1>1, <1>2, <1>3, <3>1, <3>2 DEF TablesInv, AdaptedInv
    <3>3. CASE adapted # auth[a] /\ snapshot = None
      BY <1>2, <1>3, <3>1, <3>3 DEF TablesInv, AdaptedInv, ResetsArePristine
    <3>4. CASE adapted # auth[a] /\ snapshot # None
      BY <1>2, <1>3, <3>1, <3>4 DEF TablesInv, AdaptedInv
    <3>5. QED
      BY <3>2, <3>3, <3>4
  <2>3. Imported'
    BY DEF Imported
  <2>4. QED
    BY <1>1, <1>4, <2>1, <2>2, <2>3 DEF AdaptedInv
<1>8. RelationsAreTyped' /\ ResetsArePristine'
  BY <1>1, <1>4, TablesAssumption DEF TablesInv, RelationsAreTyped, ResetsArePristine, ForeignKeys
<1>9. touched' \subseteq {a} => auth[a] \in cloned'[a]
  BY <1>1 DEF TablesInv, TablesTypeInv, AloneInv, Recorded
<1>10. QED
  BY <1>4, <1>6, <1>7, <1>8, <1>9

LEMMA AdaptDirectlyInv ==
    ASSUME TablesInv, NEW a \in Admins, AdaptDirectly(a)
    PROVE  TablesInv'
<1>1. /\ Imported /\ Custom(a) /\ type \in [Schemas -> Types \cup {None}]
      /\ \A s \in Logs : type[s] \in Types
      /\ adapted = auth[a] => \A s \in Logs : type[s] = PkType[auth[a]]
  BY TablesAssumption DEF AdaptDirectly, TablesInv, TablesTypeInv, Imported, AdaptedInv, Custom
<1>2. /\ TablesTypeInv' /\ AdaptedInv' /\ RelationsAreTyped' /\ ResetsArePristine'
      /\ adapted' = auth[a]
      /\ touched' \subseteq {a} => auth[a] \in cloned'[a]
      /\ \A b \in Admins \ {a} : ~(touched' \subseteq {b})
  BY <1>1, TurnInv DEF AdaptDirectly, State, TablesInv, TablesTypeInv
<1>3. AloneInv'
  <2> SUFFICES ASSUME touched' \subseteq {a}
               PROVE  /\ Custom(a) /\ adapted' = auth[a] /\ auth[a] \in cloned'[a]
                      /\ plan'[a] # None => /\ Imported'
                                            /\ Custom(a) => adapted' = auth[a]
                                            /\ auth[a] \in plan'[a] <=> ~Custom(a)
                                            /\ Custom(a) => Users \notin plan'[a]
                      /\ emitted'[a] # None => Fits(a)'
    BY <1>2 DEF AloneInv, AdaptDirectly, Custom
  <2>1. touched \subseteq {a}
    BY DEF AdaptDirectly
  <2>2. UNCHANGED <<auth, mapped, plan, emitted>>
    BY DEF AdaptDirectly
  <2>3. QED
    BY <1>1, <1>2, <2>1, <2>2 DEF TablesInv, AloneInv, Fits, Custom, Imported
<1>4. QED
  BY <1>2, <1>3 DEF TablesInv

LEMMA ResetInv ==
    ASSUME TablesInv, NEW a \in Admins, ResetAdaptation(a)
    PROVE  TablesInv'
<1> DEFINE p == Reset(StateWith(type))
<1>1. type \in [Schemas -> Types \cup {None}]
  BY DEF TablesInv, TablesTypeInv
<1>2. /\ Pristine(p) /\ p.type \in [Schemas -> Types \cup {None}]
      /\ \A s \in Schemas \ Logs : p.type[s] = type[s]
      /\ \A s \in Logs : p.type[s] = IF snapshot = None THEN type[s] ELSE snapshot.type[s]
  BY <1>1, ResetIs
<1>3. /\ type' = p.type /\ junction' = p.junction /\ shadows' = p.shadows
      /\ roleUsers' = p.roleUsers /\ userRoles' = p.userRoles
      /\ adapted' = p.adapted /\ snapshot' = p.snapshot
  BY DEF ResetAdaptation, Becomes, State
<1> HIDE DEF p
<1>4. /\ junction' = Own /\ shadows' = {} /\ roleUsers' = Users /\ userRoles' = TRUE
      /\ adapted' = None /\ snapshot' = None
  BY <1>2, <1>3 DEF Pristine
<1>5. UNCHANGED <<auth, mapped, plan, emitted, retyped>>
      /\ cloned' = [cloned EXCEPT ![a] = {}]
      /\ touched' = IF snapshot = None THEN touched ELSE touched \cup {"reset"}
  BY DEF ResetAdaptation
<1>6. \A s \in Logs : snapshot # None => snapshot.type[s] \in Types
                      /\ (~retyped => snapshot.type[s] \in {Declared[s], PkType[Users]})
  BY DEF TablesInv, AdaptedInv, Snapshots
<1>7. TablesTypeInv'
  BY <1>2, <1>3, <1>4, <1>5, <1>6 DEF TablesInv, TablesTypeInv
<1>8. AdaptedInv' /\ RelationsAreTyped'
  BY <1>2, <1>3, <1>4, <1>5, TablesAssumption
  DEF TablesInv, AdaptedInv, RelationsAreTyped, ForeignKeys
<1>9. ResetsArePristine'
  <2>1. ASSUME ~retyped', NEW s \in Logs \cap mapped' PROVE type'[s] \in {Declared[s], PkType[Users]}
    BY <1>2, <1>3, <1>5, <1>6, <2>1 DEF TablesInv, AdaptedInv, ResetsArePristine
  <2>2. QED
    BY <1>4, <2>1 DEF ResetsArePristine, Own
<1>10. AloneInv'
  <2> SUFFICES ASSUME NEW b \in Admins, touched' \subseteq {b}
               PROVE  /\ plan'[b] # None => /\ Imported'
                                            /\ Custom(b)' => adapted' = auth'[b]
                                            /\ auth'[b] \in plan'[b] <=> ~Custom(b)'
                                            /\ Custom(b)' => Users \notin plan'[b]
                      /\ emitted'[b] # None => Fits(b)'
    BY <1>4 DEF AloneInv
  <2>1. snapshot = None /\ touched \subseteq {b} /\ adapted = None
    BY <1>5, TablesAssumption DEF TablesInv, AdaptedInv
  <2>2. QED
    BY <1>4, <1>5, <2>1 DEF TablesInv, AloneInv, Fits, Custom, Imported
<1>11. QED
  BY <1>7, <1>8, <1>9, <1>10 DEF TablesInv

LEMMA CreateInv ==
    ASSUME TablesInv, NEW a \in Admins, CreateTables(a)
    PROVE  TablesInv'
<1>1. /\ Imported /\ UNCHANGED <<auth, mapped, emitted>>
      /\ plan' = [plan EXCEPT ![a] = Planned(AdaptedFor(a), a, cloned'[a])]
  BY DEF CreateTables
<1>2. Imported'
  BY <1>1 DEF Imported
<1>3. CASE Custom(a)
  <2> DEFINE types == RetypedLogs(type, PkType[auth[a]])
  <2>1. auth[a] \in AuthModels
    BY <1>3 DEF TablesInv, TablesTypeInv, Custom
  <2>2. /\ types \in [Schemas -> Types \cup {None}]
        /\ \A s \in Logs : types[s] = PkType[auth[a]] /\ types[s] \in Types
        /\ \A s \in Schemas \ Logs : types[s] = type[s]
    BY <1>1, <2>1, TablesAssumption DEF RetypedLogs, Types, TablesInv, TablesTypeInv, Imported
  <2>3. /\ Becomes(Adapt(StateWith(types), auth[a])) /\ cloned' = Recorded(a)
        /\ touched' = touched \cup {a} /\ retyped' = TRUE
    BY <1>3 DEF CreateTables, AdaptedFor
  <2> HIDE DEF types
  <2>4. DOMAIN plan' = Admins /\ \A b \in Admins \ {a} : plan'[b] = plan[b]
    BY <1>1 DEF TablesInv, TablesTypeInv
  <2>5. /\ TablesTypeInv' /\ AdaptedInv' /\ RelationsAreTyped' /\ ResetsArePristine'
        /\ adapted' = auth[a]
        /\ touched' \subseteq {a} => auth[a] \in cloned'[a]
        /\ \A b \in Admins \ {a} : ~(touched' \subseteq {b})
    BY <1>1, <1>3, <2>2, <2>3, <2>4, TurnInv
  <2>6. AloneInv'
    <3> SUFFICES ASSUME touched' \subseteq {a}
                 PROVE  /\ Custom(a) /\ adapted' = auth[a] /\ auth[a] \in cloned'[a]
                        /\ Imported'
                        /\ auth[a] \notin plan'[a] /\ Users \notin plan'[a]
                        /\ emitted'[a] # None => Fits(a)'
      BY <1>1, <1>3, <2>5 DEF AloneInv, Custom
    <3>1. touched \subseteq {a}
      BY <2>3
    <3>2. emitted'[a] # None => Fits(a)'
      BY <1>1, <3>1 DEF TablesInv, AloneInv, Fits, Custom
    <3>3. plan'[a] = Planned(AdaptedFor(a), a, cloned'[a])
      BY <1>1 DEF TablesInv, TablesTypeInv
    <3>4. auth[a] \notin plan'[a] /\ Users \notin plan'[a]
      BY <1>3, <2>5, <3>3 DEF Planned
    <3>5. QED
      BY <1>2, <1>3, <2>5, <3>2, <3>4
  <2>7. QED
    BY <2>5, <2>6 DEF TablesInv
<1>4. CASE ~Custom(a)
  <2>1. UNCHANGED <<type, metadata, cloned, touched, retyped>>
    <3>1. AdaptedFor(a) = StateWith(type)
      BY <1>4 DEF AdaptedFor, State
    <3>2. Becomes(StateWith(type)) => UNCHANGED <<type, metadata>>
      BY DEF Becomes, StateWith, metadata
    <3>3. QED
      BY <1>4, <3>1, <3>2 DEF CreateTables, TablesInv, TablesTypeInv
  <2>2. /\ DOMAIN plan' = Admins /\ \A b \in Admins \ {a} : plan'[b] = plan[b]
        /\ plan'[a] = Planned(AdaptedFor(a), a, cloned[a])
    BY <1>1, <2>1 DEF TablesInv, TablesTypeInv
  <2>3. Users \in plan'[a]
    BY <1>1, <1>4, <2>2, TablesAssumption DEF Planned, Imported, TablesInv, TablesTypeInv
  <2>4. TablesTypeInv' /\ AdaptedInv' /\ RelationsAreTyped' /\ ResetsArePristine'
    BY <1>1, <2>1, <2>2
    DEF TablesInv, TablesTypeInv, AdaptedInv, RelationsAreTyped, ResetsArePristine,
        metadata, Imported
  <2>5. AloneInv'
    <3> SUFFICES ASSUME NEW b \in Admins, touched' \subseteq {b}
                 PROVE  /\ adapted' = None \/ (Custom(b)' /\ adapted' = auth'[b] /\ auth'[b] \in cloned'[b])
                        /\ plan'[b] # None => /\ Imported'
                                              /\ Custom(b)' => adapted' = auth'[b]
                                              /\ auth'[b] \in plan'[b] <=> ~Custom(b)'
                                              /\ Custom(b)' => Users \notin plan'[b]
                        /\ emitted'[b] # None => Fits(b)'
      BY DEF AloneInv
    <3>1. CASE b # a
      BY <1>1, <1>2, <2>1, <2>2, <3>1 DEF TablesInv, AloneInv, Fits, Custom, metadata
    <3>2. CASE b = a
      BY <1>1, <1>2, <1>4, <2>1, <2>3, <3>2 DEF TablesInv, AloneInv, Fits, Custom, metadata
    <3>3. QED
      BY <3>1, <3>2
  <2>6. QED
    BY <2>4, <2>5 DEF TablesInv
<1>5. QED
  BY <1>3, <1>4

LEMMA EmitTablesInv ==
    ASSUME TablesInv, NEW a \in Admins, EmitTables(a)
    PROVE  TablesInv'
<1>1. /\ plan[a] # None
      /\ UNCHANGED <<auth, mapped, type, metadata, cloned, touched, retyped>>
  BY DEF EmitTables
<1>2. /\ DOMAIN plan' = Admins /\ DOMAIN emitted' = Admins
      /\ plan'[a] = None
      /\ emitted'[a] = [tables |-> plan[a], type |-> type, junction |-> junction]
      /\ \A b \in Admins \ {a} : plan'[b] = plan[b] /\ emitted'[b] = emitted[b]
  BY DEF EmitTables, TablesInv, TablesTypeInv
<1>3. TablesTypeInv' /\ AdaptedInv' /\ RelationsAreTyped' /\ ResetsArePristine'
  BY <1>1, <1>2
  DEF TablesInv, TablesTypeInv, AdaptedInv, RelationsAreTyped, ResetsArePristine,
      metadata, Imported
<1>4. AloneInv'
  <2> SUFFICES ASSUME NEW b \in Admins, touched' \subseteq {b}
               PROVE  /\ adapted' = None \/ (Custom(b)' /\ adapted' = auth'[b] /\ auth'[b] \in cloned'[b])
                      /\ plan'[b] # None => /\ Imported'
                                            /\ Custom(b)' => adapted' = auth'[b]
                                            /\ auth'[b] \in plan'[b] <=> ~Custom(b)'
                                            /\ Custom(b)' => Users \notin plan'[b]
                      /\ emitted'[b] # None => Fits(b)'
    BY DEF AloneInv
  <2>1. CASE b # a
    BY <1>1, <1>2, <2>1 DEF TablesInv, AloneInv, Fits, Custom, metadata, Imported
  <2>2. CASE b = a
    <3>1. touched \subseteq {a}
      BY <1>1, <2>2
    <3>2. /\ Imported
          /\ Custom(a) => adapted = auth[a]
          /\ auth[a] \in plan[a] <=> ~Custom(a)
          /\ Custom(a) => Users \notin plan[a]
          /\ adapted = None \/ (Custom(a) /\ adapted = auth[a] /\ auth[a] \in cloned[a])
      BY <1>1, <3>1 DEF TablesInv, AloneInv
    <3>3. junction = [to |-> auth[a], type |-> PkType[auth[a]]]
      <4>1. CASE Custom(a)
        <5>1. adapted = auth[a] /\ adapted # None
          BY <3>2, <4>1, TablesAssumption DEF TablesInv, TablesTypeInv
        <5>2. junction = [to |-> adapted, type |-> PkType[adapted]]
          BY <5>1 DEF TablesInv, AdaptedInv
        <5>3. QED
          BY <5>1, <5>2
      <4>2. CASE ~Custom(a)
        BY <3>2, <4>2 DEF TablesInv, ResetsArePristine, Custom
      <4>3. QED
        BY <4>1, <4>2
    <3>4. Custom(a) => \A s \in Logs : type[s] = PkType[auth[a]]
      <4>1. ASSUME Custom(a) PROVE \A s \in Logs : type[s] = PkType[auth[a]]
        <5>1. adapted = auth[a] /\ adapted # None
          BY <3>2, <4>1, TablesAssumption DEF TablesInv, TablesTypeInv
        <5>2. QED
          BY <5>1 DEF TablesInv, AdaptedInv
      <4>2. QED
        BY <4>1
    <3>5. Fits(a)'
      BY <1>1, <1>2, <3>2, <3>3, <3>4 DEF Fits, Custom
    <3>6. QED
      BY <1>1, <1>2, <2>2, <3>2, <3>5 DEF metadata, Custom
  <2>3. QED
    BY <2>1, <2>2
<1>5. QED
  BY <1>3, <1>4 DEF TablesInv

LEMMA TablesInvariance == TablesSpec => []TablesInv
<1>1. ASSUME TablesInv, [TablesNext]_tablesVars PROVE TablesInv'
  <2>1. CASE UNCHANGED tablesVars
    BY <1>1, <2>1
    DEF TablesInv, TablesTypeInv, AdaptedInv, AloneInv, RelationsAreTyped, ResetsArePristine,
        Fits, Custom, Imported, tablesVars, metadata
  <2>2. QED
    BY <1>1, <2>1, MaterializeInv, AdaptDirectlyInv, ResetInv, CreateInv, EmitTablesInv
    DEF TablesNext
<1>2. QED
  BY <1>1, TablesInitInv, PTL DEF TablesSpec

\* An Admin's tables refer to its own users unless another or a reset came in
\* between, relations are typed in any order, and a reset leaves nothing behind.
THEOREM MetadataIsShared == TablesSpec => []SharedMetadataHolds
<1>1. TablesInv => SharedMetadataHolds
  <2> SUFFICES ASSUME TablesInv PROVE TablesFitTheirAdmin
    BY DEF TablesInv, SharedMetadataHolds
  <2>1. ASSUME NEW a \in Admins, emitted[a] # None, ~Fits(a) PROVE touched \ {a} # {}
    BY <2>1 DEF TablesInv, AloneInv
  <2>2. QED
    BY <2>1 DEF TablesFitTheirAdmin
<1>2. QED
  BY <1>1, TablesInvariance, PTL

=============================================================================
