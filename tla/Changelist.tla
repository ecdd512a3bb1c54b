----------------------------- MODULE Changelist -----------------------------
(***************************************************************************)
(* The list of a registered model: filters, search, ordering, the three    *)
(* paginations, and the positions a drag-and-drop sort writes, while other *)
(* requests insert, delete and edit rows.                                  *)
(*                                                                         *)
(* Sources: pagination/offset.py, pagination/cursor.py,                    *)
(* pagination/dynamic.py, views/list_context.py (the HTML page),           *)
(* views/renderers.py (DefaultQueryProvider, the JSON list), filters/,     *)
(* search_utils.py, modeladmin.py (get_ordering), router.py (sort_items,   *)
(* export_data), templates/partials/pagination.html (the links).           *)
(*                                                                         *)
(* A list is read page by page.  A browser follows the link of the page it *)
(* was shown, which carries the page or the cursor and nothing else; an    *)
(* API client repeats its own parameters.  One request reads the database  *)
(* two or three times, and every read sees what is committed then.         *)
(***************************************************************************)
EXTENDS Naturals, Sequences, FiniteSets, SequencesExt

CONSTANTS
    Readers,    \* clients that walk through the list
    Writers,    \* requests that change rows, each served once
    Groups,     \* values of the numeric column "group"
    Queries,    \* the query strings a client starts with
    Lists,      \* the bodies of a sort: sequences of ids
    Groups0,    \* the groups of the rows there are at first, a sequence
    MaxId,      \* how far the sequence of primary keys runs
    PerPage,    \* rows on a page
    Threshold,  \* the count over which DynamicPagination uses cursors
    MaxPages,   \* how many pages a client asks for
    Junk,       \* a filter value that does not parse
    Missing        \* no row, no cursor

Ids == 1 .. MaxId
Row == [place : Nat, group : Groups]
Strategies == {"offset", "cursor", "dynamic"}
Columns == {"id", "-id", "place"}   \* the terms sanitize_ordering keeps
Lookups == {"exact", "gte", "lte"}
ListQuery == [ordering : {"", "unknown"} \cup Columns,
          filter : UNION {[L -> Groups \cup {Junk}] : L \in SUBSET Lookups},
          q : Groups \cup {Missing}, page : Nat \ {0}, after : Ids \cup {Missing},
          before : Ids \cup {Missing}]

\* A page has a row or more, and the rows there are at first fit.
ASSUME ChangelistAssumption ==
    /\ PerPage \in Nat \ {0} /\ MaxId \in Nat
    /\ Queries \subseteq ListQuery /\ Lists \subseteq Seq(Ids)
    /\ Groups0 \in Seq(Groups) /\ Len(Groups0) <= MaxId
    /\ Missing \notin Nat \cup Row

VARIABLES
    rows,       \* the committed rows
    nextId,     \* the sequence of primary keys
    strategy,   \* the pagination of the ModelAdmin
    ordering,   \* the ordering of the ModelAdmin, "" for none
    client,     \* client[r]: a browser or an API client
    query,      \* query[r]: the parameters of the request r makes
    stage,      \* stage[r]: how far that request is
    using,      \* using[r]: the strategy this request uses
    total,      \* total[r]: what this request counted
    next,       \* next[r]: what the response offers: a page, a cursor or nothing
    pages,      \* pages[r]: the pages r was shown
    job,        \* job[w]: the sort w does, and how far it is
    asked,      \* history: the first query of r
    modes,      \* history: the strategies the pages of r came from
    steady,     \* history: rows that were in the list of r all along
    came,       \* history: rows that joined the list of r since it began
    late,       \* history: those that came between a count and the items it is for
    left,       \* history: rows that left it
    stale       \* history: rows another request changed since w read them

table == <<rows, nextId>>
config == <<strategy, ordering>>
reading == <<client, query, stage, using, total, next, pages>>
history == <<asked, modes, steady, came, late, left, stale>>
listVars == <<table, config, reading, job, history>>

NoQuery == [ordering |-> "", filter |-> <<>>, q |-> Missing, page |-> 1,
            after |-> Missing, before |-> Missing]
Nothing == [page |-> Missing, after |-> Missing]
NoJob == [does |-> "idle", list |-> <<>>, pos |-> 1, read |-> <<>>]

ListInit ==
    /\ rows = [i \in Ids |-> IF i \in DOMAIN Groups0
                             THEN [place |-> i - 1, group |-> Groups0[i]] ELSE Missing]
    /\ nextId = Len(Groups0) + 1
    /\ strategy \in Strategies
    /\ ordering \in {""} \cup Columns
    /\ client = [r \in Readers |-> "none"]
    /\ query = [r \in Readers |-> NoQuery] /\ asked = query
    /\ stage = [r \in Readers |-> "idle"]
    /\ using = [r \in Readers |-> strategy]
    /\ total = [r \in Readers |-> 0]
    /\ next = [r \in Readers |-> Nothing]
    /\ pages = [r \in Readers |-> <<>>]
    /\ job = [w \in Writers |-> NoJob]
    /\ modes = [r \in Readers |-> {}]
    /\ steady = [r \in Readers |-> {}]
    /\ came = [r \in Readers |-> {}] /\ late = came /\ left = [r \in Readers |-> {}]
    /\ stale = [w \in Writers |-> {}]

-----------------------------------------------------------------------------
(***************************************************************************)
(* The query: filters, search and ordering.                                *)
(***************************************************************************)

\* The lookups of an integer filter.
Compares(lookup, g, value) ==
    CASE lookup = "exact" -> g = value
      [] lookup = "gte"   -> g >= value
      [] lookup = "lte"   -> g <= value

\* A value that does not parse adds no condition: the filter lets all rows pass.
Passes(filter, row) ==
    \A lookup \in DOMAIN filter :
        filter[lookup] = Junk \/ Compares(lookup, row.group, filter[lookup])

\* The search term is looked for in the search fields, here the group.
FoundBy(q, row) == q = Missing \/ row.group = q

Matches(p, row) == row # Missing /\ Passes(p.filter, row) /\ FoundBy(p.q, row)

\* ?ordering= replaces the ordering of the ModelAdmin; a term that names no
\* column is dropped, and nothing takes its place.
Ordering(p) ==
    IF p.ordering = "" THEN ordering
    ELSE IF p.ordering \in Columns THEN p.ordering ELSE ""

Before(ord, i, j) ==
    CASE ord = "id"    -> i < j
      [] ord = "-id"   -> i > j
      [] ord = "place" -> rows[i].place < rows[j].place
      [] ord = ""      -> FALSE

\* The results an ORDER BY allows: equal rows, and rows without an order, come
\* in any order, and in another one at the next query.
Sorted(S, ord) ==
    {s \in SetToSeqs(S) : \A k \in DOMAIN s : \A j \in 1 .. k - 1 : ~Before(ord, s[k], s[j])}

\* The cursor clause.  A cursor that pages back also appends its own ordering,
\* which only decides where the list has none.
Selected(p, mode) ==
    {i \in Ids : /\ Matches(p, rows[i])
                 /\ mode = "cursor" =>
                       IF p.after # Missing THEN i > p.after
                       ELSE p.before # Missing => i < p.before}

PagesBack(p, mode) == mode = "cursor" /\ p.after = Missing /\ p.before # Missing

CursorOrder(p, mode) ==
    IF PagesBack(p, mode) /\ Ordering(p) = "" THEN "-id" ELSE Ordering(p)

-----------------------------------------------------------------------------
(***************************************************************************)
(* The three paginations.                                                  *)
(***************************************************************************)

AtLeastOne(n) == IF n < 1 THEN 1 ELSE n
TotalPages(n) == AtLeastOne((n + PerPage - 1) \div PerPage)

\* The page that is shown: the last one when the requested one is gone.
Clamped(page, n) == IF page > TotalPages(n) THEN TotalPages(n) ELSE page

\* A mutant: pages are counted from zero.
OffsetFromZero(page) == page * PerPage

Offset(page) == (page - 1) * PerPage

Slice(s, from, n) == SubSeq(s, from + 1, IF from + n > Len(s) THEN Len(s) ELSE from + n)

\* Cursor pagination fetches one row more than it shows, to know of a next page.
Fetched(s, p, mode) ==
    LET s1 == Slice(s, 0, PerPage + 1)
    IN  IF PagesBack(p, mode) THEN Reverse(s1) ELSE s1

Shown(s) == Slice(s, 0, PerPage)

HasNext(s) == Len(s) > PerPage

\* A mutant: the cursor is the row that was fetched and not shown.
CursorOfExtra(s) == s[Len(s)]

NextCursor(s) == Shown(s)[Len(Shown(s))]

\* What the response offers.  A client goes on to the cursor when there is one,
\* otherwise to the next page.
Offers(r, s) ==
    IF using[r] = "cursor"
    THEN [Nothing EXCEPT !.after = IF HasNext(s) THEN NextCursor(s) ELSE Missing]
    ELSE LET page == Clamped(query[r].page, total[r])
         IN  [Nothing EXCEPT !.page = IF page < TotalPages(total[r]) THEN page + 1
                                      ELSE Missing]

\* A client asks for the list.
Ask(r) ==
    /\ stage[r] = "idle"
    /\ \E c \in {"browser", "api"}, p \in Queries :
          /\ client' = [client EXCEPT ![r] = c]
          /\ query' = [query EXCEPT ![r] = p]
          /\ asked' = [asked EXCEPT ![r] = p]
          /\ steady' = [steady EXCEPT ![r] = {i \in Ids : Matches(p, rows[i])}]
    /\ stage' = [stage EXCEPT ![r] = IF strategy = "dynamic" THEN "decide" ELSE "count"]
    /\ UNCHANGED <<table, config, using, total, next, pages, job, modes, came, late, left, stale>>

\* DynamicPagination counts the whole list first.
Decide(r) ==
    /\ stage[r] = "decide"
    /\ using' = [using EXCEPT ![r] =
          IF Cardinality(Selected(query[r], "offset")) <= Threshold
          THEN "offset" ELSE "cursor"]
    /\ stage' = [stage EXCEPT ![r] = "count"]
    /\ UNCHANGED <<table, config, client, query, total, next, pages, job, history>>

Count(r) ==
    /\ stage[r] = "count"
    /\ total' = [total EXCEPT ![r] = Cardinality(Selected(query[r], using[r]))]
    /\ stage' = [stage EXCEPT ![r] = "items"]
    /\ UNCHANGED <<table, config, client, query, using, next, pages, job, history>>

Items(r) ==
    /\ stage[r] = "items"
    /\ \E s \in Sorted(Selected(query[r], using[r]), CursorOrder(query[r], using[r])) :
          LET fetched == Fetched(s, query[r], using[r])
              page == IF using[r] = "cursor" THEN Shown(fetched)
                      ELSE Slice(s, Offset(Clamped(query[r].page, total[r])), PerPage)
          IN  /\ pages' = [pages EXCEPT ![r] = Append(@, page)]
              /\ next' = [next EXCEPT ![r] = Offers(r, fetched)]
    /\ modes' = [modes EXCEPT ![r] = @ \cup {using[r]}]
    /\ stage' = [stage EXCEPT ![r] = "shown"]
    /\ UNCHANGED <<table, config, client, query, using, total, job, asked, steady, came, late, left, stale>>

\* The link of the page carries the page or the cursor, and nothing of the query.
Link(r) ==
    LET p == IF client[r] = "api" THEN [query[r] EXCEPT !.before = Missing] ELSE NoQuery
    IN  IF next[r].after # Missing THEN [p EXCEPT !.after = next[r].after, !.page = 1]
        ELSE [p EXCEPT !.page = next[r].page, !.after = Missing]

Follow(r) ==
    /\ stage[r] = "shown"
    /\ next[r] # Nothing
    /\ Len(pages[r]) < MaxPages
    /\ query' = [query EXCEPT ![r] = Link(r)]
    /\ stage' = [stage EXCEPT ![r] = IF strategy = "dynamic" THEN "decide" ELSE "count"]
    /\ UNCHANGED <<table, config, client, using, total, next, pages, job, history>>

\* The last page offers no other.
Finish(r) ==
    /\ stage[r] = "shown"
    /\ next[r] = Nothing
    /\ stage' = [stage EXCEPT ![r] = "done"]
    /\ UNCHANGED <<table, config, client, query, using, total, next, pages, job, history>>

\* The export reads the whole table, whatever the list was filtered by; with a
\* search term it calls apply_search_filter without the request, and raises.
Export(r) ==
    /\ stage[r] = "idle"
    /\ client' = [client EXCEPT ![r] = "export"]
    /\ \E q \in Groups \cup {Missing} :
          \/ /\ q # Missing
             /\ stage' = [stage EXCEPT ![r] = "failed"]
          \/ /\ q = Missing
             /\ stage' = [stage EXCEPT ![r] = "exported"]
    /\ total' = [total EXCEPT ![r] = Cardinality({i \in Ids : rows[i] # Missing})]
    /\ UNCHANGED <<table, config, query, using, next, pages, job, history>>

-----------------------------------------------------------------------------
(***************************************************************************)
(* The writers.                                                            *)
(***************************************************************************)

\* A walk is on from its first request to its last page.
Walking(r) == stage[r] \notin {"idle", "done", "exported", "failed"}

\* History: the rows a commit brings into the list of r, and takes out of it.
Arrivals(r, new) ==
    IF Walking(r) THEN {i \in Ids : rows[i] # new[i] /\ Matches(query[r], new[i])} ELSE {}

Departures(r, new) ==
    IF Walking(r) THEN {i \in Ids : rows[i] # new[i] /\ Matches(query[r], rows[i])} ELSE {}

\* A commit of w, with what it means for the walks and for the sorts that have
\* read the rows it changes.
CommitRows(w, new) ==
    /\ rows' = new
    /\ steady' = [r \in Readers |-> steady[r] \ (Arrivals(r, new) \cup Departures(r, new))]
    /\ came' = [r \in Readers |-> came[r] \cup Arrivals(r, new)]
    /\ late' = [r \in Readers |-> late[r] \cup
          IF stage[r] = "items" THEN Arrivals(r, new) ELSE {}]
    /\ left' = [r \in Readers |-> left[r] \cup Departures(r, new)]
    /\ stale' = [v \in Writers |-> stale[v] \cup
          (IF v = w THEN {} ELSE {i \in DOMAIN job[v].read : rows[i] # new[i]})]
    /\ UNCHANGED <<asked, modes>>

Done(w) == job' = [job EXCEPT ![w].does = "done"]

CreateRow(w) ==
    /\ job[w].does = "idle"
    /\ nextId <= MaxId
    /\ \E g \in Groups :
          CommitRows(w, [rows EXCEPT ![nextId] = [place |-> 0, group |-> g]])
    /\ nextId' = nextId + 1
    /\ Done(w)
    /\ UNCHANGED <<config, reading>>

DeleteRow(w) ==
    /\ job[w].does = "idle"
    /\ \E i \in Ids : /\ rows[i] # Missing
                      /\ CommitRows(w, [rows EXCEPT ![i] = Missing])
    /\ Done(w)
    /\ UNCHANGED <<nextId, config, reading>>

EditRow(w) ==
    /\ job[w].does = "idle"
    /\ \E i \in Ids, g \in Groups :
          /\ rows[i] # Missing
          /\ CommitRows(w, [rows EXCEPT ![i].group = g])
    /\ Done(w)
    /\ UNCHANGED <<nextId, config, reading>>

\* POST of a sort: session.get reads one item after the other, each row once.
Sort(w) ==
    /\ job[w].does = "idle"
    /\ \E list \in Lists : job' = [job EXCEPT ![w].does = "sort", ![w].list = list]
    /\ UNCHANGED <<table, config, reading, history>>

Get(w) ==
    /\ job[w].does = "sort"
    /\ job[w].pos <= Len(job[w].list)
    /\ LET i == job[w].list[job[w].pos]
       IN  job' = [job EXCEPT ![w].pos = @ + 1,
                              ![w].read = IF rows[i] = Missing \/ i \in DOMAIN @ THEN @
                                          ELSE [j \in {i} \cup DOMAIN @ |->
                                                   IF j = i THEN rows[i].place ELSE @[j]]]
    /\ UNCHANGED <<table, config, reading, history>>

\* A mutant: an item that is gone takes no position.
PositionAmongFound(w, i) ==
    Cardinality({k \in DOMAIN job[w].list : /\ job[w].list[k] \in DOMAIN job[w].read
                                            /\ \E n \in DOMAIN job[w].list :
                                                  k < n /\ job[w].list[n] = i})

\* The position of an item is its index in the body, the last one if it is
\* there twice.
Position(w, i) == Max({k \in DOMAIN job[w].list : job[w].list[k] = i}) - 1

\* Only the positions that differ from what was read are written.
Moved(w) == {i \in DOMAIN job[w].read : job[w].read[i] # Position(w, i)}

SortFlush(w) ==
    /\ job[w].does = "sort"
    /\ job[w].pos > Len(job[w].list)
    /\ \/ /\ \A i \in Moved(w) : rows[i] # Missing
          /\ CommitRows(w, [i \in Ids |-> IF i \in Moved(w)
                                      THEN [rows[i] EXCEPT !.place = Position(w, i)]
                                      ELSE rows[i]])
          /\ Done(w)
       \/ /\ \E i \in Moved(w) : rows[i] = Missing     \* the UPDATE misses a row
          /\ job' = [job EXCEPT ![w].does = "failed"]
          /\ UNCHANGED <<rows, history>>
    /\ UNCHANGED <<nextId, config, reading>>

ListNext ==
    \/ \E r \in Readers : \/ Ask(r) \/ Decide(r) \/ Count(r) \/ Items(r)
                          \/ Follow(r) \/ Finish(r) \/ Export(r)
    \/ \E w \in Writers : \/ CreateRow(w) \/ DeleteRow(w) \/ EditRow(w)
                          \/ Sort(w) \/ Get(w) \/ SortFlush(w)

ListSpec == ListInit /\ [][ListNext]_listVars

-----------------------------------------------------------------------------
(***************************************************************************)
(* Properties.                                                             *)
(***************************************************************************)

\* The types of the variables; no page of the list is longer than PerPage, and
\* no row is on it twice.
ListTypeOK ==
    /\ rows \in [Ids -> Row \cup {Missing}] /\ nextId \in 1 .. MaxId + 1
    /\ strategy \in Strategies /\ ordering \in {""} \cup Columns
    /\ client \in [Readers -> {"none", "browser", "api", "export"}]
    /\ query \in [Readers -> ListQuery]
    /\ stage \in [Readers -> {"idle", "decide", "count", "items", "shown", "done",
                              "exported", "failed"}]
    /\ using \in [Readers -> Strategies] /\ total \in [Readers -> 0 .. MaxId]
    /\ \A r \in Readers : \A k \in DOMAIN pages[r] :
           /\ Len(pages[r][k]) <= PerPage
           /\ IsInjective(pages[r][k])
    /\ \A w \in Writers : \A i \in DOMAIN job[w].read : job[w].read[i] \in Nat

\* The requests of a walk all ask for the same list, and the first for its
\* beginning.
OneList(r) ==
    /\ asked[r].before = Missing /\ asked[r].after = Missing /\ asked[r].page = 1
    /\ client[r] = "api" \/ [query[r] EXCEPT !.page = 1, !.after = Missing] = asked[r]

\* Such a walk, when it is over.
Walked(r) == stage[r] = "done" /\ OneList(r)

\* Such a walk, in the order of the primary key; cursors only go upwards.
ByKey(r) ==
    /\ Walked(r)
    /\ \/ Ordering(query[r]) = "id"
       \/ Ordering(query[r]) = "-id" /\ modes[r] = {"offset"}

Times(r, i) ==
    Cardinality({k \in DOMAIN pages[r] : \E n \in DOMAIN pages[r][k] : pages[r][k][n] = i})

\* A walk by cursor through a list that is ordered by the primary key shows every
\* row that stays in the list exactly once, whatever is inserted, deleted or
\* edited meanwhile, and between the two reads of a request.
CursorWalksAreComplete ==
    \A r \in Readers :
        Walked(r) /\ modes[r] = {"cursor"} /\ Ordering(query[r]) = "id" =>
            \A i \in steady[r] : Times(r, i) = 1

\* A walk by pages, or one that switched between pages and cursors, through a list
\* ordered by the primary key: a row that stays in the list is missed only after
\* a row before it has left, in the order of the list, or when one came before it
\* between the count of a request, which says which page is the last, and its items.
MissesNeedDepartures ==
    \A r \in Readers :
        ByKey(r) =>
            \A i \in steady[r] : Times(r, i) = 0 =>
                \E j \in left[r] \cup late[r] : Before(Ordering(query[r]), j, i)

\* A row is shown twice in such a walk only if a row came in before it, if a row
\* left (the page after the last shows the last again), or if DynamicPagination
\* switched its strategy, which starts the list again.
RepeatsAreExplained ==
    \A r \in Readers :
        ByKey(r) =>
            \A i \in steady[r] : Times(r, i) > 1 =>
                \/ \E j \in came[r] : Before(Ordering(query[r]), j, i)
                \/ left[r] # {}
                \/ modes[r] = {"offset", "cursor"}

\* When a page that was asked for by "before" leaves out rows between itself and
\* its cursor, in a list without an ordering of its own, more than a page of rows
\* precede the cursor, and only the nearest is left out.
BackwardGapIsTheNearest ==
    \A r \in Readers :
        /\ stage[r] = "shown" /\ Len(pages[r]) = 1 /\ modes[r] = {"cursor"}
        /\ PagesBack(query[r], "cursor") /\ Ordering(query[r]) = ""
        /\ came[r] \cup left[r] = {}
        => LET S == Selected(query[r], "cursor")
               page == {pages[r][1][n] : n \in DOMAIN pages[r][1]}
               gap == {i \in S : \A j \in page : i > j}
           IN  IF Cardinality(S) <= PerPage THEN page = S
               ELSE gap = {CHOOSE i \in S : \A j \in S : i >= j}

\* A sort that commits gives every item it found the position it was dragged to,
\* the last one if it is there twice, unless another request changed that row
\* after the sort had read it: an update is left out where the position that was
\* read is the new one already.
SortStands ==
    [][\A w \in Writers :
          job[w].does = "sort" /\ job'[w].does = "done" =>
              \A k \in DOMAIN job[w].list :
                  LET i == job[w].list[k]
                  IN  \/ rows'[i] = Missing \/ i \notin DOMAIN job[w].read \/ i \in stale[w]
                      \/ \E n \in DOMAIN job[w].list : n > k /\ job[w].list[n] = i
                      \/ rows'[i].place = k - 1]_listVars

\* Pages by cursor: a walk forward shows every row that stays, once, and a page
\* backward leaves out only the nearest row.
CursorPagesHold == ListTypeOK /\ CursorWalksAreComplete /\ BackwardGapIsTheNearest

\* Pages by number: a walk misses a row, or shows it twice, only for a reason.
PageWalksAreExplained == MissesNeedDepartures /\ RepeatsAreExplained
=============================================================================
