------------------------------- MODULE Filters -------------------------------
(* The filters of a list: what the parameters of a request ask of one field,  *)
(* and whether a row passes.  A user sets and clears parameters one at a time *)
(* (filters/lookups.py, filters/base.py), the filter of the field is made for *)
(* its type (filters/registry.py), its choices are offered beside the list    *)
(* (views/list_context.py), and the JSON API declares its lookups             *)
(* (api/crud.py).  Filters of several fields are joined by AND, so one field  *)
(* of one row is enough.                                                      *)
(*                                                                            *)
(* A parameter is a sequence of parts, split at its commas; a part is a       *)
(* number, a day, an instant or a text.                                       *)
EXTENDS Naturals, Sequences, FiniteSets

CONSTANTS Kinds,      \* types of fields considered, of AllKinds
          Values,     \* Values[k]: the values of a row's field of type k
          Raws,       \* Raws[k]: the parameters a user gives it
          Precision,  \* 2^53: a float holds every integer up to it
          DayLength,  \* instants of a day, the first of them midnight
          MaxParams,  \* bound: parameters set at a time
          Null

AllKinds == {"text", "boolean", "enum", "foreign key", "members", "integer",
             "numeric", "date", "datetime", "time"}

VARIABLES kind,        \* the type of the field
          row,         \* a row: its id and the value of the field
          introspects, \* is there an introspection backend
          form         \* the parameters: a function from lookups

vars == <<kind, row, introspects, form>>

-----------------------------------------------------------------------------
(* The lookups.                                                               *)

Comparisons == {"gt", "gte", "lt", "lte"}
Patterns == {"icontains", "startswith", "endswith"}
Lookups == {"exact"} \cup Comparisons \cup Patterns \cup {"range", "in", "from", "to"}

\* Those the filter of a type builds a condition from; it passes over others.
Supported(k) ==
    CASE k = "text" -> {"exact"} \cup Patterns
      [] k = "boolean" -> {"exact"}
      [] k \in {"enum", "foreign key", "members"} -> {"exact", "in"}
      [] k \in {"integer", "numeric", "time"} -> {"exact", "range", "in"} \cup Comparisons
      [] k \in {"date", "datetime"} -> {"exact", "range", "in", "from", "to"} \cup Comparisons

\* Those the JSON API names in its documentation: LOOKUPS_BY_TYPE.
Declared(k) ==
    IF k \in {"foreign key", "members"} THEN {"exact"} ELSE Supported(k)

-----------------------------------------------------------------------------
(* Parsing: what a part becomes, or Null.                                     *)

\* float(): beyond Precision it keeps even numbers, and a tie goes to a
\* multiple of four.
Rounded(n) ==
    IF n <= Precision \/ n % 2 = 0 THEN n
    ELSE IF (n + 1) % 4 = 0 THEN n + 1 ELSE n - 1

True(part) == part.is = "text" /\ part.of \in {<<"1">>, <<"y">>}
False(part) == part.is = "text" /\ part.of \in {<<"0">>, <<"n">>}

Parsed(k, part) ==
    CASE k \in {"text", "enum"} -> part.of
      [] k = "boolean" -> IF True(part) THEN "true" ELSE IF False(part) THEN "false" ELSE Null
      [] k \in {"integer", "time", "foreign key", "members"} ->
            IF part.is = "number" THEN part.of ELSE Null
      [] k = "numeric" -> IF part.is = "number" THEN Rounded(part.of) ELSE Null
      [] k = "date" -> IF part.is = "day" THEN part.of ELSE Null
      [] k = "datetime" -> CASE part.is = "day" -> DayLength * part.of  \* at midnight
                             [] part.is = "instant" -> part.of
                             [] OTHER -> Null

\* A parameter taken whole: a comma is part of a text, and parses as nothing else.
RECURSIVE Joined(_)
Joined(raw) == IF Len(raw) = 1 THEN raw[1].of ELSE raw[1].of \o <<",">> \o Joined(Tail(raw))
Whole(k, raw) ==
    IF k \in {"text", "enum"} THEN Joined(raw)
    ELSE IF Len(raw) = 1 THEN Parsed(k, raw[1]) ELSE Null

\* The parts of a list that parse; a filter leaves the others out.
Items(k, raw) == {Parsed(k, raw[i]) : i \in 1 .. Len(raw)} \ {Null}

\* Does a parameter add a condition: the range wants two parts, a list one.
Counts(k, lookup, raw) ==
    /\ lookup \in Supported(k)
    /\ CASE lookup = "range" -> Len(raw) = 2 /\ \A i \in 1 .. 2 : Parsed(k, raw[i]) # Null
         [] lookup = "in" -> Items(k, raw) # {}
         [] OTHER -> Whole(k, raw) # Null

-----------------------------------------------------------------------------
(* The conditions.                                                            *)

Lower(c) == IF c = "A" THEN "a" ELSE c
Folded(t) == [i \in 1 .. Len(t) |-> Lower(t[i])]

\* ILIKE: % stands for any text.  What the user typed is not escaped.
RECURSIVE Like(_, _)
Like(t, p) ==
    IF p = <<>> THEN t = <<>>
    ELSE IF Head(p) = "%" THEN \E i \in 1 .. Len(t) + 1 : Like(SubSeq(t, i, Len(t)), Tail(p))
    ELSE t # <<>> /\ Lower(Head(t)) = Lower(Head(p)) /\ Like(Tail(t), Tail(p))

Pattern(lookup, p) ==
    CASE lookup = "icontains"  -> <<"%">> \o p \o <<"%">>
      [] lookup = "startswith" -> p \o <<"%">>
      [] lookup = "endswith"   -> <<"%">> \o p

Compares(lookup, v, w) ==
    CASE lookup = "gt" -> v > w
      [] lookup \in {"gte", "from"} -> v >= w
      [] lookup = "lt" -> v < w
      [] lookup \in {"lte", "to"} -> v <= w

\* Mutant: the upper bound of a range is left out.
LetsOpenRange(k, lookup, raw, v) ==
    /\ v # Null
    /\ CASE lookup = "exact" -> v = Whole(k, raw)
         [] lookup \in Patterns -> Like(v, Pattern(lookup, Whole(k, raw)))
         [] lookup = "range" -> Parsed(k, raw[1]) <= v /\ v < Parsed(k, raw[2])
         [] lookup = "in" -> v \in Items(k, raw)
         [] OTHER -> Compares(lookup, v, Whole(k, raw))

\* One condition on one value; nothing is known of NULL.
Lets(k, lookup, raw, v) ==
    /\ v # Null
    /\ CASE lookup = "exact" -> v = Whole(k, raw)
         [] lookup \in Patterns -> Like(v, Pattern(lookup, Whole(k, raw)))
         [] lookup = "range" -> Parsed(k, raw[1]) <= v /\ v <= Parsed(k, raw[2])
         [] lookup = "in" -> v \in Items(k, raw)
         [] OTHER -> Compares(lookup, v, Whole(k, raw))

\* The column the filter reads: without introspection the foreign key resolves
\* to the name of the column it refers to, which here is the row's own id.
ReadsOwnId == kind = "foreign key" /\ ~introspects

\* The values a condition looks at: of a relationship to many, any one may pass.
Read(r) == IF kind = "members" THEN r.value
           ELSE {IF ReadsOwnId THEN r.id ELSE r.value}

Passes(r, params) ==
    \A lookup \in DOMAIN params : Counts(kind, lookup, params[lookup]) =>
        \E v \in Read(r) : Lets(kind, lookup, params[lookup], v)

\* The choice the page offers for a value: of a text column the values it
\* holds, of an enum those of its type, of a relation the rows it refers to.
Choice(v) ==
    CASE kind \in {"text", "enum"} -> [is |-> "text", of |-> v]
      [] kind = "boolean" -> [is |-> "text", of |-> IF v = "true" THEN <<"1">> ELSE <<"0">>]
      [] kind \in {"foreign key", "members"} -> [is |-> "number", of |-> v]
Offers == kind \in {"text", "enum", "boolean", "foreign key", "members"}

-----------------------------------------------------------------------------
(* The page.                                                                  *)

Init ==
    /\ kind \in Kinds
    /\ row \in [id : 1 .. 2, value : Values[kind]]
    /\ introspects \in BOOLEAN
    /\ form = <<>>

\* An empty parameter is as good as none.
SetParam(lookup, raw) ==
    /\ lookup \notin DOMAIN form
    /\ Cardinality(DOMAIN form) < MaxParams
    /\ form' = [l \in DOMAIN form \cup {lookup} |-> IF l = lookup THEN raw ELSE form[l]]
    /\ UNCHANGED <<kind, row, introspects>>

ClearParam(lookup) ==
    /\ lookup \in DOMAIN form
    /\ form' = [l \in DOMAIN form \ {lookup} |-> form[l]]
    /\ UNCHANGED <<kind, row, introspects>>

Next ==
    \E lookup \in Lookups :
        \/ \E raw \in Raws[kind] : SetParam(lookup, raw)
        \/ ClearParam(lookup)

Spec == Init /\ [][Next]_vars

-----------------------------------------------------------------------------
(* Properties.                                                                *)

TypeOK ==
    /\ kind \in Kinds /\ kind \in AllKinds
    /\ row \in [id : 1 .. 2, value : Values[kind]]
    /\ introspects \in BOOLEAN
    /\ DOMAIN form \subseteq Lookups
    /\ \A l \in DOMAIN form : form[l] \in Raws[kind]

\* What a part says, whatever a float makes of it.
Meant(part) == Parsed(IF kind = "numeric" THEN "integer" ELSE kind, part)

\* What a parameter asks of a value, in the words of filters/lookups.py; with
\* `to' a day is asked for whole.
Asks(lookup, raw, v) ==
    LET whole == IF kind \in {"text", "enum"} THEN Joined(raw) ELSE Meant(raw[1])
        Says(t, i, n) == Folded(SubSeq(t, i, i + n - 1)) = Folded(whole)
    IN  /\ v # Null
        /\ CASE lookup = "exact" -> Len(raw) = 1 /\ v = whole
              [] lookup = "icontains" ->
                    \E i \in 1 .. Len(v) + 1 - Len(whole) : Says(v, i, Len(whole))
              [] lookup = "startswith" -> Len(whole) <= Len(v) /\ Says(v, 1, Len(whole))
              [] lookup = "endswith" ->
                    Len(whole) <= Len(v) /\ Says(v, Len(v) + 1 - Len(whole), Len(whole))
              [] lookup = "range" -> v \in Meant(raw[1]) .. Meant(raw[2])
              [] lookup = "in" -> \E i \in 1 .. Len(raw) : v = Meant(raw[i])
              [] lookup = "to" /\ raw[1].is = "day" /\ kind = "datetime" ->
                    v < DayLength * (raw[1].of + 1)
              [] OTHER -> Compares(lookup, v, whole)

Imprecise(raw) ==
    kind = "numeric" /\ \E i \in 1 .. Len(raw) :
        raw[i].is = "number" /\ raw[i].of > Precision /\ raw[i].of % 2 = 1
LastDay(lookup, raw) == kind = "datetime" /\ lookup = "to" /\ raw[1].is = "day"
Wildcard(lookup, raw) ==
    lookup \in Patterns /\ \E i \in 1 .. Len(raw[1].of) : raw[1].of[i] = "%"

\* A parameter that adds a condition asks what it says.  It hides a row it
\* asks for only when the number is too large for a float or the row is later
\* than midnight on the last day; it shows a row it does not ask for only when
\* the number is too large or the text holds a wildcard.
Faithful(lookup, raw) ==
    LET asked == \E v \in Read(row) : Asks(lookup, raw, v)
        shown == Passes(row, [l \in {lookup} |-> raw])
    IN  /\ asked /\ ~shown => Imprecise(raw) \/ LastDay(lookup, raw)
        /\ shown /\ ~asked => Imprecise(raw) \/ Wildcard(lookup, raw)

\* The choice offered for the value of a row finds the row, unless the filter
\* of a foreign key reads another column for want of introspection.
ChoiceFinds(v) ==
    v # Null /\ ~ReadsOwnId => Passes(row, [l \in {"exact"} |-> <<Choice(v)>>])

\* A list shows the rows its filters ask for, but for the cases named above; a
\* parameter that does not parse, or is none of the field's lookups, asks for
\* nothing; the choices it offers find their rows; and the API declares no
\* lookup the filter of the field passes over.
FiltersAreFaithful ==
    /\ TypeOK
    /\ Declared(kind) \subseteq Supported(kind)
    /\ \A l \in DOMAIN form : Counts(kind, l, form[l]) => Faithful(l, form[l])
    /\ Passes(row, form) <=>
          \A l \in DOMAIN form : Passes(row, [m \in {l} |-> form[l]])
    /\ Offers => \A v \in IF kind = "members" THEN row.value ELSE {row.value} :
                     ChoiceFinds(v)
=============================================================================
