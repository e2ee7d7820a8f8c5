----------------------------- MODULE Generation -----------------------------
(***************************************************************************)
(* SynthGenService (api/service.cpp) and what its generate runs through:   *)
(* RangeExtractor, RectangularSampler, ValueRangeValidator,                *)
(* TailReportBuilder and EvidencePackageBuilder with its SchemaValidator.  *)
(*                                                                         *)
(* The handlers of SynthGenServer (api/server.cpp) run in the threads of   *)
(* the HTTP library and call the one service, which has no lock.  generate *)
(* copies the constraints but keeps a reference to the schema, which it    *)
(* reads three times, and a define_type may replace it in between; one     *)
(* such read and one assignment are single steps.  One generate runs at a  *)
(* time: another would change nothing that it reads.                       *)
(*                                                                         *)
(* Numbers are in halves, so that an integer column (even values) can meet *)
(* a bound between two of its values.  A schema maps the names of its      *)
(* columns to a type, a range and the values of an enumeration; no rule    *)
(* looks at what is in a "text" (STRING or DATETIME) or "enum" column.     *)
(***************************************************************************)
EXTENDS Integers, FiniteSets, FiniteSetsExt

CONSTANTS
    TypeNames, ConstraintNames,
    ColumnChoices,      \* columns of the types that callers define
    CheckChoices,       \* sets of range checks that callers define
    Operators,          \* what the operator of a check's item may turn out to be
    MaxRows,            \* bound on limit
    Lowest, Highest,    \* the range of a column without one, -1e18 and 1e18
    None                \* no such type, constraint, bound or result

ASSUME NumbersAssumption ==
    /\ Lowest \in Int /\ Highest \in Int /\ MaxRows \in Nat
    /\ None \notin Int

\* The bounds of a check and of a column are numbers or absent.
ASSUME CheckAssumption ==
    \A checks \in CheckChoices : \A k \in checks :
        {k.min, k.max} \subseteq Int \union {None}

ASSUME ColumnAssumption ==
    \A columns \in ColumnChoices : \A c \in DOMAIN columns :
        columns[c] \in [type : STRING, min : Int \union {None}, max : Int \union {None},
                        enum_values : SUBSET STRING]

\* A request body holds finitely many checks, and a service finitely many constraints.
ASSUME FiniteAssumption ==
    IsFiniteSet(ConstraintNames) /\ \A checks \in CheckChoices : IsFiniteSet(checks)

VARIABLES
    schemas, constraints,
    request             \* the generate under way, or the last one; or None

vars == <<schemas, constraints, request>>

-----------------------------------------------------------------------------
\* Any other name of a type is taken for FLOAT.
DataType(name) ==
    CASE name = "INT" -> "int"
      [] name \in {"DATETIME", "STRING"} -> "text"
      [] name = "ENUM" -> "enum"
      [] OTHER -> "float"

SchemaOf(columns) ==
    [c \in DOMAIN columns |-> [columns[c] EXCEPT !.type = DataType(@)]]

(***************************************************************************)
(* Schema::validate, on what a map from names leaves to be tested.         *)
(***************************************************************************)
RangesUnchecked(s) == DOMAIN s # {}   \* variant: ranges may be empty

ValidSchema(s) ==
    /\ DOMAIN s # {}
    /\ \A c \in DOMAIN s :
          /\ None \notin {s[c].min, s[c].max} => s[c].min < s[c].max
          /\ s[c].type = "enum" => s[c].enum_values # {}

Numeric(s) == {c \in DOMAIN s : s[c].type \in {"int", "float"}}

-----------------------------------------------------------------------------
(***************************************************************************)
(* An item of a constraint.  Bounds that the check leaves out are 0.  The  *)
(* operator is never assigned, so it is any, "other" being none of the     *)
(* enumeration.                                                            *)
(***************************************************************************)
ZeroIfNone(bound) == IF bound = None THEN 0 ELSE bound

Item(check, op) ==
    [column |-> check.column, op |-> op, check |-> check,
     value_min |-> ZeroIfNone(check.min), value_max |-> ZeroIfNone(check.max)]

HasMin(i) == i.op \in {"between", "greater", "greater_equal"}
HasMax(i) == i.op \in {"between", "less", "less_equal"}
Strict(i) == i.op \in {"greater", "less"}

(***************************************************************************)
(* RangeExtractor::extract: the tightest of the schema's and the items'    *)
(* bounds.                                                                 *)
(***************************************************************************)
On(items, c) == {i \in items : i.column = c}

RangeFromEveryItem(s, c, items) ==   \* variant: the operator is not looked at
    [min |-> Max({IF s[c].min = None THEN Lowest ELSE s[c].min}
                   \union {i.value_min : i \in On(items, c)}),
     max |-> Min({IF s[c].max = None THEN Highest ELSE s[c].max}
                   \union {i.value_max : i \in On(items, c)})]

RangeFromItemsOnly(s, c, items) ==   \* variant: the range of the schema is not kept
    [min |-> Max({Lowest} \union {i.value_min : i \in {x \in On(items, c) : HasMin(x)}}),
     max |-> Min({Highest} \union {i.value_max : i \in {x \in On(items, c) : HasMax(x)}})]

ColumnRange(s, c, items) ==
    [min |-> Max({IF s[c].min = None THEN Lowest ELSE s[c].min}
                   \union {i.value_min : i \in {x \in On(items, c) : HasMin(x)}}),
     max |-> Min({IF s[c].max = None THEN Highest ELSE s[c].max}
                   \union {i.value_max : i \in {x \in On(items, c) : HasMax(x)}})]

UndefinedColumn(s, items) == \E i \in items : i.column \notin DOMAIN s

EmptyRange(s, items) ==
    \E c \in Numeric(s) : ColumnRange(s, c, items).min >= ColumnRange(s, c, items).max

(***************************************************************************)
(* RectangularSampler.  A uniform double is min + u * (max - min), which   *)
(* may round to max; a gaussian one is clamped to the range.  Of an        *)
(* integer column the bounds are truncated, or the gaussian is rounded.    *)
(* Any row may come up: how the values of one row are correlated by their  *)
(* common seed is left open.                                               *)
(***************************************************************************)
Truncate(v) == IF v >= 0 THEN v - (v % 2) ELSE v + (v % 2)
Round(v)    == IF v >= 0 THEN v + (v % 2) ELSE v - (v % 2)

Samples(type, r, distribution) ==
    IF type = "float" THEN r.min..r.max
    ELSE IF distribution = "uniform"
    THEN {v \in Truncate(r.min)..Truncate(r.max) : v % 2 = 0}
    ELSE {Round(v) : v \in r.min..r.max}

Rows(s, items, distribution) ==
    {row \in [Numeric(s) -> Lowest..(Highest + 1)] :
        \A c \in Numeric(s) : row[c] \in Samples(s[c].type, ColumnRange(s, c, items), distribution)}

(***************************************************************************)
(* ValueRangeValidator: rules for the items whose column the schema has,   *)
(* and the pairs of a row and a rule it fails.                             *)
(***************************************************************************)
FailsIfStrictlyOutside(i, v) ==   \* variant: min_strict and max_strict are not set
    (HasMin(i) /\ v < i.value_min) \/ (HasMax(i) /\ v > i.value_max)

FailsAtBounds(i, v) ==   \* variant: every bound is strict
    (HasMin(i) /\ v <= i.value_min) \/ (HasMax(i) /\ v >= i.value_max)

Fails(i, v) ==
    \/ HasMin(i) /\ (v < i.value_min \/ (Strict(i) /\ v = i.value_min))
    \/ HasMax(i) /\ (v > i.value_max \/ (Strict(i) /\ v = i.value_max))

Rules(s, items) == {i \in items : i.column \in DOMAIN s}

rows_failed(rules, table) ==
    {p \in (DOMAIN table) \X rules :
        LET row == table[p[1]] IN
        p[2].column \in DOMAIN row /\ Fails(p[2], row[p[2].column])}

\* The ranges a package states (constraint_summary).
Summary(s) ==
    {[column |-> c, min |-> s[c].min, max |-> s[c].max] :
        c \in {k \in DOMAIN s : s[k].min # None /\ s[k].max # None}}

-----------------------------------------------------------------------------
Init ==
    /\ schemas = [t \in TypeNames |-> None]
    /\ constraints = [c \in ConstraintNames |-> None]
    /\ request = None

At(step) == request # None /\ request.step = step

Ended == request # None => request.step = "ended"

define_type(t, columns) ==
    /\ ValidSchema(SchemaOf(columns))
    /\ schemas' = [schemas EXCEPT ![t] = SchemaOf(columns)]
    /\ request' = IF Ended THEN None ELSE request
    /\ UNCHANGED constraints

\* The columns are not looked at, and neither is an older constraint of the name.
\* A generate under way has its own copies, so Ended leaves no behaviour out.
define_constraint(name, t, checks) ==
    /\ Ended
    /\ schemas[t] # None
    /\ checks # {}
    /\ \E op \in [checks -> Operators] :
          constraints' = [constraints EXCEPT ![name] = {Item(k, op[k]) : k \in checks}]
    /\ request' = None
    /\ UNCHANGED schemas

\* The type a constraint was defined for is not compared with the type asked for.
generate(t, names) ==
    /\ Ended
    /\ schemas[t] # None
    /\ \A c \in names : constraints[c] # None
    /\ request' = [step |-> "sample", type |-> t,
                   items |-> UNION {constraints[c] : c \in names},
                   sampled |-> None, table |-> <<>>, rules |-> {}, described |-> None,
                   outcome |-> "pending"]
    /\ UNCHANGED <<schemas, constraints>>

\* The schema that the reference held by the request leads to now.
Current == schemas[request.type]

\* RectangularSampler::generate; what the request says of limit and distribution
\* is looked at here only.
Sample(limit, distribution) ==
    LET items == request.items
        Moves(step, outcome, table) ==
            request' = [request EXCEPT !.step = step, !.outcome = outcome, !.table = table,
                                       !.sampled = Current]
    IN /\ At("sample")
       /\ IF UndefinedColumn(Current, items) THEN Moves("ended", "undefined column", <<>>)
          ELSE IF EmptyRange(Current, items) THEN Moves("ended", "empty range", <<>>)
          ELSE \E table \in [1..limit -> Rows(Current, items, distribution)] :
                  Moves("validate", "pending", table)
       /\ UNCHANGED <<schemas, constraints>>

Validate ==
    /\ At("validate")
    /\ request' = [request EXCEPT !.step = "build", !.rules = Rules(Current, request.items)]
    /\ UNCHANGED <<schemas, constraints>>

\* The tail report hands on the number of failed rows, and validate_honesty rejects
\* a package unless it is 0; its other tests concern constants.
Build ==
    /\ At("build")
    /\ request' = [request EXCEPT !.step = "ended", !.described = Current,
            !.outcome = IF rows_failed(request.rules, request.table) = {}
                        THEN "issued" ELSE "rows failed"]
    /\ UNCHANGED <<schemas, constraints>>

(***************************************************************************)
(* The handlers.  A body that is no JSON object is answered with 400; a    *)
(* field of the wrong type counts as absent, so that a bound may be None.  *)
(***************************************************************************)
PostTypes == \E t \in TypeNames, columns \in ColumnChoices : define_type(t, columns)

PostConstraints ==
    \E name \in ConstraintNames, t \in TypeNames, checks \in CheckChoices :
        define_constraint(name, t, checks)

PostGenerate == \E t \in TypeNames, names \in SUBSET ConstraintNames : generate(t, names)

GenerateGoesOn ==
    \/ \E limit \in 1..MaxRows, distribution \in {"uniform", "gaussian"} :
          Sample(limit, distribution)
    \/ Validate
    \/ Build

Next == PostTypes \/ PostConstraints \/ PostGenerate \/ GenerateGoesOn

Spec == Init /\ [][Next]_vars

-----------------------------------------------------------------------------
BothGiven(s, c) == s[c].min # None /\ s[c].max # None

TypeOK ==
    /\ schemas \in [TypeNames -> {SchemaOf(c) : c \in ColumnChoices} \union {None}]
    /\ \A t \in TypeNames : schemas[t] # None =>
          \A c \in DOMAIN schemas[t] :
              BothGiven(schemas[t], c) => schemas[t][c].min < schemas[t][c].max
    /\ \A c \in ConstraintNames : constraints[c] # None =>
          \A i \in constraints[c] : i.op \in Operators
    /\ request # None => request.outcome \in {"pending", "issued", "rows failed",
                                              "undefined column", "empty range"}

\* The values of the rows of the request in column c.
Generated(c) == {request.table[r][c] : r \in DOMAIN request.table}

Issued == request # None /\ request.outcome = "issued"

\* An evidence package is only issued for rows that satisfy every item of the
\* constraints asked for and, where the item's operator came out as BETWEEN, the
\* range the caller gave, redefinitions before and during the request included;
\* except in columns the type has lost when the validator reads it.
PackageHonest ==
    Issued => \A i \in request.rules : i.column \in Numeric(request.sampled) =>
        \A v \in Generated(i.column) :
            /\ i.op = "between" =>
                  /\ i.check.min # None => i.check.min <= v
                  /\ i.check.max # None => v <= i.check.max
            /\ i.op = "greater" => i.value_min < v
            /\ i.op = "greater_equal" => i.value_min <= v
            /\ i.op = "less" => v < i.value_max
            /\ i.op = "less_equal" => v <= i.value_max

\* The rows obey the ranges that the package states of them, if the type read for
\* the package is the one the rows were made for, and an integer column's bounds
\* are whole.
SummaryHonest ==
    Issued /\ request.described = request.sampled =>
        \A range \in Summary(request.described) :
            LET type == request.sampled[range.column].type IN
            type = "float" \/ (type = "int" /\ range.min % 2 = 0 /\ range.max % 2 = 0) =>
                \A v \in Generated(range.column) : range.min <= v /\ v <= range.max

\* Where every bound of an item is a whole number and no operator is strict, no table
\* is ever thrown away, whatever the bounds of the type, and whatever the type becomes
\* before the rows are validated.
WholeBoundsSuffice ==
    request # None /\ request.outcome = "rows failed" =>
        \E i \in request.items : Strict(i) \/ i.value_min % 2 # 0 \/ i.value_max % 2 # 0

\* "Empty range" is reported only if for some column at most one value satisfies the
\* schema and every item: the bounds of several constraints are intersected exactly.
EmptyRangeIsEmpty ==
    request # None /\ request.outcome = "empty range" =>
        \E c \in Numeric(request.sampled) :
            LET col == request.sampled[c] IN
            Cardinality({v \in Lowest..Highest :
                /\ col.min = None \/ col.min <= v
                /\ col.max = None \/ v <= col.max
                /\ \A i \in On(request.items, c) :
                      (HasMin(i) => i.value_min <= v) /\ (HasMax(i) => v <= i.value_max)}) <= 1
=============================================================================
