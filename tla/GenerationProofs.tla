-------------------------- MODULE GenerationProofs --------------------------
(***************************************************************************)
(* Type correctness of the service, and the honesty of its evidence        *)
(* packages, for all types, constraints, operators and numbers of rows.    *)
(***************************************************************************)
EXTENDS Generation, FiniteSetTheorems, TLAPS

Items == {Item(k, op) : k \in UNION CheckChoices, op \in Operators}

Schemas == {SchemaOf(c) : c \in ColumnChoices}

\* What define_type lets through.
SchemaInv ==
    /\ schemas \in [TypeNames -> Schemas \union {None}]
    /\ \A t \in TypeNames : schemas[t] # None => ValidSchema(schemas[t])

IsRequest(r) ==
    r = [step |-> r.step, type |-> r.type, items |-> r.items, sampled |-> r.sampled,
         table |-> r.table, rules |-> r.rules, described |-> r.described,
         outcome |-> r.outcome]

\* A request has items of known constraints, and rows with a number for every
\* numeric column; once it has rules they are items of it, and its package was
\* issued only if no row failed one.
RequestOK(r) ==
    /\ IsRequest(r)
    /\ r.items \subseteq Items
    /\ r.rules \subseteq Items
    /\ r.outcome \in {"pending", "issued", "rows failed", "undefined column", "empty range"}
    /\ \A n \in DOMAIN r.table : r.table[n] \in [Numeric(r.sampled) -> Int]
    /\ r.step # "ended" => r.outcome = "pending"
    /\ r.outcome = "issued" => rows_failed(r.rules, r.table) = {}

RequestInv == request # None => RequestOK(request)

GenerationInv ==
    /\ SchemaInv
    /\ constraints \in [ConstraintNames -> (SUBSET Items) \union {None}]
    /\ RequestInv

-----------------------------------------------------------------------------
\* The sampler fills the numeric columns, and only these, with numbers.
LEMMA RowsAreNumbers ==
    ASSUME NEW s, NEW items, NEW distribution
    PROVE  Rows(s, items, distribution) \subseteq [Numeric(s) -> Int]
<1> DEFINE V == Lowest..(Highest + 1)
<1>1. V \subseteq Int
  BY NumbersAssumption
<1>2. Rows(s, items, distribution) \subseteq [Numeric(s) -> V]
  BY DEF Rows
<1> QED BY <1>1, <1>2

LEMMA InitOK == Init => GenerationInv
BY DEF Init, GenerationInv, SchemaInv, RequestInv

\* generate begins a request with copies of the items.
LEMMA RequestBegins ==
    ASSUME GenerationInv, NEW t \in TypeNames, NEW names \in SUBSET ConstraintNames,
           generate(t, names)
    PROVE  GenerationInv'
<1> DEFINE all == UNION {constraints[c] : c \in names}
<1>1. all \subseteq Items
  BY DEF GenerationInv, generate
<1>2. RequestOK(request)'
  <2> DEFINE r == [step |-> "sample", type |-> t, items |-> all, sampled |-> None,
                   table |-> <<>>, rules |-> {}, described |-> None, outcome |-> "pending"]
  <2> HIDE DEF all
  <2>1. request' = r
    BY DEF generate, all
  <2>2. RequestOK(r)
    <3>1. r.outcome = "pending" /\ r.table = <<>> /\ r.rules = {} /\ r.items = all
      OBVIOUS
    <3>2. DOMAIN r.table = {}
      BY <3>1
    <3>3. r.outcome # "issued" \/ rows_failed(r.rules, r.table) = {}
      BY <3>1, <3>2 DEF rows_failed
    <3> QED BY <1>1, <3>1, <3>2, <3>3 DEF RequestOK, IsRequest
  <2> QED BY <2>1, <2>2
<1> QED BY <1>2 DEF GenerationInv, SchemaInv, RequestInv, generate

\* Sample leaves the request without a package.
LEMMA SampleOK ==
    ASSUME GenerationInv, NEW limit \in Nat, NEW distribution, Sample(limit, distribution)
    PROVE  GenerationInv'
<1>1. request # None /\ RequestOK(request)
  BY DEF Sample, At, GenerationInv, RequestInv
<1>2. PICK step, outcome, table :
        /\ request' = [request EXCEPT !.step = step, !.outcome = outcome, !.table = table,
                                      !.sampled = Current]
        /\ outcome \in {"pending", "undefined column", "empty range"}
        /\ step = "ended" \/ outcome = "pending"
        /\ \A n \in DOMAIN table : table[n] \in Rows(Current, request.items, distribution)
  <2> DEFINE P(step, outcome, table) ==
        /\ request' = [request EXCEPT !.step = step, !.outcome = outcome, !.table = table,
                                      !.sampled = Current]
        /\ outcome \in {"pending", "undefined column", "empty range"}
        /\ step = "ended" \/ outcome = "pending"
        /\ \A n \in DOMAIN table : table[n] \in Rows(Current, request.items, distribution)
  <2>1. CASE UndefinedColumn(Current, request.items)
    <3>1. P("ended", "undefined column", <<>>)
      BY <2>1 DEF Sample
    <3> QED BY <3>1
  <2>2. CASE ~UndefinedColumn(Current, request.items) /\ EmptyRange(Current, request.items)
    <3>1. P("ended", "empty range", <<>>)
      BY <2>2 DEF Sample
    <3> QED BY <3>1
  <2>3. CASE ~UndefinedColumn(Current, request.items) /\ ~EmptyRange(Current, request.items)
    <3>1. PICK table \in [1..limit -> Rows(Current, request.items, distribution)] :
            request' = [request EXCEPT !.step = "validate", !.outcome = "pending", !.table = table,
                                       !.sampled = Current]
      BY <2>3 DEF Sample
    <3>2. P("validate", "pending", table)
      BY <3>1
    <3> QED BY <3>2
  <2> QED BY <2>1, <2>2, <2>3
<1>3. \A n \in DOMAIN table : table[n] \in [Numeric(Current) -> Int]
  BY <1>2, RowsAreNumbers
<1>4. RequestOK(request)'
  <2> DEFINE r == [step |-> step, type |-> request.type, items |-> request.items,
                   sampled |-> Current, table |-> table, rules |-> request.rules,
                   described |-> request.described, outcome |-> outcome]
  <2>1. request' = r
    BY <1>1, <1>2 DEF RequestOK, IsRequest
  <2>2. outcome # "issued"
    BY <1>2
  <2>3. RequestOK(r)
    BY <1>1, <1>2, <1>3, <2>2 DEF RequestOK, IsRequest
  <2> QED BY <2>1, <2>3
<1> QED BY <1>4 DEF GenerationInv, SchemaInv, RequestInv, Sample

\* The rules are items the request has.
LEMMA ValidateOK ==
    ASSUME GenerationInv, Validate
    PROVE  GenerationInv'
<1>1. request # None /\ RequestOK(request)
  BY DEF Validate, At, GenerationInv, RequestInv
<1>2. request.outcome = "pending"
  BY <1>1 DEF Validate, At, RequestOK
<1>3. RequestOK(request)'
  <2> DEFINE r == [step |-> "build", type |-> request.type, items |-> request.items,
                   sampled |-> request.sampled, table |-> request.table,
                   rules |-> Rules(Current, request.items),
                   described |-> request.described, outcome |-> request.outcome]
  <2>1. request' = r
    BY <1>1 DEF RequestOK, IsRequest, Validate
  <2>2. RequestOK(r)
    BY <1>1, <1>2 DEF RequestOK, IsRequest, Rules
  <2> QED BY <2>1, <2>2
<1> QED BY <1>3 DEF GenerationInv, SchemaInv, RequestInv, Validate

\* A package is issued only if no row of the request failed a rule.
LEMMA BuildOK ==
    ASSUME GenerationInv, Build
    PROVE  GenerationInv'
<1>1. request # None /\ RequestOK(request)
  BY DEF Build, At, GenerationInv, RequestInv
<1>2. RequestOK(request)'
  <2> DEFINE o == IF rows_failed(request.rules, request.table) = {}
                  THEN "issued" ELSE "rows failed"
             r == [step |-> "ended", type |-> request.type, items |-> request.items,
                   sampled |-> request.sampled, table |-> request.table,
                   rules |-> request.rules, described |-> Current, outcome |-> o]
  <2>1. request' = r
    BY <1>1 DEF RequestOK, IsRequest, Build
  <2>2. RequestOK(r)
    BY <1>1 DEF RequestOK, IsRequest
  <2> QED BY <2>1, <2>2
<1> QED BY <1>2 DEF GenerationInv, SchemaInv, RequestInv, Build

LEMMA DefineTypeOK ==
    ASSUME GenerationInv, NEW t \in TypeNames, NEW columns \in ColumnChoices,
           define_type(t, columns)
    PROVE  GenerationInv'
<1>1. SchemaInv'
  BY DEF GenerationInv, SchemaInv, define_type, Schemas
<1>2. RequestInv'
  BY DEF GenerationInv, RequestInv, define_type
<1> QED BY <1>1, <1>2 DEF GenerationInv, define_type

LEMMA DefineConstraintOK ==
    ASSUME GenerationInv, NEW name \in ConstraintNames, NEW t \in TypeNames,
           NEW checks \in CheckChoices, define_constraint(name, t, checks)
    PROVE  GenerationInv'
<1>1. PICK op \in [checks -> Operators] :
        constraints' = [constraints EXCEPT ![name] = {Item(k, op[k]) : k \in checks}]
  BY DEF define_constraint
<1>2. {Item(k, op[k]) : k \in checks} \subseteq Items
  BY DEF Items
<1>3. constraints' \in [ConstraintNames -> (SUBSET Items) \union {None}]
  BY <1>1, <1>2 DEF GenerationInv
<1> QED BY <1>3 DEF GenerationInv, SchemaInv, RequestInv, define_constraint

\* Every action keeps the invariant.
LEMMA GenerationInductive == Spec => []GenerationInv
<1>1. GenerationInv /\ [Next]_vars => GenerationInv'
  <2> SUFFICES ASSUME GenerationInv, [Next]_vars PROVE GenerationInv'
    OBVIOUS
  <2>1. CASE UNCHANGED vars
    BY <2>1 DEF vars, GenerationInv, SchemaInv, RequestInv
  <2>2. CASE \E t \in TypeNames, columns \in ColumnChoices : define_type(t, columns)
    BY <2>2, DefineTypeOK
  <2>3. CASE \E name \in ConstraintNames, t \in TypeNames, checks \in CheckChoices :
                define_constraint(name, t, checks)
    BY <2>3, DefineConstraintOK
  <2>4. CASE \E t \in TypeNames, names \in SUBSET ConstraintNames : generate(t, names)
    BY <2>4, RequestBegins
  <2>5. CASE \E limit \in 1..MaxRows, distribution \in {"uniform", "gaussian"} :
                Sample(limit, distribution)
    <3>1. 1..MaxRows \subseteq Nat
      BY NumbersAssumption
    <3> QED BY <2>5, <3>1, SampleOK
  <2>6. CASE Validate
    BY <2>6, ValidateOK
  <2>7. CASE Build
    BY <2>7, BuildOK
  <2> QED BY <2>1, <2>2, <2>3, <2>4, <2>5, <2>6, <2>7
           DEF Next, PostTypes, PostConstraints, PostGenerate, GenerateGoesOn
<1> QED BY InitOK, <1>1, PTL DEF Spec

-----------------------------------------------------------------------------
\* The maps of the service hold what define_type and define_constraint let
\* through, and a request ends in one of the ways generate has.
THEOREM TypeCorrect == Spec => []TypeOK
<1>1. GenerationInv => TypeOK
  <2> SUFFICES ASSUME GenerationInv PROVE TypeOK
    OBVIOUS
  <2>1. \A i \in Items : i.op \in Operators
    BY DEF Items, Item
  <2>2. \A c \in ConstraintNames : constraints[c] # None =>
            \A i \in constraints[c] : i.op \in Operators
    BY <2>1 DEF GenerationInv
  <2>3. \A t \in TypeNames : schemas[t] # None =>
            \A c \in DOMAIN schemas[t] :
                BothGiven(schemas[t], c) => schemas[t][c].min < schemas[t][c].max
    BY DEF GenerationInv, SchemaInv, ValidSchema, BothGiven
  <2>4. request # None => request.outcome \in {"pending", "issued", "rows failed",
                                               "undefined column", "empty range"}
    BY DEF GenerationInv, RequestInv, RequestOK
  <2> QED BY <2>2, <2>3, <2>4 DEF TypeOK, GenerationInv, SchemaInv, Schemas
<1> QED BY <1>1, GenerationInductive, PTL

\* What the item of a rule and a value that does not fail it say of each other.
LEMMA PassedMeansObeyed ==
    ASSUME NEW i \in Items, NEW v \in Int, ~Fails(i, v)
    PROVE  /\ i.op = "between" =>
                 /\ i.check.min # None => i.check.min <= v
                 /\ i.check.max # None => v <= i.check.max
           /\ i.op = "greater" => i.value_min < v
           /\ i.op = "greater_equal" => i.value_min <= v
           /\ i.op = "less" => v < i.value_max
           /\ i.op = "less_equal" => v <= i.value_max
<1>1. PICK k \in UNION CheckChoices, op \in Operators : i = Item(k, op)
  BY DEF Items
<1>2. {k.min, k.max} \subseteq Int \union {None}
  BY CheckAssumption
<1>3. /\ i.op = op /\ i.check = k
      /\ i.value_min = ZeroIfNone(k.min) /\ i.value_max = ZeroIfNone(k.max)
  BY <1>1 DEF Item
<1>4. i.value_min \in Int /\ i.value_max \in Int
  BY <1>2, <1>3 DEF ZeroIfNone
<1>5. /\ i.check.min # None => i.check.min = i.value_min
      /\ i.check.max # None => i.check.max = i.value_max
  BY <1>3 DEF ZeroIfNone
<1>6. /\ HasMin(i) => i.value_min <= v /\ (Strict(i) => i.value_min # v)
      /\ HasMax(i) => v <= i.value_max /\ (Strict(i) => i.value_max # v)
  BY <1>4 DEF Fails
<1> QED BY <1>4, <1>5, <1>6 DEF HasMin, HasMax, Strict

\* For every set of types, constraints and operators, and however definitions
\* interleave with requests, a package is issued only for rows that obey every
\* item the validator had a rule for.
THEOREM PackagesAreHonest == Spec => []PackageHonest
<1>1. GenerationInv => PackageHonest
  <2> SUFFICES ASSUME GenerationInv, Issued,
                      NEW i \in request.rules, i.column \in Numeric(request.sampled),
                      NEW v \in Generated(i.column)
               PROVE  i \in Items /\ v \in Int /\ ~Fails(i, v)
    BY PassedMeansObeyed DEF PackageHonest
  <2>1. RequestOK(request) /\ request.outcome = "issued"
    BY DEF Issued, GenerationInv, RequestInv
  <2>2. PICK n \in DOMAIN request.table : v = request.table[n][i.column]
    BY DEF Generated
  <2>3. request.table[n] \in [Numeric(request.sampled) -> Int]
    BY <2>1 DEF RequestOK
  <2>4. i.column \in DOMAIN request.table[n] /\ v \in Int
    BY <2>2, <2>3
  <2>5. <<n, i>> \notin rows_failed(request.rules, request.table)
    BY <2>1 DEF RequestOK
  <2>6. ~Fails(i, v)
    <3>1. <<n, i>> \in (DOMAIN request.table) \X request.rules
      OBVIOUS
    <3> QED BY <3>1, <2>2, <2>4, <2>5 DEF rows_failed
  <2> QED BY <2>1, <2>4, <2>6 DEF RequestOK
<1> QED BY <1>1, GenerationInductive, PTL

-----------------------------------------------------------------------------
(***************************************************************************)
(* Ranges.  A finite set of numbers has a largest and a smallest element:  *)
(* of the subsets without them there would be a minimal one.               *)
(***************************************************************************)
LEMMA Extremes ==
    ASSUME NEW S \in SUBSET Int, IsFiniteSet(S), S # {}
    PROVE  /\ Max(S) \in S /\ \A y \in S : y <= Max(S)
           /\ Min(S) \in S /\ \A y \in S : Min(S) <= y
<1> DEFINE Has(T) == /\ \E x \in T : \A y \in T : x >= y
                     /\ \E x \in T : \A y \in T : x =< y
           U == {T \in SUBSET S : T # {} /\ ~Has(T)}
           R == StrictSubsetOrdering(S)
<1>1. IsWellFoundedOn(R, SUBSET S)
  BY FS_StrictSubsetOrderingWellFounded, FS_FiniteSubsetsOfFinite
<1>2. U = {}
  <2> SUFFICES ASSUME U # {} PROVE FALSE
    OBVIOUS
  <2>1. PICK T \in U : \A W \in U : ~(<<W, T>> \in R)
    <3>1. U \subseteq SUBSET S
      OBVIOUS
    <3> HIDE DEF U, R
    <3> QED BY <1>1, <3>1, WFMin
  <2>2. PICK x \in T : TRUE
    OBVIOUS
  <2>3. T \subseteq Int /\ ~Has(T)
    OBVIOUS
  <2>4. T \ {x} # {}
    <3> SUFFICES ASSUME T \ {x} = {} PROVE FALSE
      OBVIOUS
    <3>1. \A y \in T : x >= y /\ x =< y
      BY <2>2, <2>3
    <3> QED BY <2>2, <2>3, <3>1
  <2>5. <<T \ {x}, T>> \in R
    BY DEF StrictSubsetOrdering
  <2>6. T \ {x} \notin U
    BY <2>1, <2>5
  <2>7. Has(T \ {x})
    BY <2>4, <2>6
  <2>8. PICK m \in T \ {x} : \A y \in T \ {x} : m >= y
    BY <2>7
  <2>9. PICK l \in T \ {x} : \A y \in T \ {x} : l =< y
    BY <2>7
  <2>10. \E h \in T : \A y \in T : h >= y
    <3>1. CASE m >= x
      BY <2>3, <2>8, <3>1
    <3>2. CASE ~(m >= x)
      <4>1. \A y \in T : x >= y
        BY <2>3, <2>8, <3>2
      <4> QED BY <4>1
    <3> QED BY <3>1, <3>2
  <2>11. \E h \in T : \A y \in T : h =< y
    <3>1. CASE l =< x
      BY <2>3, <2>9, <3>1
    <3>2. CASE ~(l =< x)
      <4>1. \A y \in T : x =< y
        BY <2>3, <2>9, <3>2
      <4> QED BY <4>1
    <3> QED BY <3>1, <3>2
  <2> QED BY <2>3, <2>10, <2>11
<1>3. Has(S)
  BY <1>2
<1>4. Max(S) \in S /\ \A y \in S : Max(S) >= y
  BY <1>3 DEF Max
<1>5. Min(S) \in S /\ \A y \in S : Min(S) =< y
  BY <1>3 DEF Min
<1> QED BY <1>4, <1>5

\* The bounds of finitely many items are finitely many.
LEMMA FiniteImages ==
    ASSUME NEW D, IsFiniteSet(D)
    PROVE  IsFiniteSet({i.value_min : i \in D}) /\ IsFiniteSet({i.value_max : i \in D})
<1>1. IsFiniteSet({i.value_min : i \in D})
  <2> DEFINE f == [i \in D |-> i.value_min]
  <2>1. f \in Surjection(D, {i.value_min : i \in D})
    BY DEF Surjection
  <2> QED BY <2>1, FS_Surjection
<1>2. IsFiniteSet({i.value_max : i \in D})
  <2> DEFINE f == [i \in D |-> i.value_max]
  <2>1. f \in Surjection(D, {i.value_max : i \in D})
    BY DEF Surjection
  <2> QED BY <2>1, FS_Surjection
<1> QED BY <1>1, <1>2

\* Of an item the bounds are numbers, given or 0.
LEMMA ItemBounds ==
    ASSUME NEW i \in Items
    PROVE  i.value_min \in Int /\ i.value_max \in Int
<1>1. PICK k \in UNION CheckChoices, op \in Operators : i = Item(k, op)
  BY DEF Items
<1>2. {k.min, k.max} \subseteq Int \union {None}
  BY CheckAssumption
<1>3. i.value_min = ZeroIfNone(k.min) /\ i.value_max = ZeroIfNone(k.max)
  BY <1>1 DEF Item
<1> QED BY <1>2, <1>3 DEF ZeroIfNone

\* Of a column they are numbers or absent.
LEMMA ColumnBounds ==
    ASSUME NEW s \in Schemas, NEW c \in DOMAIN s
    PROVE  s[c].min \in Int \union {None} /\ s[c].max \in Int \union {None}
<1>1. PICK columns \in ColumnChoices : s = SchemaOf(columns)
  BY DEF Schemas
<1>2. c \in DOMAIN columns /\ s[c] = [columns[c] EXCEPT !.type = DataType(@)]
  BY <1>1 DEF SchemaOf
<1>3. columns[c] \in [type : STRING, min : Int \union {None}, max : Int \union {None},
                       enum_values : SUBSET STRING]
  BY <1>2, ColumnAssumption
<1> QED BY <1>2, <1>3

\* The range of a column lies within the schema's and every item's bounds, and
\* any number within all of these lies in it.
LEMMA RangeBounds ==
    ASSUME NEW s \in Schemas, NEW c \in DOMAIN s, NEW items \in SUBSET Items, IsFiniteSet(items)
    PROVE  LET r == ColumnRange(s, c, items) IN
           /\ r.min \in Int /\ r.max \in Int
           /\ s[c].min # None => s[c].min <= r.min
           /\ s[c].max # None => r.max <= s[c].max
           /\ \A i \in On(items, c) : /\ HasMin(i) => i.value_min <= r.min
                                      /\ HasMax(i) => r.max <= i.value_max
           /\ \A v \in Lowest..Highest :
                 /\ s[c].min = None \/ s[c].min <= v
                 /\ s[c].max = None \/ v <= s[c].max
                 /\ \A i \in On(items, c) :
                       (HasMin(i) => i.value_min <= v) /\ (HasMax(i) => v <= i.value_max)
                 => r.min <= v /\ v <= r.max
<1> DEFINE low   == IF s[c].min = None THEN Lowest ELSE s[c].min
           high  == IF s[c].max = None THEN Highest ELSE s[c].max
           mins  == {i.value_min : i \in {x \in On(items, c) : HasMin(x)}}
           maxs  == {i.value_max : i \in {x \in On(items, c) : HasMax(x)}}
           r     == ColumnRange(s, c, items)
<1>1. low \in Int /\ high \in Int
  BY ColumnBounds, NumbersAssumption
<1>2. On(items, c) \subseteq Items
  BY DEF On
<1>3. mins \subseteq Int /\ maxs \subseteq Int
  BY <1>2, ItemBounds
<1>4. IsFiniteSet(mins) /\ IsFiniteSet(maxs)
  <2>1. /\ IsFiniteSet({x \in On(items, c) : HasMin(x)})
        /\ IsFiniteSet({x \in On(items, c) : HasMax(x)})
    BY FS_Subset DEF On
  <2>2. \A D : IsFiniteSet(D) => /\ IsFiniteSet({i.value_min : i \in D})
                                 /\ IsFiniteSet({i.value_max : i \in D})
    BY FiniteImages
  <2> QED BY <2>1, <2>2
<1>5. IsFiniteSet({low} \union mins) /\ IsFiniteSet({high} \union maxs)
  BY <1>4, FS_Singleton, FS_Union
<1>6. r.min = Max({low} \union mins) /\ r.max = Min({high} \union maxs)
  BY DEF ColumnRange
<1>7. /\ r.min \in {low} \union mins /\ \A y \in {low} \union mins : y <= r.min
      /\ r.max \in {high} \union maxs /\ \A y \in {high} \union maxs : r.max <= y
  <2>1. {low} \union mins \in SUBSET Int /\ {high} \union maxs \in SUBSET Int
    BY <1>1, <1>3
  <2> HIDE DEF low, high, mins, maxs, r
  <2>2. /\ Max({low} \union mins) \in {low} \union mins
        /\ \A y \in {low} \union mins : y <= Max({low} \union mins)
    BY ONLY <1>5, <2>1, Extremes
  <2>3. /\ Min({high} \union maxs) \in {high} \union maxs
        /\ \A y \in {high} \union maxs : Min({high} \union maxs) <= y
    BY ONLY <1>5, <2>1, Extremes
  <2> QED BY ONLY <1>6, <2>2, <2>3
<1> HIDE DEF r
<1>8. r.min \in Int /\ r.max \in Int
  BY <1>1, <1>3, <1>7
<1>9. ASSUME NEW v \in Lowest..Highest, s[c].min = None \/ s[c].min <= v,
             s[c].max = None \/ v <= s[c].max,
             \A i \in On(items, c) :
                (HasMin(i) => i.value_min <= v) /\ (HasMax(i) => v <= i.value_max)
      PROVE  r.min <= v /\ v <= r.max
  <2>1. low <= v /\ v <= high
    BY <1>9, NumbersAssumption
  <2>2. (\A y \in mins : y <= v) /\ (\A y \in maxs : v <= y)
    BY <1>9
  <2> QED BY <1>7, <2>1, <2>2
<1> QED BY <1>7, <1>8, <1>9 DEF r

\* Truncating and rounding do not pass a whole number.
LEMMA WholeStays ==
    ASSUME NEW v \in Int, NEW b \in Int, b % 2 = 0
    PROVE  /\ b <= v => b <= Truncate(v) /\ b <= Round(v)
           /\ v <= b => Truncate(v) <= b /\ Round(v) <= b
           /\ Truncate(v) \in Int /\ Round(v) \in Int
<1>1. v % 2 \in {0, 1}
  OBVIOUS
<1>2. (v % 2 = 1) => v # b
  OBVIOUS
<1>3. v % 2 = 1 /\ b <= v => b <= v - 1
  BY <1>2
<1>4. v % 2 = 1 /\ v <= b => v + 1 <= b
  BY <1>2
<1> QED BY <1>1, <1>3, <1>4 DEF Truncate, Round

\* What is drawn from a range obeys the bounds around it, of an integer column
\* those that are whole numbers.
LEMMA SamplesWithin ==
    ASSUME NEW type, NEW r, r.min \in Int, r.max \in Int,
           NEW distribution, NEW v \in Samples(type, r, distribution),
           NEW b \in Int, type = "float" \/ b % 2 = 0
    PROVE  (b <= r.min => b <= v) /\ (r.max <= b => v <= b)
<1>1. CASE type = "float"
  BY <1>1 DEF Samples
<1>2. CASE type # "float" /\ distribution = "uniform"
  <2>1. v \in Truncate(r.min)..Truncate(r.max)
    BY <1>2 DEF Samples
  <2> QED BY <1>2, <2>1, WholeStays
<1>3. CASE type # "float" /\ distribution # "uniform"
  <2>1. PICK w \in r.min..r.max : v = Round(w)
    BY <1>3 DEF Samples
  <2> QED BY <1>3, <2>1, WholeStays
<1> QED BY <1>1, <1>2, <1>3

-----------------------------------------------------------------------------
(***************************************************************************)
(* What a request keeps of the type and the items it was sampled from.     *)
(***************************************************************************)
RangesOK(r) ==
    /\ IsFiniteSet(r.items) /\ r.rules \subseteq r.items
    /\ r.step # "sample" => r.sampled \in Schemas
    /\ \A n \in DOMAIN r.table : r.step # "sample" /\
          \E d \in {"uniform", "gaussian"} : r.table[n] \in Rows(r.sampled, r.items, d)
    /\ r.outcome = "rows failed" => rows_failed(r.rules, r.table) # {}
    /\ r.outcome = "empty range" => r.step # "sample" /\ EmptyRange(r.sampled, r.items)

RangeInv ==
    /\ \A c \in ConstraintNames : constraints[c] # None => IsFiniteSet(constraints[c])
    /\ request # None => /\ request.type \in TypeNames /\ schemas[request.type] \in Schemas
                         /\ RangesOK(request)

\* generate copies finitely many items.
LEMMA RangesBegin ==
    ASSUME GenerationInv, RangeInv, NEW t \in TypeNames, NEW names \in SUBSET ConstraintNames,
           generate(t, names)
    PROVE  RangeInv'
<1> DEFINE all == UNION {constraints[c] : c \in names}
           r == [step |-> "sample", type |-> t, items |-> all, sampled |-> None,
                 table |-> <<>>, rules |-> {}, described |-> None, outcome |-> "pending"]
<1>1. IsFiniteSet(all)
  <2> DEFINE f == [c \in names |-> constraints[c]]
             T == {constraints[c] : c \in names}
  <2>1. IsFiniteSet(names)
    BY FiniteAssumption, FS_Subset
  <2>2. f \in Surjection(names, T)
    BY DEF Surjection
  <2>3. IsFiniteSet(T)
    BY <2>1, <2>2, FS_Surjection
  <2>4. \A x \in T : IsFiniteSet(x)
    BY DEF RangeInv, generate
  <2> HIDE DEF T
  <2>5. IsFiniteSet(UNION T)
    BY <2>3, <2>4, FS_UNION
  <2> QED BY <2>5 DEF T
<1> HIDE DEF all
<1>2. request' = r /\ UNCHANGED <<schemas, constraints>> /\ schemas[t] \in Schemas
  BY DEF generate, all, GenerationInv, SchemaInv
<1>3. RangesOK(r)
  <2>1. /\ r.step = "sample" /\ r.outcome = "pending" /\ r.table = <<>> /\ r.rules = {}
        /\ r.items = all
    OBVIOUS
  <2>2. DOMAIN r.table = {}
    BY <2>1
  <2> HIDE DEF r
  <2> QED BY <1>1, <2>1, <2>2 DEF RangesOK
<1> QED BY <1>2, <1>3 DEF RangeInv

\* Sample draws from the ranges of the type it reads.
LEMMA RangesSampled ==
    ASSUME GenerationInv, RangeInv, NEW limit \in Nat,
           NEW distribution \in {"uniform", "gaussian"}, Sample(limit, distribution)
    PROVE  RangeInv'
<1>1. /\ request # None /\ IsRequest(request) /\ RangesOK(request)
      /\ request.type \in TypeNames /\ schemas[request.type] \in Schemas
  BY DEF Sample, At, GenerationInv, RequestInv, RequestOK, RangeInv
<1>2. Current \in Schemas
  BY <1>1 DEF Current
<1>3. PICK step, outcome, table :
        /\ request' = [request EXCEPT !.step = step, !.outcome = outcome, !.table = table,
                                      !.sampled = Current]
        /\ step # "sample" /\ outcome # "rows failed"
        /\ outcome = "empty range" => EmptyRange(Current, request.items)
        /\ \A n \in DOMAIN table : table[n] \in Rows(Current, request.items, distribution)
  <2> DEFINE P(step, outcome, table) ==
        /\ request' = [request EXCEPT !.step = step, !.outcome = outcome, !.table = table,
                                      !.sampled = Current]
        /\ step # "sample" /\ outcome # "rows failed"
        /\ outcome = "empty range" => EmptyRange(Current, request.items)
        /\ \A n \in DOMAIN table : table[n] \in Rows(Current, request.items, distribution)
  <2>1. CASE UndefinedColumn(Current, request.items)
    <3>1. P("ended", "undefined column", <<>>)
      BY <2>1 DEF Sample
    <3> QED BY <3>1
  <2>2. CASE ~UndefinedColumn(Current, request.items) /\ EmptyRange(Current, request.items)
    <3>1. P("ended", "empty range", <<>>)
      BY <2>2 DEF Sample
    <3> QED BY <3>1
  <2>3. CASE ~UndefinedColumn(Current, request.items) /\ ~EmptyRange(Current, request.items)
    <3>1. PICK table \in [1..limit -> Rows(Current, request.items, distribution)] :
            request' = [request EXCEPT !.step = "validate", !.outcome = "pending", !.table = table,
                                       !.sampled = Current]
      BY <2>3 DEF Sample
    <3>2. P("validate", "pending", table)
      BY <3>1
    <3> QED BY <3>2
  <2> QED BY <2>1, <2>2, <2>3
<1> DEFINE r == [step |-> step, type |-> request.type, items |-> request.items,
                 sampled |-> Current, table |-> table, rules |-> request.rules,
                 described |-> request.described, outcome |-> outcome]
<1>4. request' = r
  BY <1>1, <1>3 DEF IsRequest
<1>5. RangesOK(r)
  BY <1>1, <1>2, <1>3 DEF RangesOK
<1> QED BY <1>1, <1>4, <1>5 DEF RangeInv, Sample

LEMMA RangesValidated ==
    ASSUME GenerationInv, RangeInv, Validate
    PROVE  RangeInv'
<1>1. /\ request # None /\ IsRequest(request) /\ RangesOK(request) /\ request.step = "validate"
      /\ request.outcome = "pending"
      /\ request.type \in TypeNames /\ schemas[request.type] \in Schemas
  BY DEF Validate, At, GenerationInv, RequestInv, RequestOK, RangeInv
<1> DEFINE r == [step |-> "build", type |-> request.type, items |-> request.items,
                 sampled |-> request.sampled, table |-> request.table,
                 rules |-> Rules(Current, request.items),
                 described |-> request.described, outcome |-> request.outcome]
<1>2. request' = r
  BY <1>1 DEF IsRequest, Validate
<1>3. RangesOK(r)
  BY <1>1 DEF RangesOK, Rules
<1> QED BY <1>1, <1>2, <1>3 DEF RangeInv, Validate

LEMMA RangesBuilt ==
    ASSUME GenerationInv, RangeInv, Build
    PROVE  RangeInv'
<1>1. /\ request # None /\ IsRequest(request) /\ RangesOK(request) /\ request.step = "build"
      /\ request.type \in TypeNames /\ schemas[request.type] \in Schemas
  BY DEF Build, At, GenerationInv, RequestInv, RequestOK, RangeInv
<1> DEFINE o == IF rows_failed(request.rules, request.table) = {}
                THEN "issued" ELSE "rows failed"
           r == [step |-> "ended", type |-> request.type, items |-> request.items,
                 sampled |-> request.sampled, table |-> request.table,
                 rules |-> request.rules, described |-> Current, outcome |-> o]
<1>2. request' = r
  BY <1>1 DEF IsRequest, Build
<1>3. RangesOK(r)
  BY <1>1 DEF RangesOK
<1> QED BY <1>1, <1>2, <1>3 DEF RangeInv, Build

LEMMA RangesInductive == Spec => []RangeInv
<1>1. Init => RangeInv
  BY DEF Init, RangeInv
<1>2. GenerationInv /\ RangeInv /\ [Next]_vars => RangeInv'
  <2> SUFFICES ASSUME GenerationInv, RangeInv, [Next]_vars PROVE RangeInv'
    OBVIOUS
  <2>1. CASE UNCHANGED vars
    BY <2>1 DEF vars, RangeInv
  <2>2. CASE PostTypes
    <3>1. PICK t \in TypeNames, columns \in ColumnChoices : define_type(t, columns)
      BY <2>2 DEF PostTypes
    <3>2. SchemaOf(columns) \in Schemas
      BY DEF Schemas
    <3> QED BY <3>1, <3>2 DEF define_type, RangeInv, GenerationInv, SchemaInv
  <2>3. CASE PostConstraints
    <3>1. PICK name \in ConstraintNames, t \in TypeNames, checks \in CheckChoices :
             define_constraint(name, t, checks)
      BY <2>3 DEF PostConstraints
    <3>2. PICK op \in [checks -> Operators] :
             constraints' = [constraints EXCEPT ![name] = {Item(k, op[k]) : k \in checks}]
      BY <3>1 DEF define_constraint
    <3>3. IsFiniteSet({Item(k, op[k]) : k \in checks})
      <4> DEFINE f == [k \in checks |-> Item(k, op[k])]
      <4>1. f \in Surjection(checks, {Item(k, op[k]) : k \in checks})
        BY DEF Surjection
      <4>2. IsFiniteSet(checks)
        BY FiniteAssumption
      <4> QED BY <4>1, <4>2, FS_Surjection
    <3> QED BY <3>1, <3>2, <3>3 DEF define_constraint, RangeInv, GenerationInv
  <2>4. CASE PostGenerate
    BY <2>4, RangesBegin DEF PostGenerate
  <2>5. CASE \E limit \in 1..MaxRows, distribution \in {"uniform", "gaussian"} :
                Sample(limit, distribution)
    <3>1. 1..MaxRows \subseteq Nat
      BY NumbersAssumption
    <3> QED BY <2>5, <3>1, RangesSampled
  <2>6. CASE Validate
    BY <2>6, RangesValidated
  <2>7. CASE Build
    BY <2>7, RangesBuilt
  <2> QED BY <2>1, <2>2, <2>3, <2>4, <2>5, <2>6, <2>7 DEF Next, GenerateGoesOn
<1> QED BY <1>1, <1>2, GenerationInductive, PTL DEF Spec

-----------------------------------------------------------------------------
\* A row holds, for every numeric column of the type it was made for, a value
\* drawn from the column's range.
LEMMA RowWithin ==
    ASSUME GenerationInv, RangeInv, request # None, NEW n \in DOMAIN request.table,
           NEW c \in Numeric(request.sampled), NEW b \in Int,
           request.sampled[c].type = "float" \/ b % 2 = 0
    PROVE  LET r == ColumnRange(request.sampled, c, request.items) IN
           /\ r.min \in Int /\ r.max \in Int /\ request.table[n][c] \in Int
           /\ b <= r.min => b <= request.table[n][c]
           /\ r.max <= b => request.table[n][c] <= b
<1> DEFINE r == ColumnRange(request.sampled, c, request.items)
<1>1. RequestOK(request) /\ RangesOK(request)
  BY DEF GenerationInv, RequestInv, RangeInv
<1>2. /\ request.sampled \in Schemas /\ request.items \in SUBSET Items
      /\ IsFiniteSet(request.items) /\ c \in DOMAIN request.sampled
  BY <1>1 DEF RangesOK, RequestOK, Numeric
<1>3. PICK d \in {"uniform", "gaussian"} :
         request.table[n][c] \in Samples(request.sampled[c].type, r, d)
  BY <1>1 DEF RangesOK, Rows
<1>4. r.min \in Int /\ r.max \in Int
  BY <1>2, RangeBounds
<1>5. request.table[n][c] \in Int
  BY <1>1 DEF RequestOK
<1> HIDE DEF r
<1>6. (b <= r.min => b <= request.table[n][c]) /\ (r.max <= b => request.table[n][c] <= b)
  BY <1>3, <1>4, SamplesWithin
<1> QED BY <1>4, <1>5, <1>6 DEF r

\* However definitions interleave with requests: a package that describes the
\* type its rows were made for states only ranges the rows obey, of an integer
\* column where the bounds are whole.
THEOREM SummariesAreHonest == Spec => []SummaryHonest
<1>1. GenerationInv /\ RangeInv => SummaryHonest
  <2> SUFFICES ASSUME GenerationInv, RangeInv, Issued, request.described = request.sampled,
                      NEW range \in Summary(request.described),
                      \/ request.sampled[range.column].type = "float"
                      \/ /\ request.sampled[range.column].type = "int"
                         /\ range.min % 2 = 0 /\ range.max % 2 = 0,
                      NEW v \in Generated(range.column)
               PROVE  range.min <= v /\ v <= range.max
    BY DEF SummaryHonest
  <2> DEFINE s == request.sampled
  <2>1. PICK c \in DOMAIN s : /\ s[c].min # None /\ s[c].max # None
                              /\ range = [column |-> c, min |-> s[c].min, max |-> s[c].max]
    BY DEF Summary
  <2>2. range.column = c /\ range.min = s[c].min /\ range.max = s[c].max
    BY <2>1
  <2>3. c \in Numeric(s)
    BY <2>2 DEF Numeric
  <2>4. PICK n \in DOMAIN request.table : v = request.table[n][c]
    BY <2>2 DEF Generated
  <2>5. request # None /\ RequestOK(request) /\ RangesOK(request)
    BY DEF Issued, GenerationInv, RequestInv, RangeInv
  <2>6. s \in Schemas /\ request.items \in SUBSET Items /\ IsFiniteSet(request.items)
    BY <2>4, <2>5 DEF RangesOK, RequestOK
  <2>7. range.min \in Int /\ range.max \in Int
    BY <2>1, <2>2, <2>6, ColumnBounds
  <2>8. /\ range.min <= ColumnRange(s, c, request.items).min
        /\ ColumnRange(s, c, request.items).max <= range.max
    BY <2>1, <2>2, <2>6, RangeBounds
  <2>9. range.min <= v
    BY <2>2, <2>3, <2>4, <2>5, <2>7, <2>8, RowWithin
  <2>10. v <= range.max
    BY <2>2, <2>3, <2>4, <2>5, <2>7, <2>8, RowWithin
  <2> QED BY <2>9, <2>10
<1> QED BY <1>1, GenerationInductive, RangesInductive, PTL

\* A table is thrown away only for a strict operator or a bound that is no whole
\* number: otherwise what the sampler draws passes the validator, whatever the
\* type became in between.
THEOREM WholeBoundsPass == Spec => []WholeBoundsSuffice
<1>1. GenerationInv /\ RangeInv => WholeBoundsSuffice
  <2> SUFFICES ASSUME GenerationInv, RangeInv, request # None, request.outcome = "rows failed"
               PROVE  \E i \in request.items :
                         Strict(i) \/ i.value_min % 2 # 0 \/ i.value_max % 2 # 0
    BY DEF WholeBoundsSuffice
  <2> DEFINE s == request.sampled
  <2>1. RequestOK(request) /\ RangesOK(request)
    BY DEF GenerationInv, RequestInv, RangeInv
  <2>2. PICK p \in rows_failed(request.rules, request.table) : TRUE
    BY <2>1 DEF RangesOK
  <2> DEFINE n == p[1]
             i == p[2]
             v == request.table[n][i.column]
  <2>3. /\ n \in DOMAIN request.table /\ i \in request.rules
        /\ i.column \in DOMAIN request.table[n] /\ Fails(i, v)
    BY <2>2 DEF rows_failed
  <2>4. i \in request.items /\ i \in Items /\ i.column \in Numeric(s)
    BY <2>1, <2>3 DEF RangesOK, RequestOK
  <2>5. s \in Schemas /\ request.items \in SUBSET Items /\ IsFiniteSet(request.items)
    BY <2>1, <2>3 DEF RangesOK, RequestOK
  <2>6. i.value_min \in Int /\ i.value_max \in Int
    BY <2>4, ItemBounds
  <2> HIDE DEF n, i, v
  <2> DEFINE r == ColumnRange(s, i.column, request.items)
  <2>7. i \in On(request.items, i.column) /\ i.column \in DOMAIN s
    BY <2>4 DEF On, Numeric
  <2>8. (HasMin(i) => i.value_min <= r.min) /\ (HasMax(i) => r.max <= i.value_max)
    BY <2>5, <2>7, RangeBounds
  <2>9. SUFFICES ASSUME ~Strict(i), i.value_min % 2 = 0, i.value_max % 2 = 0
                 PROVE  FALSE
    BY <2>4
  <2>10. HasMin(i) => i.value_min <= request.table[n][i.column]
    BY <2>3, <2>4, <2>6, <2>8, <2>9, RowWithin
  <2>11. HasMax(i) => request.table[n][i.column] <= i.value_max
    BY <2>3, <2>4, <2>6, <2>8, <2>9, RowWithin
  <2>12. request.table[n][i.column] \in Int
    BY <2>3, <2>4, <2>6, <2>9, RowWithin
  <2>13. /\ v \in Int
         /\ HasMin(i) => i.value_min <= v
         /\ HasMax(i) => v <= i.value_max
    BY <2>10, <2>11, <2>12 DEF v
  <2> QED BY ONLY <2>3, <2>6, <2>9, <2>13 DEF Fails
<1> QED BY <1>1, GenerationInductive, RangesInductive, PTL

\* RangeExtractor says "empty range" only where at most one value would do: it
\* intersects the bounds of the type and of all constraints exactly.
THEOREM EmptyRangesAreEmpty == Spec => []EmptyRangeIsEmpty
<1>1. GenerationInv /\ RangeInv => EmptyRangeIsEmpty
  <2> SUFFICES ASSUME GenerationInv, RangeInv, request # None, request.outcome = "empty range"
               PROVE  EmptyRangeIsEmpty
    BY DEF EmptyRangeIsEmpty
  <2> DEFINE s == request.sampled
             items == request.items
  <2>1. RequestOK(request) /\ RangesOK(request)
    BY DEF GenerationInv, RequestInv, RangeInv
  <2>2. s \in Schemas /\ items \in SUBSET Items /\ IsFiniteSet(items) /\ EmptyRange(s, items)
    BY <2>1 DEF RangesOK, RequestOK
  <2>3. PICK c \in Numeric(s) : ColumnRange(s, c, items).min >= ColumnRange(s, c, items).max
    BY <2>2 DEF EmptyRange
  <2> DEFINE r == ColumnRange(s, c, items)
             V == {v \in Lowest..Highest :
                     /\ s[c].min = None \/ s[c].min <= v
                     /\ s[c].max = None \/ v <= s[c].max
                     /\ \A i \in On(items, c) :
                           (HasMin(i) => i.value_min <= v) /\ (HasMax(i) => v <= i.value_max)}
  <2>4. c \in DOMAIN s
    BY DEF Numeric
  <2>5. r.min \in Int /\ r.max \in Int /\ \A v \in V : r.min <= v /\ v <= r.max
    BY <2>2, <2>4, RangeBounds
  <2>6. V \subseteq Int
    <3>1. V \subseteq Lowest..Highest
      OBVIOUS
    <3>2. Lowest..Highest \subseteq Int
      BY ONLY NumbersAssumption
    <3> HIDE DEF V
    <3> QED BY ONLY <3>1, <3>2
  <2>7. \A v \in V : v = r.min
    <3>1. r.min >= r.max
      BY <2>3
    <3> HIDE DEF V, r
    <3> QED BY ONLY <2>5, <2>6, <3>1
  <2>8. Cardinality(V) <= 1
    <3> HIDE DEF V, r
    <3>1. V \in SUBSET {r.min}
      BY ONLY <2>7
    <3>2. IsFiniteSet({r.min}) /\ Cardinality({r.min}) = 1
      BY ONLY FS_Singleton
    <3> QED BY ONLY <3>1, <3>2, FS_Subset
  <2> QED BY <2>8 DEF EmptyRangeIsEmpty
<1> QED BY <1>1, GenerationInductive, RangesInductive, PTL
=============================================================================
