------------------------------ MODULE RowStream ------------------------------
(***************************************************************************)
(* The two engines that look at more than one row: InterRowEngine          *)
(* (engine/constraint/inter_row_engine.cpp), which filters a batch and     *)
(* hands on the last value it let through, and AggregateEngine             *)
(* (aggregate_engine.cpp), which checks aggregates over windows of time.   *)
(*                                                                         *)
(* A row is [t, v]: the ORDER column of type DATETIME and one FLOAT        *)
(* column.  Sums of the small values used here are exact, so the           *)
(* compensation of rounding errors has nothing to do.                      *)
(***************************************************************************)
EXTENDS Integers, Sequences, FiniteSets, SequencesExt

CONSTANT None   \* no value, no batch, no bound

-----------------------------------------------------------------------------
(***************************************************************************)
(* Inter-row constraints: [column, type, delta].                           *)
(***************************************************************************)
Distance(a, b) == IF a >= b THEN a - b ELSE b - a

check_constraint(c, current, previous) ==
    CASE c.type = "delta_max" -> Distance(current, previous) < c.delta
      [] c.type = "delta_min" -> Distance(current, previous) > c.delta
      [] c.type = "monotone_increase" -> current > previous
      [] c.type = "monotone_decrease" -> current < previous

\* There is an ORDER column, v is the one numeric column, and deltas are positive.
validate_constraints(defs, order) ==
    defs # <<>> =>
        /\ order # "none"
        /\ \A k \in DOMAIN defs :
              /\ defs[k].column = "v"
              /\ defs[k].type \in {"delta_max", "delta_min"} =>
                    defs[k].delta # None /\ defs[k].delta > 0

\* The value that rows are compared with before one of the batch has passed.
Incoming(defs, states, k) ==
    LET of == {j \in DOMAIN states : defs[j].column = defs[k].column /\ states[j] # None}
    IN IF of = {} THEN None ELSE states[CHOOSE j \in of : \A i \in of : i <= j]

RowPassesNext(defs, states, passed, row) ==   \* variant: always against the last batch
    \A k \in DOMAIN defs :
        LET previous == Incoming(defs, states, k)
        IN previous # None => check_constraint(defs[k], row.v, previous)

\* Against the last row that passed: any row does when there is no value at all.
RowPasses(defs, states, passed, row) ==
    \A k \in DOMAIN defs :
        LET previous == IF passed # <<>> THEN Last(passed).v ELSE Incoming(defs, states, k)
        IN previous # None => check_constraint(defs[k], row.v, previous)

PassingRows(defs, states, batch) ==
    FoldLeft(LAMBDA passed, row :
                 IF RowPasses(defs, states, passed, row) THEN Append(passed, row) ELSE passed,
             <<>>, batch)

OutgoingOfBatch(defs, batch, passed) ==   \* variant: the last value, passed or not
    [k \in DOMAIN defs |-> IF batch = <<>> THEN None ELSE Last(batch).v]

\* Nothing passed, or nothing was there: the states that came in are not handed on.
Outgoing(defs, batch, passed) ==
    [k \in DOMAIN defs |-> IF passed = <<>> THEN None ELSE Last(passed).v]

-----------------------------------------------------------------------------
(***************************************************************************)
(* Aggregate constraints: [column, function, interval, min, max].  Windows *)
(* open at the first row and whenever a row is at or past the end of the   *)
(* current one; a window holds indices of rows.                            *)
(***************************************************************************)
StartsLate(batch, start, interval, i) == batch[i].t > batch[start].t + interval   \* variant

StartsWindow(batch, start, interval, i) == batch[i].t >= batch[start].t + interval

\* The first rows of the windows, in order.
WindowStarts(batch, interval) ==
    FoldLeft(LAMBDA starts, i :
                 IF StartsWindow(batch, Last(starts), interval, i) THEN Append(starts, i)
                 ELSE starts,
             <<1>>, [i \in 1..Len(batch) |-> i])

compute_windows(batch, interval, order) ==
    IF batch = <<>> \/ order = "none" THEN <<>>
    ELSE LET starts == WindowStarts(batch, interval)
             End(w) == IF w = Len(starts) THEN Len(batch) ELSE starts[w + 1] - 1
         IN [w \in 1..Len(starts) |->
                [rows |-> starts[w]..End(w),
                 window_start |-> batch[starts[w]].t,
                 window_end |-> batch[starts[w]].t + interval,
                 is_partial |-> w = Len(starts)]]

SumOver(batch, rows) == FoldLeft(LAMBDA sum, i : sum + batch[i].v, 0, SetToSeq(rows))

\* The numerator and the denominator of the aggregate.  No value is read out of
\* the DATETIME column, and the aggregate of no values is 0.
compute_aggregate(batch, rows, c) ==
    LET values == {batch[i].v : i \in rows}
    IN CASE c.column = "t"       -> <<0, 1>>
         [] c.function = "avg"   -> <<SumOver(batch, rows), Cardinality(rows)>>
         [] c.function = "sum"   -> <<SumOver(batch, rows), 1>>
         [] c.function = "min"   -> <<CHOOSE v \in values : \A u \in values : v <= u, 1>>
         [] c.function = "max"   -> <<CHOOSE v \in values : \A u \in values : v >= u, 1>>
         [] c.function = "count" -> <<Cardinality(rows), 1>>

Violated(batch, rows, c) ==
    LET value == compute_aggregate(batch, rows, c)
    IN \/ c.min # None /\ value[1] < c.min * value[2]
       \/ c.max # None /\ value[1] > c.max * value[2]

(***************************************************************************)
(* The windows of one constraint; one whose column does not exist has its  *)
(* windows counted and nothing checked.                                    *)
(***************************************************************************)
Checked(batch, c, order) ==
    LET windows == IF c.interval <= 0 THEN <<>> ELSE compute_windows(batch, c.interval, order)
        known   == c.column \in {"t", "v"}
    IN [windows  |-> IF known THEN windows ELSE <<>>,
        total    |-> Len(windows),
        violated |-> {w \in DOMAIN windows : known /\ Violated(batch, windows[w].rows, c)}]

LastTotal(checked) == Last(checked).total   \* variant: not added up

Total(checked) == FoldLeft(LAMBDA n, k : n + k.total, 0, checked)

ViolatedWindows(checked) == FoldLeft(LAMBDA n, k : n + Cardinality(k.violated), 0, checked)

(***************************************************************************)
(* AggregateEngine::execute.  Each violated window excludes its share of   *)
(* the rows, rounded down.                                                 *)
(***************************************************************************)
execute(batch, defs, order) ==
    LET checked  == [k \in DOMAIN defs |-> Checked(batch, defs[k], order)]
        total    == IF defs = <<>> THEN 0 ELSE Total(checked)
        violated == ViolatedWindows(checked)
    IN [batch |-> batch, checked |-> checked, total_windows |-> total,
        windows_violated |-> violated,
        excluded_rows |-> violated * (Len(batch) \div (IF total > 1 THEN total ELSE 1))]
=============================================================================
