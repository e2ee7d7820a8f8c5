------------------------------ MODULE Pipeline ------------------------------
(***************************************************************************)
(* A request on its way through classification, routing, the inter-row and *)
(* aggregate engines, the post filter and the evidence, put together the   *)
(* way callers do (tests/integration/constraint_pipeline_test.cpp): the    *)
(* outgoing states of one batch are the incoming states of the next, and   *)
(* the filtered batch goes to the aggregate engine.  The engines keep no   *)
(* state between calls; states is the caller's.                            *)
(***************************************************************************)
EXTENDS RowStream, Routing

CONSTANTS
    Requests,       \* requests that callers make
    Batches,        \* batches of sampled rows
    MaxRows,        \* bound on the rows fed since states were last empty
    RowCounts,      \* sizes of tables and targets given to the post filter
    Critical        \* critical_exclusion_threshold, in percent

InterRowConstraints ==
    [column : STRING, delta : Int \union {None},
     type : {"delta_max", "delta_min", "monotone_increase", "monotone_decrease"}]

AggregateConstraints ==
    [column : STRING, function : STRING, interval : Int,
     min : Int \union {None}, max : Int \union {None}]

Rows == [t : Int, v : Int]

ASSUME PipelineAssumption ==
    /\ None \notin Int
    /\ Batches \subseteq Seq(Rows)
    /\ RowCounts \subseteq Nat
    /\ \A q \in Requests : /\ q.inter_row \in Seq(InterRowConstraints)
                          /\ q.aggregate \in Seq(AggregateConstraints)

VARIABLES
    request,        \* the request classified, or None
    decision,       \* its route
    states,         \* the inter-row states, per constraint
    fed, out,       \* history: values fed and let through since states were last empty
    filtered,       \* the batch on its way to the aggregate engine, or None
    phase_two,      \* the result of the aggregate engine, or None
    package         \* the evidence package and the tail report, or None

vars == <<request, decision, states, fed, out, filtered, phase_two, package>>

Empty(defs) == [k \in DOMAIN defs |-> None]

Values(rows) == [i \in DOMAIN rows |-> rows[i].v]

-----------------------------------------------------------------------------
Init ==
    /\ request = None /\ decision = None
    /\ states = <<>> /\ fed = <<>> /\ out = <<>>
    /\ filtered = None /\ phase_two = None /\ package = None

ClassifyAndRoute(q, engine) ==
    /\ request = None
    /\ Classified(q)
    /\ request' = q
    /\ decision' = [path |-> route(q, engine), mode |-> derive_execution_mode(q),
                    engine |-> engine]
    /\ states' = Empty(q.inter_row)
    /\ UNCHANGED <<fed, out, filtered, phase_two, package>>

\* InterRowEngine::execute_batch; constraints that are not valid leave all as it is.
execute_batch(batch) ==
    /\ request # None /\ filtered = None /\ package = None
    /\ Len(fed) + Len(batch) <= MaxRows
    /\ LET defs   == request.inter_row
           passed == PassingRows(defs, states, batch)
           next   == Outgoing(defs, batch, passed)
       IN /\ validate_constraints(defs, request.order)
          /\ states' = next
          /\ filtered' = passed
          /\ IF next = Empty(defs) THEN fed' = <<>> /\ out' = <<>>
             ELSE fed' = fed \o Values(batch) /\ out' = out \o Values(passed)
    /\ phase_two' = None
    /\ UNCHANGED <<request, decision, package>>

\* AggregateEngine::execute, after which the caller goes on to the next batch.
Aggregate ==
    /\ filtered # None
    /\ phase_two' = execute(filtered, request.aggregate, request.order)
    /\ filtered' = None
    /\ UNCHANGED <<request, decision, states, fed, out, package>>

\* PostFilter::execute on a whole table, and the evidence about it, if it is not
\* refused.  Nothing of the batches is used, so only a request without any is tried.
PostFilterAndBuild(n, target, side, was_degraded) ==
    /\ request # None /\ fed = <<>> /\ filtered = None /\ phase_two = None
    /\ LET result == post_filter(n, target, Critical, side)
       IN /\ result.band # "critical"
          /\ package' = [evidence |-> build(request, decision.path, result),
                         tail |-> build_tail_report_v3(result.rate, side, was_degraded)]
    /\ UNCHANGED <<request, decision, states, fed, out, filtered, phase_two>>

Next ==
    \/ \E q \in Requests, engine \in BOOLEAN : ClassifyAndRoute(q, engine)
    \/ \E batch \in Batches : execute_batch(batch)
    \/ Aggregate
    \/ \E n, target \in RowCounts, side \in {-1, 0, 1}, was_degraded \in BOOLEAN :
          PostFilterAndBuild(n, target, side, was_degraded)

Spec == Init /\ [][Next]_vars

-----------------------------------------------------------------------------
\* The states are those of the request's constraints; phase two has counted the
\* windows it kept.
TypeOK ==
    /\ request \in Requests \union {None}
    /\ request # None => states \in [DOMAIN request.inter_row -> {None} \union Range(fed)]
    /\ Len(out) <= Len(fed) /\ Len(fed) <= MaxRows
    /\ phase_two # None =>
          /\ DOMAIN phase_two.checked = DOMAIN request.aggregate
          /\ phase_two.windows_violated <= phase_two.total_windows

Holds(current, previous) ==
    \A k \in DOMAIN request.inter_row :
        check_constraint(request.inter_row[k], current, previous)

(***************************************************************************)
(* Where a stream is cut into batches does not matter, as long as the      *)
(* states are not lost: what was let through is what one pass over all the *)
(* rows would keep, namely the first row and each one that fits the last   *)
(* one kept.  States are lost, and a pass starts anew, exactly at batches  *)
(* of which no row passes.                                                 *)
(***************************************************************************)
BatchingInvisible ==
    request # None /\ request.inter_row # <<>> =>
        \E kept \in SUBSET DOMAIN fed :
            /\ out = [i \in 1..Cardinality(kept) |->
                        fed[CHOOSE j \in kept : Cardinality({x \in kept : x <= j}) = i]]
            /\ \A i \in DOMAIN fed :
                  LET before == {j \in kept : j < i}
                  IN i \in kept <=>
                        (before # {} =>
                            Holds(fed[i], fed[CHOOSE j \in before : \A x \in before : x <= j]))

(***************************************************************************)
(* The windows of a constraint take each row of the batch once and in      *)
(* order, no row lies at or past the end of its window, no window starts   *)
(* before the end of the one before, and the last one alone is partial.    *)
(***************************************************************************)
WindowsPartition ==
    phase_two # None =>
        \A k \in DOMAIN phase_two.checked :
            LET windows == phase_two.checked[k].windows
                batch   == phase_two.batch
            IN windows # <<>> =>
                /\ \A i \in DOMAIN batch : \E w \in DOMAIN windows :
                      /\ i \in windows[w].rows
                      /\ \A x \in DOMAIN windows : i \in windows[x].rows => x = w
                      /\ batch[i].t < windows[w].window_end
                /\ \A w \in 1..(Len(windows) - 1) :
                      /\ windows[w].window_end <= windows[w + 1].window_start
                      /\ \A i \in windows[w].rows, j \in windows[w + 1].rows : i < j
                /\ \A w \in DOMAIN windows : windows[w].is_partial <=> w = Len(windows)

(***************************************************************************)
(* The rows counted as excluded are at most the share of the violated      *)
(* windows, over all constraints, and if there is one constraint only a    *)
(* violated window never goes unseen in the rate.                          *)
(***************************************************************************)
ExclusionIsShare ==
    phase_two # None =>
        /\ phase_two.excluded_rows * phase_two.total_windows
               <= phase_two.windows_violated * Len(phase_two.batch)
        /\ phase_two.excluded_rows <= Len(phase_two.batch)
        /\ Len(request.aggregate) = 1 /\ phase_two.windows_violated > 0 =>
               phase_two.excluded_rows > 0

Rank(grade) ==
    CASE grade = "statistics_guaranteed" -> 1
      [] grade = "limited_fidelity" -> 2
      [] grade = "limited_fidelity_conservative" -> 3
      [] grade = "rejected" -> 4

(***************************************************************************)
(* The post filter and the tail report grade a rate by different tests.    *)
(* The report is never the more lenient one, and they differ, by one       *)
(* grade, at the thresholds only.                                          *)
(***************************************************************************)
GradesAgree ==
    package # None /\ Critical = 90 =>
        LET filter == Rank(package.evidence.data_grade)
            tail   == Rank(package.tail.data_grade)
        IN /\ tail \in {filter, filter + 1}
           /\ tail # filter => AtThreshold(package.evidence.rate)
=============================================================================
