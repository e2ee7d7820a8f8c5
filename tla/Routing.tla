------------------------------- MODULE Routing -------------------------------
(***************************************************************************)
(* What is decided about a request from the kinds of its constraints and   *)
(* from rates: ConstraintClassifier and ExecutionRouter (engine/router),   *)
(* PostFilter (engine/postfilter), and the evidence written about it,      *)
(* EvidencePackageV2Builder and TailReportV3 (engine/evidence).            *)
(*                                                                         *)
(* A request is [value_range, inter_row, aggregate, order]: the number of  *)
(* value-range constraints, the sequences of the others, and the type of   *)
(* the ORDER column, "none" if the schema has none.                        *)
(***************************************************************************)
EXTENDS Integers, Sequences

-----------------------------------------------------------------------------
\* ConstraintClassifier::classify succeeds.
Classified(q) ==
    /\ q.value_range + Len(q.inter_row) + Len(q.aggregate) > 0
    /\ q.inter_row # <<>> \/ q.aggregate # <<>> => q.order # "none"
    /\ q.aggregate # <<>> => q.order = "datetime"

derive_execution_mode(q) ==
    IF q.aggregate # <<>> THEN "two_phase"
    ELSE IF q.inter_row # <<>> THEN "stateful_batch"
    ELSE "row_by_row"

\* ExecutionRouter::route.
route(q, engine) ==
    LET counts == q.value_range + Len(q.inter_row) + Len(q.aggregate)
    IN CASE counts > 0 /\ engine /\ q.aggregate # <<>> -> "full_function"
         [] counts > 0 /\ engine /\ q.aggregate = <<>> /\ q.inter_row # <<>> -> "post_filter"
         [] q.value_range > 0 /\ q.inter_row = <<>> /\ q.aggregate = <<>> -> "pure_physics"
         [] engine /\ counts = 0 -> "statistical_generation"
         [] OTHER -> IF engine THEN "kde_perturbation" ELSE "pure_physics"

-----------------------------------------------------------------------------
(***************************************************************************)
(* Rates are fractions [num, den].  Where one equals a threshold, its      *)
(* double 1.0 - kept / available may be the threshold's or a neighbour of  *)
(* it: side, -1, 0 or 1.                                                   *)
(***************************************************************************)
Above(rate, percent, side) ==
    rate.num * 100 > percent * rate.den \/ (rate.num * 100 = percent * rate.den /\ side = 1)

Below(rate, percent, side) ==
    rate.num * 100 < percent * rate.den \/ (rate.num * 100 = percent * rate.den /\ side = -1)

AtThreshold(rate) == \E p \in {30, 70, 90} : rate.num * 100 = p * rate.den

\* PostFilter::classify_exclusion_rate; critical is a percentage, too.
classify_exclusion_rate(rate, critical, side) ==
    IF Above(rate, critical, side) THEN "critical"
    ELSE IF Above(rate, 70, side) THEN "high"
    ELSE IF Above(rate, 30, side) THEN "medium"
    ELSE "low"

BandUpTo60(rate, side) ==   \* variant: another border of the high band
    IF Below(rate, 30, side) THEN "low"
    ELSE IF Below(rate, 60, side) THEN "medium"
    ELSE IF Below(rate, 90, side) THEN "high"
    ELSE "critical"

\* The band in TailReportV3; a rate is never outside of 0..1 here.
exclusion_rate_to_band(rate, side) ==
    IF Below(rate, 30, side) THEN "low"
    ELSE IF Below(rate, 70, side) THEN "medium"
    ELSE IF Below(rate, 90, side) THEN "high"
    ELSE "critical"

\* data_grade_for_band and rate_band_to_data_grade are the same function.
Grade(band) ==
    CASE band = "low"      -> "statistics_guaranteed"
      [] band = "medium"   -> "limited_fidelity"
      [] band = "high"     -> "limited_fidelity_conservative"
      [] band = "critical" -> "rejected"

(***************************************************************************)
(* PostFilter::execute on a table of n rows, none of which it looks at or  *)
(* takes out.                                                              *)
(***************************************************************************)
Kept(n, target) == IF n <= target THEN n ELSE target

post_filter(n, target, critical, side) ==
    IF n = 0 \/ target <= 0
    THEN [pre_filter_rows |-> n, post_filter_rows |-> 0, rate |-> [num |-> 0, den |-> 1],
          band |-> "low"]
    ELSE LET rate == [num |-> n - Kept(n, target), den |-> n]
         IN [pre_filter_rows |-> n, post_filter_rows |-> Kept(n, target), rate |-> rate,
             band |-> classify_exclusion_rate(rate, critical, side)]

(***************************************************************************)
(* EvidencePackageV2Builder::build, with the row count, the rate and the   *)
(* grade of the post filter, and build_tail_report_v3 for the same rate.   *)
(***************************************************************************)
build(q, path, filtered) ==
    [row_count |-> filtered.post_filter_rows, rows_validated |-> filtered.post_filter_rows,
     data_grade |-> Grade(filtered.band), generator_identity |-> path,
     constraint_type_breakdown |-> <<q.value_range, Len(q.inter_row), Len(q.aggregate)>>,
     was_post_filtered |-> filtered.rate.num > 0,
     pre_filter_rows |-> filtered.pre_filter_rows, rate |-> filtered.rate]

build_tail_report_v3(rate, side, was_degraded) ==
    [rate_band |-> exclusion_rate_to_band(rate, side),
     data_grade |-> Grade(exclusion_rate_to_band(rate, side)),
     fidelity_mismatch |-> was_degraded]
=============================================================================
