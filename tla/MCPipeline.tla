----------------------------- MODULE MCPipeline -----------------------------
(***************************************************************************)
(* Requests and batches for TLC runs of Pipeline.                          *)
(***************************************************************************)
EXTENDS Pipeline

Inter(type, delta) == [column |-> "v", type |-> type, delta |-> delta]

Agg(column, function, interval, min, max) ==
    [column |-> column, function |-> function, interval |-> interval, min |-> min, max |-> max]

Request(n, inter, agg, order) ==
    [value_range |-> n, inter_row |-> inter, aggregate |-> agg, order |-> order]

Increase == Inter("monotone_increase", None)
Near     == Inter("delta_max", 2)
Far      == Inter("delta_min", 1)

MCRequests == {
    Request(0, <<>>, <<>>, "datetime"),
    Request(1, <<>>, <<>>, "none"),
    Request(0, <<Near>>, <<>>, "none"),
    Request(1, <<Far>>, <<Agg("v", "sum", 2, None, 2)>>, "number"),
    Request(1, <<Inter("delta_max", 0)>>, <<>>, "datetime"),
    Request(0, <<Far>>, <<>>, "number"),
    Request(1, <<Near, Increase>>, <<Agg("v", "avg", 2, 1, None)>>, "datetime"),
    Request(0, <<Inter("monotone_decrease", None)>>,
            <<Agg("v", "sum", 2, None, 2), Agg("v", "max", 1, None, 1)>>, "datetime"),
    Request(0, <<>>, <<Agg("v", "min", 3, 1, None)>>, "datetime"),
    Request(0, <<>>, <<Agg("v", "count", 2, 2, None), Agg("t", "sum", 2, 1, None),
                       Agg("w", "sum", 2, None, 1), Agg("v", "sum", 0, None, 0)>>, "datetime")}

Row(t, v) == [t |-> t, v |-> v]

\* Up to three rows, with equal, increasing and disordered times.
MCBatches ==
    {<<>>}
    \union {<<Row(0, v)>> : v \in 0..3}
    \union {<<Row(0, v), Row(t, w)>> : t \in {0, 2}, v \in 0..3, w \in 0..3}
    \union {<<Row(1, u), Row(t, v), Row(3, w)>> : t \in {0, 2}, u \in 0..2, v \in 0..2, w \in 0..2}
=============================================================================
