------------------------------ MODULE MCImport ------------------------------
(***************************************************************************)
(* One type with a NOT NULL column x ranging over [1, 2], and files that   *)
(* meet it, that miss it, and that it does not foresee.                    *)
(***************************************************************************)
EXTENDS Import

MCSchema == [t \in Tables |->
    <<[name |-> "x", min |-> 1, max |-> 2, not_null |-> TRUE]>>]

Column(type, cells, first) ==
    [fields |-> <<[name |-> "x", type |-> type]>>,
     rows   |-> [i \in DOMAIN cells |-> <<cells[i]>>],
     first  |-> <<first>>]

Doubles(cells) == Column("DOUBLE", cells, Len(cells))

High == Doubles(<<3>>)

MCFiles ==
    {Doubles(<<1, 2, NaN>>),        \* the ends of the range, and what no check sees
     High,
     Doubles(<<2, Null>>),
     Column("DOUBLE", <<2, 3>>, 1),  \* two chunks
     Doubles(<<>>),
     Column("INT64", <<3>>, 1),
     [fields |-> <<[name |-> "y", type |-> "DOUBLE"]>>, rows |-> <<<<1>>>>, first |-> <<1>>]}

MCRequests ==
    [file : MCFiles, mode : {"kStrict"}] \union {[file |-> High, mode |-> "kLenient"]}

MCPredicates == {None, [column |-> "x", min |-> 1, max |-> 2]}
=============================================================================
