---------------------------- MODULE MCGeneration ----------------------------
(***************************************************************************)
(* Schemas and checks for TLC runs of Generation.  Numbers are halves: an  *)
(* integer column n from 0 to 3 or from 1/2 to 5/2, a float column x.      *)
(***************************************************************************)
EXTENDS Generation, TLC

Column(type, min, max) == [type |-> type, min |-> min, max |-> max, enum_values |-> {}]

EnumColumn(values) == [Column("ENUM", None, None) EXCEPT !.enum_values = values]

MCColumns == {
    [n |-> Column("INT", 0, 6)],
    [n |-> Column("INT", 1, 5), x |-> EnumColumn({"v"})],
    [n |-> Column("INT", 0, 6), x |-> EnumColumn({})],
    [n |-> Column("INT", None, None)],
    [x |-> Column("DOUBLE", -2, 3)],
    [x |-> Column("FLOAT", 2, 2)]}

Check(column, min, max) == [column |-> column, min |-> min, max |-> max]

MCChecks == {
    {},
    {Check("n", 1, 5), Check("n", 3, None)},
    {Check("n", 2, 4)},
    {Check("n", None, 2)},
    {Check("x", 0, 2)}}

\* A configuration file cannot hold a negative number.
MCLowest == -4

\* No constraint is told from another by its name.
Symmetry == Permutations(ConstraintNames)
=============================================================================
