------------------------------- MODULE Import -------------------------------
(***************************************************************************)
(* DataImporter and LoadDataExecutor (data_importer.cpp) over the table    *)
(* store, and the end of ObjectStoreBackend::scan, where the parts read    *)
(* are concatenated and filtered.  Several threads import and scan the     *)
(* same tables; the calls an import makes are the store's own actions.     *)
(*                                                                         *)
(* The Rows of the store are Parquet files here: fields, a sequence of     *)
(* names with Arrow types, rows, sequences of cells in that order, and     *)
(* first, the number of rows in chunk 0 of each column as the Arrow reader *)
(* cuts it.  A cell is a number, Null or NaN.  A file that cannot be read  *)
(* fails its import before anything has changed and has no action.         *)
(***************************************************************************)
EXTENDS ObjectStore, Integers, FiniteSets

CONSTANTS
    Schema,         \* the columns of each type: name, min, max, not_null
    Predicates,     \* the ScanPredicates: column, min, max; or None
    Requests,       \* the imports asked for: a file, and kStrict or kLenient
    Null, NaN       \* cells that are no number

VARIABLES
    job,            \* per client: the import it runs, and how far it is
    query,          \* per client: the predicate of its scan
    lenient         \* history: tables that a lenient import was asked to fill

importVars == <<job, query, lenient>>
allVars    == <<vars, importVars>>

Steps == {"lookup", "register", "registering", "validate", "append", "appending"}

NoJob == [step |-> "none", table |-> None, file |-> None, mode |-> None]

ImportTypeOK ==
    /\ job \in [Clients -> {NoJob} \union
                   [step : Steps, table : Tables, file : Rows, mode : {"kStrict", "kLenient"}]]
    /\ query \in [Clients -> Predicates]
    /\ lenient \subseteq Tables
    /\ \A c \in Clients :
          /\ job[c].step \in {"registering", "appending"} => pc[c] # "idle"
          /\ job[c].step \notin {"none", "registering", "appending"} => pc[c] = "idle"

ImportInit ==
    /\ Init
    /\ job = [c \in Clients |-> NoJob]
    /\ query = [c \in Clients |-> None]
    /\ lenient = {}

-----------------------------------------------------------------------------
\* arrow::Schema::GetFieldIndex finds a name that occurs exactly once.
FieldsNamed(f, name) == {i \in DOMAIN f.fields : f.fields[i].name = name}
HasField(f, name)    == Cardinality(FieldsNamed(f, name)) = 1
FieldIndex(f, name)  == CHOOSE i \in FieldsNamed(f, name) : TRUE

ArrowType(f, name) == f.fields[FieldIndex(f, name)].type
Cells(f, name)     == {row[FieldIndex(f, name)] : row \in Range(f.rows)}
ColumnsOf(t)       == Range(Schema[t])

ASSUME RequestAssumption ==
    /\ Requests \subseteq [file : Rows, mode : {"kStrict", "kLenient"}]
    /\ None \in Predicates
    /\ \A pred \in Predicates \ {None} : {pred.min, pred.max} \subseteq Int

\* A declared column holds numbers, nulls and NaNs; its bounds are numbers.
ASSUME CellAssumption ==
    \A t \in Tables : \A col \in ColumnsOf(t) :
        /\ {col.min, col.max} \subseteq Int \union {None}
        /\ \A f \in Rows : HasField(f, col.name) =>
              Cells(f, col.name) \subseteq Int \union {Null, NaN}

ASSUME NotNumbersAssumption == {None, Null, NaN} \intersect Int = {}

\* Comparisons of doubles: those with NaN are false.
Less(v, w) == v # NaN /\ w # NaN /\ v < w

Missing(t, f) == {col.name : col \in {k \in ColumnsOf(t) : ~HasField(f, k.name)}}

\* A column whose values the range checks look at, and a value they object to.
Ranged(f, col) ==
    /\ col.min # None \/ col.max # None
    /\ ArrowType(f, col.name) = "DOUBLE"

Outside(v, col) ==
    \/ col.min # None /\ Less(v, col.min)
    \/ col.max # None /\ Less(col.max, v)

\* The loop of the strict import, over every chunk of the column.
RangeViolated(f, col) ==
    Ranged(f, col) /\ \E v \in Cells(f, col.name) \ {Null} : Outside(v, col)

NullViolated(f, col) == col.not_null /\ Null \in Cells(f, col.name)

NullsUnchecked(t, f) == \A col \in ColumnsOf(t) : ~RangeViolated(f, col)   \* variant

\* The checks of a strict import, once every column is known to be there.
RowsValid(t, f) ==
    \A col \in ColumnsOf(t) : ~NullViolated(f, col) /\ ~RangeViolated(f, col)

FirstChunk(f, name) ==
    LET i == FieldIndex(f, name) IN {f.rows[r][i] : r \in {r \in DOMAIN f.rows : r <= f.first[i]}}

OneChunk(f, name) == \A r \in DOMAIN f.rows : r <= f.first[FieldIndex(f, name)]

ReportsBelowOnly(f, col) ==   \* variant: no comparison with range_max
    /\ Ranged(f, col)
    /\ \E v \in FirstChunk(f, col.name) \ {Null} : col.min # None /\ Less(v, col.min)

\* The loop of check_compatibility, over chunk(0).
ReportsRange(f, col) ==
    /\ Ranged(f, col)
    /\ \E v \in FirstChunk(f, col.name) \ {Null} :
          \/ col.min # None /\ Less(v, col.min)
          \/ col.max # None /\ Less(col.max, v)

\* The report of check_compatibility, which a caller may ask for first.  The file
\* is read twice, first for its schema: when only the rows cannot be read, they go
\* unchecked and the report does not say so.
check_compatibility(t, f, rowsRead) ==
    [compatible       |-> Missing(t, f) = {},
     missing_columns  |-> Missing(t, f),
     extra_columns    |-> {field.name : field \in Range(f.fields)}
                             \ {col.name : col \in ColumnsOf(t)},
     range_violations |-> {col.name : col \in {k \in ColumnsOf(t) :
                               rowsRead /\ HasField(f, k.name) /\ ReportsRange(f, k)}}]

-----------------------------------------------------------------------------
(***************************************************************************)
(* import.                                                                 *)
(***************************************************************************)
Idle(c) == pc[c] = "idle" /\ job[c] = NoJob

\* A file without rows is imported, as nothing, and one without a declared
\* column is refused before the store is called.
Importable(t, f) == f.rows # <<>> /\ Missing(t, f) = {}

\* Bound: every import under way finds a part number when it comes to append.
Room ==
    next_part + Cardinality({c \in Clients : job[c].step \notin {"none", "appending"}})
        \in Parts

\* LoadDataExecutor::execute is a strict import, of a type in the registry.
import(c, t, f, mode) ==
    /\ Idle(c)
    /\ Importable(t, f)
    /\ Room
    /\ job' = [job EXCEPT ![c] = [step |-> "lookup", table |-> t, file |-> f, mode |-> mode]]
    /\ lenient' = IF mode = "kLenient" THEN lenient \union {t} ELSE lenient
    /\ UNCHANGED <<vars, query>>

At(c, step)   == job[c].step = step
Move(c, step) == job' = [job EXCEPT ![c].step = step]
Finish(c)     == job' = [job EXCEPT ![c] = NoJob]

\* has_table, and register_table if it said no.
ImportLooksUp(c) ==
    /\ At(c, "lookup")
    /\ mutex = None
    /\ Move(c, IF job[c].table \in registered THEN "validate" ELSE "register")
    /\ UNCHANGED <<vars, query, lenient>>

ImportRegisters(c) ==
    /\ At(c, "register")
    /\ CreateTable(c, job[c].table)
    /\ Move(c, "registering")
    /\ UNCHANGED <<query, lenient>>

\* Another thread registered the table first: kTableAlreadyExists is no error.
ImportFindsTable(c) ==
    /\ At(c, "register")
    /\ mutex = None
    /\ job[c].table \in registered
    /\ Move(c, "validate")
    /\ UNCHANGED <<vars, query, lenient>>

ImportValidates(c) ==
    /\ At(c, "validate")
    /\ job[c].mode = "kStrict" => RowsValid(job[c].table, job[c].file)
    /\ Move(c, "append")
    /\ UNCHANGED <<vars, query, lenient>>

ImportRefuses(c) ==
    /\ At(c, "validate")
    /\ job[c].mode = "kStrict" /\ ~RowsValid(job[c].table, job[c].file)
    /\ Finish(c)
    /\ UNCHANGED <<vars, query, lenient>>

ImportAppends(c) ==
    /\ At(c, "append")
    /\ AppendStart(c, job[c].table, job[c].file)
    /\ Move(c, "appending")
    /\ UNCHANGED <<query, lenient>>

\* The store's call goes on, or ends: well, or with an error that import returns.
StoreWorks(c) ==
    /\ Progress(c)
    /\ pc'[c] # "idle"
    /\ UNCHANGED importVars

RegisterReturns(c) ==
    /\ At(c, "registering")
    /\ FlushDone(c)
    /\ Move(c, "validate")
    /\ UNCHANGED <<query, lenient>>

AppendReturns(c) ==
    /\ At(c, "appending")
    /\ FlushDone(c)
    /\ Finish(c)
    /\ UNCHANGED <<query, lenient>>

StoreFails(c) ==
    /\ MakeBaseDirFails(c) \/ OpenPartFails(c) \/ WritePartFails(c) \/ FlushFails(c)
    /\ Finish(c)
    /\ UNCHANGED <<query, lenient>>

ImportStep(c) ==
    \/ ImportLooksUp(c) \/ ImportRegisters(c) \/ ImportFindsTable(c)
    \/ ImportValidates(c) \/ ImportRefuses(c) \/ ImportAppends(c)
    \/ RegisterReturns(c) \/ AppendReturns(c) \/ StoreFails(c)

(***************************************************************************)
(* scan.                                                                   *)
(***************************************************************************)
Compared == {"DOUBLE", "FLOAT", "INT64", "INT32"}

StrictlyWithin(v, pred) == Less(pred.min, v) /\ Less(v, pred.max)   \* variant

Within(v, pred) == v # NaN /\ ~Less(v, pred.min) /\ ~Less(pred.max, v)

\* The rows of a part that apply_predicate keeps.  Types it cannot compare are
\* not filtered.
apply_predicate(f, pred) ==
    IF pred = None \/ ArrowType(f, pred.column) \notin Compared
    THEN DOMAIN f.rows
    ELSE {i \in DOMAIN f.rows : LET v == f.rows[i][FieldIndex(f, pred.column)]
                                IN  v # Null /\ Within(v, pred)}

\* The end of scan.  ConcatenateTables wants equal schemas; a scan of no parts
\* returns before it looks at the predicate.
ScanResult(seen, pred) ==
    CASE \E u, v \in seen : u.rows.fields # v.rows.fields -> "kInternalError"
      [] pred # None /\ \E v \in seen : ~HasField(v.rows, pred.column) -> "kColumnNotFound"
      [] OTHER -> "ok"

\* The rows a scan that returns a table returns.
ScanRows(c) ==
    UNION {{v.part} \X apply_predicate(v.rows, query[c]) : v \in scan[c].seen}

ScanBegins(c, t, pred) ==
    /\ Idle(c)
    /\ ScanStart(c, t) \/ ScanUnlisted(c, t)
    /\ query' = [query EXCEPT ![c] = pred]
    /\ UNCHANGED <<job, lenient>>

ScanReturns(c) ==
    /\ ScanDone(c) \/ ScanReturnsEmpty(c) \/ \E p \in Parts : ScanFails(c, p)
    /\ query' = [query EXCEPT ![c] = None]
    /\ UNCHANGED <<job, lenient>>

ImportRestart ==
    /\ Restart(onDisk)
    /\ job' = [c \in Clients |-> NoJob]
    /\ query' = [c \in Clients |-> None]
    /\ UNCHANGED lenient

-----------------------------------------------------------------------------
Continue(c) == StoreWorks(c) \/ ImportStep(c) \/ ScanReturns(c)

ImportNext ==
    \/ \E c \in Clients, t \in Tables :
          \/ \E r \in Requests : import(c, t, r.file, r.mode)
          \/ \E pred \in Predicates : ScanBegins(c, t, pred)
    \/ \E c \in Clients : Continue(c)
    \/ ImportRestart

ImportSpec == ImportInit /\ [][ImportNext]_allVars

\* As in the store: a thread inside a call keeps running.
FairImportSpec == ImportSpec /\ \A c \in Clients : WF_allVars(Continue(c))

-----------------------------------------------------------------------------
\* A strict import into t went through the row checks before a byte of its file
\* reached the base directory: while no lenient import was asked for, every
\* complete part file of t, acknowledged or left by a failed append, has all the
\* declared columns, no null in a NOT NULL one and no DOUBLE outside its range,
\* although the table was registered before the rows were looked at.
StrictPartsConform ==
    \A t \in Tables \ lenient, p \in Parts :
        files[t][p] \in Rows =>
            \A col \in ColumnsOf(t) :
                /\ HasField(files[t][p], col.name)
                /\ col.not_null => Null \notin Cells(files[t][p], col.name)
                /\ ArrowType(files[t][p], col.name) = "DOUBLE" =>
                      \A v \in Cells(files[t][p], col.name) \ {Null, NaN} :
                          /\ col.min # None => v >= col.min
                          /\ col.max # None => v <= col.max

\* A scan about to return the parts it read as one table.
Answers(c) ==
    /\ pc[c] = "scan" /\ scan[c].todo = {}
    /\ ScanResult(scan[c].seen, query[c]) = "ok"

\* The bounds of the import checks and of the scan filter agree: a scan that could
\* list the base directory of a table filled by strict imports, over the range a
\* column declares, returns every row acknowledged before it began, unless its cell
\* is null or NaN or its file gave the column another type than DOUBLE; a scan
\* without a predicate returns them all.
ScansReturnImports ==
    \A c \in Clients : Answers(c) => \A v \in scan[c].must : \A i \in DOMAIN v.rows.rows :
        \/ <<v.part, i>> \in ScanRows(c)
        \/ /\ query[c] # None
           /\ \/ call[c].table \in lenient
              \/ ArrowType(v.rows, query[c].column) # "DOUBLE"
              \/ v.rows.rows[i][FieldIndex(v.rows, query[c].column)] \in {Null, NaN}
              \/ \A col \in ColumnsOf(call[c].table) :
                    query[c] # [column |-> col.name, min |-> col.min, max |-> col.max]

\* check_compatibility and import look at the values of one file in two loops of
\* their own.  The report names no range of a file that passes the checks of a
\* strict import, and names every range that a strict import refuses the file for,
\* unless it could not read the rows or they come in several chunks, of which it
\* looks at the first.
ReportForetells ==
    \A c \in Clients, rowsRead \in BOOLEAN : job[c] # NoJob =>
        LET t      == job[c].table
            f      == job[c].file
            report == check_compatibility(t, f, rowsRead)
        IN
        /\ job[c].mode = "kStrict" /\ job[c].step \in {"append", "appending"} =>
              report.range_violations = {}
        /\ \A col \in ColumnsOf(t) :
              rowsRead /\ OneChunk(f, col.name) /\ RangeViolated(f, col) =>
                  col.name \in report.range_violations

\* Every import and every scan returns, whatever the other threads do: no error
\* path of the store keeps the mutex, and an import that loses the race to
\* register the table goes on.  Each client is idle again and again.
ImportsReturn == \A c \in Clients : []<>Idle(c)
=============================================================================
