# A TLA+ verification of synthgen-core

synthgen-core generates synthetic tabular data under constraints, keeps the data
and the models in a file-backed store, and records what it did in a hash-chained
audit log. This directory holds TLA+ models of its core, TLC runs on small
instances, and TLAPS proofs for all instances. Paths such as
`storage/metadata.cpp` are relative to `src/src/`.

## 1. Inventory

| Component | State | Operations | Hard behaviour | What makes it correct |
|---|---|---|---|---|
| Table store: `ObjectStoreBackend`, `MetadataManager`, `ParquetReader/Writer` (`storage/*.cpp`) | `tables_`, `next_part_` under one mutex; per table a `metadata.json`, a base directory, part files | `register_table`, `append`, `scan`, `list_versions`, `flush`, `reload` | threads between the short critical sections; death of the process between part file, version and flush; failed writes; reload after a crash | an acknowledged append is durable and visible; a part number is never reused; metadata.json only grows; calls return |
| Audit log (`storage/audit/`) | deque of records, id counter, mutex | `create_genesis`, `append`, `verify_chain`, `daily_verification`, `detect_forks`, `scan` | order of concurrent appends, a clock that stands still or goes back | the log always verifies, has no forks, and shows alterations of it |
| Model storage (`storage/model/`) | checkpoint files, `.pending` files, LRU cache (mutex over the cache only) | `save_checkpoint`, `atomic_write`, `load_model`, `recover_interrupted`, `list_model_versions` | file I/O outside the lock, crash inside a write, external deletion | complete checkpoints, durable acknowledged writes, a cache equal to the files |
| Version chain (`storage/version/`) | map of versions with parent links, per model order | `create_version`, `get_version`, `list_versions`, `modify_version` | parent links, heads, concurrent GC | acyclic, immutable, complete |
| GC compactor and protection (`storage/gc/`) | `in_progress_`, statistics | `compact`, `auto_compact_check`, `explain` | check-then-set of `in_progress_`, repeated compaction, protected versions | protected versions survive, one compaction at a time |
| Time travel (`storage/timetravel/`) | none of its own | `query_as_of`, `find_nearest_available` | versions whose checkpoint is gone | the version returned is the newest loadable one at the time asked for |
| Data importer (`storage/data_importer.cpp`) | none of its own | `check_compatibility`, `import`, `LOAD DATA` | a table registered before the data is validated; two importers of one new table | a strictly filled table conforms to its type; the report agrees with the import |
| Continuous alignment and drift detector (`engine/alignment/`) | deadlines, drift history | `update_model`, `compute_compensation_status`, `detect` | checkpoint written after the version is created; failure ignored | a version reported has a checkpoint |
| Constraint engines (`engine/constraint/`) | running state across batches (inter-row), windows (aggregate) | `execute_batch`, `execute`, `execute_phase_two`, `validate_batch` | state carried over batch borders, empty batches, last partial window | equal to one pass over the whole input |
| Classifier, router, post filter, tail report (`engine/router`, `engine/postfilter`, `engine/evidence`) | none | pure functions | thresholds that must agree between components | total, exclusive classification |
| Physics samplers and seeds (`engine/physics/`) | random generator state | sampling in ranges | floating point | samples inside the range |
| Parser (`parser/`) | token position, defined types, errors | recursive descent over a token list, recovery after an error | error paths, the end of the input, a parser used again | ends; a program without an error is whole and resolved |
| Service and server (`api/`) | maps of schemas and constraints, without a lock | `define_type`, `define_constraint`, `load_data`, `generate`, `explain` | calls in any order, concurrent HTTP requests over unlocked maps | a generated batch obeys the constraints defined |
| Scaffold (`scaffold/`) | metrics registry, span stack | counters, histograms, spans | concurrent updates, `reset` | counts are not lost |
| SDK bindings, tools | none | glue | none | not modelled |

Interactions: the service calls the parser, the classifier, the router and the
table store; alignment creates a version in the version chain and then saves a
checkpoint in model storage; time travel and GC read the chain and load
checkpoints; every component increments metrics and opens spans, which no
behaviour depends on.

## 2. Modules

The modules come in the order of the plan: first what keeps data (table store,
audit log, model storage), then what relates stored things (versions,
compaction, alignment, time travel), then generation and the constraint engines.

| Module | Models | Proofs |
|---|---|---|
| `ObjectStore` | the table store | `StoreProofs` |
| `TableLog` | what the table store promises: a log of appends | |
| `StoreImplementsLog` | the refinement mapping from `ObjectStore` to `TableLog` | `StoreProofs` |
| `Import` | the importer on top of `ObjectStore`, and scans with predicates | `StoreProofs` |
| `AuditLog` | the audit log | `AuditLogProofs` |
| `ModelStorage` | model storage | `ModelStorageProofs` |
| `VersionChain` | the version chain; extended by `GcCompactor` and `Alignment` | `GcCompactorProofs` |
| `GcCompactor` | the compactor and its protection rules | `GcCompactorProofs` |
| `DriftDetector` | the Kolmogorov-Smirnov statistic, an operator | `TimeTravelProofs` |
| `Alignment`, `TimeTravel` | alignment on the chain, its scores and its checkpoints; queries over both | `TimeTravelProofs` |
| `Generation` | the service under concurrent handlers, ranges, samples, validation, evidence v1 | `GenerationProofs` |
| `RowStream`, `Routing`, `Pipeline` | inter-row and aggregate engines; classifier, router, post filter, evidence v2 and tail report v3; their composition | `PipelineProofs` |
| `Parser` | the parser | `ParserProofs` |

Operators marked "variant" are mistakes somebody could make in the definition
they precede. No specification uses them; each shows that a property would
notice.

### ObjectStore

`registered`, `versions`, `next_part` and `mutex` are the memory of
`MetadataManager`; `onDisk`, `saved`, `baseDir` and `files` are the disk. A
client's position in its call is `pc`. A step is one critical section or one file
operation: `append` is `AppendStart` (get_table, next_part_number), `OpenPart`,
`WritePart`, `AddVersion`, `FlushLock`, one `FlushTable` per table, `FlushDone`.
Each file operation of `register_table`, `append` and `flush` has a failing twin that
returns an error and leaves what the code leaves. `scan` fails on a part it cannot
read (`ScanFails`), but where the base directory is not there, cannot be looked up or
cannot be opened it does not fail: the error code is not looked at and the answer is
an empty table (`ScanUnlisted`, `ScanReturnsEmpty`). `FlushTable` is one step because the code writes a temporary file
and renames it. `Restart` kills all threads and runs the constructor; nothing on
disk is lost by it (the process dies, the machine does not).

The text of metadata.json is not modelled: what is kept of it is the sequence of
version ids, which the writer and the parser carry over for table ids without
brackets.

### TableLog, StoreImplementsLog

`TableLog` says what callers may rely on and nothing about threads, files or
processes: an append begins under a fresh part number, is lost or joins the log
once, and is acknowledged only afterwards. The mapping takes the contents of
metadata.json for the log, so that the abstract log survives a crash, and takes
for pending what threads are working on and what is in memory but not saved. An
append whose flush failed stays pending: another call's flush may persist it.

### Import

`Import` extends `ObjectStore`, whose rows are now files: fields with Arrow types
and rows of cells (a number, null or NaN). An import goes through `lookup`
(`has_table`), `register`, `validate`, `append`; inside the two store calls it
takes the store's own steps, so failures and crashes come with them.
`ImportFindsTable` is the import that lost the race to register. A scan keeps its
predicate, and `ScanResult` and `ScanRows` are its answer: parts with different
fields cannot be concatenated, nulls and NaNs are filtered out, columns of other
than four types are not filtered at all. A scan that could not list its directory
answers with no rows. The columns of a file come in chunks (`first` is the length of
the first one): the loop of `check_compatibility` looks at chunk 0 (`ReportsRange`)
and not at all if the second read of the file fails, the loop of `import` at every
chunk (`RangeViolated`). `lenient` remembers which tables a
lenient import was asked to fill: it takes every row (`data_importer.cpp:196`),
although `data_importer.h` describes it as skipping mismatched ones.

### AuditLog

Every operation holds the mutex from its first test to its end, so one operation
is one step, whatever the threads. Strings are sequences of tokens and
`compute_content_hash` concatenates fields and separators as the code does;
SHA-256 is a tag around the text, so equal digests mean equal texts. Operations, actors
and metadata may hold the separators, which the code neither refuses nor escapes, so
different contents may have one text. The
verification operations are operators on a sequence of records, so that they
can be applied to an altered log too.

### ModelStorage

Names lead to inodes; open files are inodes. `save_checkpoint` truncates and
writes `final` in place, `atomic_write` writes `pending` and renames. The cache
is the LRU list. Look-up and update of the cache are steps; reading and writing
files are other steps. `recover_interrupted` removes, one per step, whatever `.pending`
files are there when it comes to them, those made while it runs included. The history `used` says how a key was written: never, by
one `save_checkpoint`, by one `atomic_write`, or more than once. What is promised
of a key depends on it: the ids `generate_version_id` makes are written once. The
properties speak of keys written by one `atomic_write`. Two writers of one key, and a
load that overlaps a `save_checkpoint` in place, may leave torn content in files and in
the cache; the model has these behaviours, and nothing in the repository forbids them.

### VersionChain, GcCompactor

The chain is the sequence of versions in the order of creation; an id stands for
a position. `has_cycle` walks up parents as the code does. `list_versions` sorts
by `created_at` and equal readings of the clock come out in any order, which
`IsListing` leaves open. `compact` is `CompactCheck` (test of `in_progress_`),
`CompactSet`, the work in one step (the chain is serialised by its callers), and
`CompactReturn`. A compaction adds a version and removes none.

### Alignment, TimeTravel

`update_model` is one step: version, checkpoint, scores and status. The score
of an update is what `ks_statistic` computes from two samples, put into the
classes "low", "mid" and "high" that the two thresholds tell apart; without a
measurement it is 0.0 and thus low. `DriftDetector` walks two sorted samples as
the code does, in units of 1/(n1 n2), and compares with the largest distance of
the two distribution functions. What `std::sort` leaves in a position is given by
rank (`Sorted`): the value with fewer elements below it than the position and at
least that many up to it. A query is a hit or a search that loads one
listed version per step, between which checkpoints may be removed. A load may fail
although the file is there (`load_model` could not open or read it), which the engine
takes for a version compacted away: `unread` remembers these. The next update
waits for its end, since the engine's callers make one call at a time.

### Generation

Numbers are in halves, so that integers and bounds between them are both there.
`ColumnRange` is what `RangeExtractor` computes, `Samples` the values a sampler
can return for a range (integer bounds are truncated, a gaussian value is
rounded), `Fails` the validator's test. `define_constraint` never assigns the
operator of an item, so any value of it is a possible outcome of the build, one
outside the enumeration included.

The HTTP library calls the handlers from several threads and the service has no
lock. `generate` copies the items of its constraints and keeps a reference to the
schema, which is read when the ranges are extracted (`Sample`), when the validator
is constructed (`Validate`) and when the package is built (`Build`); `define_type`
may come in between. `request` is the call under way and then its result. One
generate is enough, since another writes nothing that it reads, and
`define_constraint` is left to the time between requests, with which it commutes.
Each read of the schema is one step: tearing of the map or of a schema while it
is assigned is below the model.

### RowStream, Routing, Pipeline

`RowStream` and `Routing` are operators: the engines keep no state. `Pipeline`
is the caller, in the way `tests/integration/constraint_pipeline_test.cpp` puts
the parts together: it classifies and routes a request, feeds batches with the
states of the batch before, and passes what was filtered to the aggregate engine;
or it gives a whole table to the post filter and builds the evidence. A rate that
equals a threshold as a fraction may be the threshold's double or a neighbour of
it; `side` is which.

### Parser

A state is a position in the grammar (`pc`), the token looked at, and the
statement so far. Tokens are chosen when they are looked at, so that TLC
enumerates all token sequences; tokens no rule tells apart are one. `Required`
lists the tokens whose absence is an error and `Ignored` the `expect` calls whose
result nobody looks at. At the end `advance` returns the last token again, which
`previous` remembers if it is a number, the only case in which it is taken for
something else. A number that `stod` or `stoll` cannot represent throws out of
`parse`, and the parser may be called again after that.

## 3. Runs

| Run | Checks | Result |
|---|---|---|
| `store_safety` | types, durability, ownership of parts, scans, refinement of `TableLog` (metadata.json only grows, among others): 2 threads, 2 tables, 2 contents, 2 parts | holds |
| `store_reload_errors` | durability when reload may fail on a file | violated, see below |
| `store_scan_empty` | an empty answer means that there is no data | violated, see below |
| `import` | strictly filled tables conform, scans over a declared range are complete if they can list the directory, reports foretell imports up to the chunks they do not look at, every call returns: 2 threads, 1 table, 7 files | holds |
| `audit_log` | chain, forks, alterations (separators in the contents included), scan: up to 4 records, 2 clock readings | holds |
| `model_storage` | complete checkpoints, durability, coherent and well-formed cache: both writers, 2 threads, 2 keys, cache of 1 | holds |
| `gc_safety` | the chain is a forest, protected and recent versions are spared | holds |
| `gc_race` | one compaction at a time | violated, see below |
| `time_travel` | scores against the exact distance, status from the whole drift history, newest available version, honest errors | holds |
| `generation` | honest packages and summaries under redefinition, whole bounds never lose a table, exact intersection of bounds | holds |
| `pipeline` | batching does not show, windows partition, rates and grades agree | holds |
| `parser` | programs without an error are whole and resolved, accepted types build, the parser ends | holds |

Type invariants are checked in `store_safety` and `generation` and proved for the
importer, the audit log, model storage and the parser as well; in the other modules
`TypeOK` (`AlignTypeOK`) tells the reader the shape of the state, and the runs are
about what can go wrong within it.

Bounds. Two threads suffice for every race between two calls. In the table store
two parts let a number be handed out, lost by a crash and handed out again. A
cache of one entry with two keys evicts on every second key (the code's limit is
5 and nothing depends on the number); three inodes are there, and an open that
would need a fourth waits. The chain has so many versions that a compaction can
be followed by another (`MaxVersions`); two threads compact. Alignment keeps 2 scores with windows of
1 and 2 where the code keeps 10 with windows of 3 and 5: the cap is as small as
the longer window allows, so trimming happens at once; `limit` is 2 so that the
listing is shorter than the chain. In `generation` one type and two constraints
are enough for redefinition and intersection; rows are sampled independently, so
one row shows all. In `pipeline` a stream has up to 5 rows in batches of up to 3,
which is enough for a batch that loses the states and two that do not; the row
counts of the post filter include 10 with targets 7, 3 and 1, which hit the
thresholds. In `import` one table and two part numbers are enough for two
importers to race for the registration and for a scan to meet parts with
different fields; `Room` keeps an import from starting that would find no part
number. The files hold the ends of the declared range, a value above it, a null, a
NaN, a column in two chunks, a column of another type, a missing column and no rows.
The contents in `audit_log` are such that two of them are written alike. In `parser` a program
has at most two statement keywords (one statement can then refer to another and
recovery has somewhere to go) and a type two columns (duplicates); everything else
about the token sequence is unbounded.
Histories (`acked`, `issued`, `used`, `deleted`, `merges`, `drift`, `fed`, `out`,
`lenient`, `starts`, `consumed`) are read by properties and by the bounds only.

Fairness. `import` assumes weak fairness of each thread that is inside a call:
the code never waits for anything but the metadata mutex and the disk. A mutex
promises no waiting thread its turn; here the part numbers run out, so that no thread
is passed over for ever, and the run is about error paths that keep the mutex and
about calls that wait for nothing. `parser` assumes
that a parser that has been called keeps running. Nobody is obliged to make a
call.

Findings.
- `store_reload_errors`: the constructor ignores an error of `reload`, whose
  comment says that a fresh backend is fine; tables that were not loaded are then
  overwritten.
- `store_scan_empty`: a scan whose base directory cannot be looked up or opened
  answers with an empty table and no error, as for a table with "no data yet",
  although the table has acknowledged appends.
- `gc_race`: the flag is tested and set in two steps, so two compactions run.

Known from the models without a run of their own: a batch of which no row passes
makes the inter-row engine forget the last value (`BatchingInvisible` says that
the pass starts anew there); an integer column under a fractional lower bound is
sampled below it and the package is then refused (`WholeBoundsSuffice` excludes
it); the post filter and the tail report grade a rate of exactly 0.30, 0.70 or
0.90 differently (`GradesAgree`); a search ends after 100 versions
(`NotFoundMeansNone`); two of the router's five paths cannot be reached by a
request the classifier accepts (`route`); a compaction leaves what it merged
in the chain, so a second one counts the same training rows again; values that two
samples share with different multiplicity raise the drift score
(`TieFreeScoresExact` excludes them, `ScoresNeverUnderstate` says that the error
is on this side only); a strict import accepts a column of any type and checks
ranges only of DOUBLE ones, and a file whose fields differ from the parts already
there makes every later scan fail (`ScanResult`); if a type loses a column between
sampling and validation, its items are not checked, and if it changes before the
package is built, hash and summary describe another type than the rows
(`PackageHonest` and `SummaryHonest` exclude just these).

## 4. Proofs

`StoreProofs` proves the safety properties of `ObjectStore` for any number
of threads, tables, parts and contents. Type correctness needs no assumption; the
others assume that reload loses no table. The properties are not inductive: the
invariant `IInv` adds that the mutex holder is the thread that is flushing
(`LockInv`), that each thread's arguments fit its position (`CallInv`), that part
numbers at or above `next_part` and numbers of running appends are carried by no
version (`FreshInv`), that what is saved is a prefix of what is in memory
(`MemoryAheadInv`), that an append past `AddVersion` finds its version in memory
and, once its table is flushed, on disk (`AppendInv`), and that a scan's
obligations are in its listing, unless it could not list (`ScanInv`).

`StoreProofs` also proves that `ObjectStore` implements `TableLog` under the same
assumption (`StoreIsALog`): the invariant is the one above, and each action is
shown to map to one abstract action or to a stutter. The actions that need it are
`AppendStart` (fresh part numbers make `Begin` possible), `FlushTable` (what a
flush adds is pending and was not there) and `Restart` (all that is lost was
pending).

For the importers it first proves that a step of the importers is a step of the store or
leaves it alone (`ImportsUseTheStore`), so that the store's theorems hold under
them. Its own invariant `ImportInv` ties each import to the store call it is in
(`JobInv`), keeps what the checks have established until the append (`CheckInv`),
and says of every complete part of a strictly filled table that it passed them
(`PartsInv`). `ReportsForetell` compares the two loops over a file's values
(`ReportsWhatIsThere`). `PartsInv` is what makes `StrictPartsConform` inductive, since
`WritePart` writes what the call carries.

`ModelStorageProofs` proves the five properties of the run for any number of
threads, keys, blobs and inodes and any size of the cache. Its invariant says what
each position in a call means (`CallInv`), that an inode belongs to one key, through
a name or through whoever has it open (`OwnInv`), and that a complete blob was given
to a writer under the key it is found for, in a file, in a call or in the cache
(`IssuedInv`); this much gives `BlobsKeepTheirKeys`. Of a key that one `atomic_write`
has touched it says that there is one blob and one writer and nothing to be loaded
before the rename (`WriterInv`), that from then on the file, the loads and the cache
hold complete blobs (`OnceInv`), and that what was renamed stays (`RenamedInv`).
`OnceInv` must speak of loads that are reading: a load opens an inode, and only the
absence of a writer that has not renamed keeps it whole until the read.

`GcCompactorProofs` proves `ChainIsForest` and `CompactionSparesProtected`. The
parent of a new version was in the chain before, and times do not decrease along the
chain (`InOrder`), which gives the order of times; `has_cycle` is not needed for it.
What is among the newest is a matter of the cardinality of finite sets of ids, so
the proof holds for every way of sorting equal times.

`TimeTravelProofs` proves the five invariants of `TimeTravel`, `StatusFromWholeHistory`,
`DegradesToNewest` and `NotFoundMeansNone` first. For the status the invariant says that the scores kept are the
end of the history (`StatusInv`): cutting before a score is added and after it is
cutting after it (`KeepLastAppend`), a window no longer than what is kept sees the
same scores (`WindowOfKept`), and no window is all low while another is all high,
since both hold the last score (`LastInWindow`). The assumption is that both windows
fit into what is kept, as 3 and 5 fit into 10. For the search it says that a version
no longer to be tried has no checkpoint, could not be read or is hidden by the limit, and then nothing
still to be tried is older (`QueryInv`); files may vanish but never come back while
a query runs, which is why no test of an earlier step becomes wrong. A version whose
file is there and could not be read is in `unread`, and is the only exception.

For `ScoresNeverUnderstate` and `TieFreeScoresExact` the same module proves what
`ks_statistic` returns for any two samples of integers, not empty and of any length
(`StatisticBounds`). Everything is said through `UpTo`: a sorted position is up to
`v` exactly when it is at most `UpTo(s, v)` (`SortedRanks`). `max_diff` exists
(`WalkExists`) and is followed from the end of the walk backwards, by a point with
the fewest elements left that would be an exception (`WalkInduction`). From any
point not beyond `(UpTo(s1, v), UpTo(s2, v))` the walk passes through it
(`WalkMeets`), so no distance is missed. If shared values are repeated equally
often, the walk stays in runs (`InRun`, `RunContinues`): within one, either one
sample stands still or both advance together, so that a distance met on the way is
not above both ends of the run (`Convex`), which are distances of the distribution
functions.

`ParserProofs` proves the four safety properties of the parser for every sequence of
tokens and any number of statements and columns. The invariant tells for each
position which kind of statement it belongs to (`KindInv`), from where the name of
the type is known (`NameInv`), what holds of the columns collected (`ColumnInv`),
that without an error the keywords consumed are the statements and the one under way
(`CountInv`), that a token taken twice leaves a statement without its end
(`ReusedInv`), and where the defined types come from (`DefinedInv`). The attempt to
prove `CountInv` found a case TLC's invariants had passed over: `parse_constraint_item`
consumes whatever follows the operator, a keyword too, before it sees that it is not
a number (`Doomed`); for one step the count is off by one, and an error follows.
It also showed that the type invariant's bound on columns was one too low.

`GenerationProofs` proves all five properties of the run. For a request the invariant
keeps that its rules are items of known checks, that its rows hold a number in every
numeric column, that an issued package had no failed row (`PackageHonest`), and that
each row came from a sampler of the ranges of the type sampled and the finitely many
items copied, whatever the type has become since (`RangesOK`); the other three follow,
since such a value is within the bounds of schema and items. Bounds are maxima and minima of sets, whose existence
(`Extremes`) is an induction over finite sets; it is done without the library's
induction theorems, by a smallest set without a maximum, which loses an element. The
assumptions are that bounds of checks and columns are numbers or absent and that
constraints and their checks are finitely many. The proof made `WholeBoundsSuffice`
stronger than it was: bounds of the type need not be whole, because the validator
tests items only.

`AuditLogProofs` proves the four properties of the run for any length of log and any
clock. The invariant adds that the chain hashes are pairwise distinct: an equal chain
hash would belong to a record with the same predecessor, which is itself found only
once. `TamperingIsRefused` is the part of `AlterationsFound` that does not depend on
how a content is encoded: `verify_chain` refuses a record whose content hash would be
another one, and a missing record. The rest of `AlterationsFound` is what the report
says (`ReportNames`, `ReportIsEmpty`), and that different contents free of separators
have different texts. `compute_content_hash` puts separators between fields, so a text
is read back part by part, each part ending at the first separator it must not contain
(`PartsOf`), and metadata entry by entry (`SameEntries`). Nothing is assumed of the
contents but that they are sequences of tokens (`TextAssumption`, which also says that
different times print differently); that they are free of separators is a condition
inside the property, on the two contents compared. With separators two contents may be
written alike, as the operation `a` of the actor `b|` and the operation `a|b` of
nobody, and then the property says that the change goes unnoticed.

`PipelineProofs` proves the four properties of `Pipeline`, for any requests and any
batches of rows with integer times and values. The engines go through a batch with
folds, and the library's induction theorems are out of reach, so `FoldExists` and
`FoldChain` show, by a smallest counterexample, that a fold exists and takes the
positions one by one; passing rows, window starts and totals are then chains of
results after each row. `BatchingInvisible` compares two of them: what one pass over
all rows lets through is given by its positions (`GreedyBy`: each kept row passes
against the kept row before it, and each row left out would not), a row at the end
extends or leaves such a description (`GreedyKeeps`, `GreedyDrops`), and a description
determines the rows (`GreedyIsOnePass`). The invariant `StreamInv` says that the output
so far has one for the input so far, and that the states hold the last value let
through. For `WindowsPartition` the starts of windows are increasing and every row is
in exactly the window begun last (`Starting`), whatever the times do. `ExclusionIsShare`
is arithmetic on window counts, `GradesAgree` on fractions with a positive denominator
(`BandsAgree`), for both ways a double may fall at a threshold. The assumption
(`PipelineAssumption`) is that batches are sequences of such rows and that constraints
have the fields of the code's structures.

Some leaves cite a prover with a longer time (`SMTT`, `ZenonT`); all of these proofs
pass with a quarter of the default time or of the cited one.

Only model-checked is liveness (`ImportsReturn`, `ParserReturns`), since the prover
has no fairness reasoning; every invariant of a passing run is proved.

## 5. Not modelled, and the plan

Next, in order:
1. model storage as a register per key that is written once, with refinement;
2. the text format of metadata.json, whose parser counts brackets inside strings;
3. the bytes of INT64 columns in the inter-row engine.

Not modelled, and why:
- the JSON of the HTTP server, of evidence packages and of schemas: translation
  without state; the server's handlers are modelled by the calls they make;
- the schema registry, a map that refuses a second definition of a type, and
  `read_columns`, a projection;
- characters in the lexer: what the parser sees is any sequence of tokens;
- the distributions of samples and the rounding of doubles inside a range: out of
  reach of a model checker;
- races on the memory of unlocked maps and of `list_versions`: the models take a
  map access as one step;
- metrics and spans, on which no behaviour depends; the Python bindings and the
  tools.
