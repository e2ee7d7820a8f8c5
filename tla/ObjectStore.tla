---------------------------- MODULE ObjectStore ----------------------------
(***************************************************************************)
(* The table store: ObjectStoreBackend (object_store_backend.cpp) with the *)
(* MetadataManager it owns (metadata.cpp) and the ParquetWriter it calls   *)
(* (parquet_io.cpp), used by several threads of one process that may die   *)
(* at any moment and be started again over the same directory.             *)
(*                                                                         *)
(* Memory and disk are kept apart.  In memory: tables_ (registered and     *)
(* versions), next_part_ and the mutex.  On disk, per table: metadata.json *)
(* (onDisk and saved), the base directory, and the part files.             *)
(*                                                                         *)
(* A crash is the death of the process: what was written stays written.    *)
(* An error return that changes nothing is a stuttering step and has no    *)
(* action of its own.                                                      *)
(***************************************************************************)
EXTENDS Naturals, SequencesExt

CONSTANTS
    Clients,        \* threads that call the backend
    Tables,         \* table ids
    Rows,           \* contents of the Arrow tables handed to append
    MaxPart,        \* bound: part numbers one incarnation may allocate
    ReloadMayFail,  \* whether opening a metadata.json at start-up may fail
    None,           \* no client, no table, no rows
    NoFile, Torn    \* a part file that does not exist / is not complete

ASSUME BoundsAssumption == MaxPart \in Nat \ {0} /\ ReloadMayFail \in BOOLEAN

ASSUME SentinelAssumption ==
    /\ None \notin Clients \union Tables \union Rows
    /\ {NoFile, Torn} \intersect Rows = {}
    /\ NoFile # Torn

VARIABLES
    registered,     \* tables_: the keys
    versions,       \* tables_[t].versions, in the order of push_back
    next_part,      \* next_part_, one counter for all the tables
    mutex,          \* holder of MetadataManager::mutex_ across several steps
    onDisk,         \* tables whose metadata.json exists
    saved,          \* the versions in metadata.json
    baseDir,        \* tables whose base directory exists
    files,          \* contents of base/part-<n>.parquet
    pc, call,       \* per client: where its call is, and with what arguments
    todo,           \* per client in flush(): tables still to be written
    scan,           \* per client in scan(): parts listed, parts read
    acked           \* history: appends that returned ok

memVars  == <<registered, versions, next_part, mutex>>
diskVars == <<onDisk, saved, baseDir, files>>
procVars == <<pc, call, todo, scan>>
vars     == <<memVars, diskVars, procVars, acked>>

Parts   == 1..MaxPart
Version == [part : Parts, rows : Rows]
Ack     == [table : Tables, part : Parts, rows : Rows]

NoCall == [op |-> "none", table |-> None, part |-> 0, rows |-> None]
NoScan == [todo |-> {}, seen |-> {}, must |-> {}]

Labels == {"idle", "base", "open", "write", "add", "flush", "flushing",
           "scan", "empty"}

TypeOK ==
    /\ registered \subseteq Tables
    /\ versions \in [Tables -> Seq(Version)]
    /\ next_part \in 1..(MaxPart + 1)
    /\ mutex \in Clients \union {None}
    /\ onDisk \subseteq Tables
    /\ saved \in [Tables -> Seq(Version)]
    /\ baseDir \subseteq Tables
    /\ files \in [Tables -> [Parts -> Rows \union {NoFile, Torn}]]
    /\ pc \in [Clients -> Labels]
    /\ call \in [Clients -> [op : {"none", "register", "append", "scan"},
                             table : Tables \union {None},
                             part : Nat,
                             rows : Rows \union {None}]]
    /\ todo \in [Clients -> SUBSET Tables]
    /\ scan \in [Clients -> [todo : SUBSET Parts,
                             seen : SUBSET Version,
                             must : SUBSET Version]]
    /\ acked \subseteq Ack

Init ==
    /\ registered = {}
    /\ versions = [t \in Tables |-> <<>>]
    /\ next_part = 1
    /\ mutex = None
    /\ onDisk = {}
    /\ saved = [t \in Tables |-> <<>>]
    /\ baseDir = {}
    /\ files = [t \in Tables |-> [p \in Parts |-> NoFile]]
    /\ pc = [c \in Clients |-> "idle"]
    /\ call = [c \in Clients |-> NoCall]
    /\ todo = [c \in Clients |-> {}]
    /\ scan = [c \in Clients |-> NoScan]
    /\ acked = {}

-----------------------------------------------------------------------------
Go(c, from, to) == pc[c] = from /\ pc' = [pc EXCEPT ![c] = to]

Return(c, from) == Go(c, from, "idle") /\ call' = [call EXCEPT ![c] = NoCall]

(***************************************************************************)
(* register_table: create_table under the mutex, then the base directory,  *)
(* then flush.  Failing to make the directory returns an error but leaves  *)
(* the table in tables_.                                                   *)
(***************************************************************************)
CreateTableAnyway(c, t) ==   \* variant: no kTableAlreadyExists
    /\ mutex = None
    /\ Go(c, "idle", "base")
    /\ call' = [call EXCEPT ![c] = [NoCall EXCEPT !.op = "register", !.table = t]]
    /\ registered' = registered \union {t}
    /\ versions' = [versions EXCEPT ![t] = <<>>]
    /\ UNCHANGED <<next_part, mutex, diskVars, todo, scan, acked>>

CreateTable(c, t) == t \notin registered /\ CreateTableAnyway(c, t)

MakeBaseDir(c) ==
    /\ Go(c, "base", "flush")
    /\ baseDir' = baseDir \union {call[c].table}
    /\ UNCHANGED <<memVars, onDisk, saved, files, call, todo, scan, acked>>

MakeBaseDirFails(c) ==
    /\ Return(c, "base")
    /\ UNCHANGED <<memVars, diskVars, todo, scan, acked>>

(***************************************************************************)
(* append: get_table and next_part_number (a table is never erased from    *)
(* tables_, so the two short critical sections are one step), the part     *)
(* file, add_version, flush.                                               *)
(***************************************************************************)
AppendStart(c, t, r) ==
    /\ mutex = None
    /\ t \in registered
    /\ next_part \in Parts
    /\ Go(c, "idle", "open")
    /\ call' = [call EXCEPT ![c] =
                  [op |-> "append", table |-> t, part |-> next_part, rows |-> r]]
    /\ next_part' = next_part + 1
    /\ UNCHANGED <<registered, versions, mutex, diskVars, todo, scan, acked>>

PutFile(c, content) ==
    files' = [files EXCEPT ![call[c].table][call[c].part] = content]

\* FileOutputStream::Open truncates an existing file.
OpenPart(c) ==
    /\ call[c].table \in baseDir
    /\ Go(c, "open", "write")
    /\ PutFile(c, Torn)
    /\ UNCHANGED <<memVars, onDisk, saved, baseDir, call, todo, scan, acked>>

OpenPartFails(c) ==
    /\ Return(c, "open")
    /\ UNCHANGED <<memVars, diskVars, todo, scan, acked>>

WritePart(c) ==
    /\ Go(c, "write", "add")
    /\ PutFile(c, call[c].rows)
    /\ UNCHANGED <<memVars, onDisk, saved, baseDir, call, todo, scan, acked>>

WritePartFails(c) ==
    /\ Return(c, "write")
    /\ UNCHANGED <<memVars, diskVars, todo, scan, acked>>

RecordVersion(c, v) ==
    /\ mutex = None
    /\ Go(c, "add", "flush")
    /\ versions' = [versions EXCEPT ![call[c].table] = Append(@, v)]
    /\ UNCHANGED <<registered, next_part, mutex, diskVars, call, todo, scan, acked>>

AddVersionRereads(c) ==   \* variant: names the version after the counter
    RecordVersion(c, [part |-> next_part, rows |-> call[c].rows])

AddVersion(c) == RecordVersion(c, [part |-> call[c].part, rows |-> call[c].rows])

(***************************************************************************)
(* MetadataManager::flush: the mutex is held over the loop, each table's   *)
(* metadata.json is replaced by a rename, and the first failure ends the   *)
(* loop with an error.  tables_ is unordered: the order is arbitrary.      *)
(***************************************************************************)
FlushLock(c) ==
    /\ mutex = None
    /\ Go(c, "flush", "flushing")
    /\ mutex' = c
    /\ todo' = [todo EXCEPT ![c] = registered]
    /\ UNCHANGED <<registered, versions, next_part, diskVars, call, scan, acked>>

FlushTable(c, t) ==
    /\ pc[c] = "flushing"
    /\ t \in todo[c]
    /\ todo' = [todo EXCEPT ![c] = @ \ {t}]
    /\ onDisk' = onDisk \union {t}
    /\ saved' = [saved EXCEPT ![t] = versions[t]]
    /\ UNCHANGED <<memVars, baseDir, files, pc, call, scan, acked>>

\* What an append has to report when its flush succeeds.
Report(c) ==
    IF call[c].op = "append"
    THEN {[table |-> call[c].table, part |-> call[c].part, rows |-> call[c].rows]}
    ELSE {}

FlushReturns(c, holder, report) ==
    /\ Return(c, "flushing")
    /\ mutex' = holder
    /\ todo' = [todo EXCEPT ![c] = {}]
    /\ acked' = acked \union report
    /\ UNCHANGED <<registered, versions, next_part, diskVars, scan>>

FlushErrorIgnored(c) == todo[c] # {} /\ FlushReturns(c, None, Report(c))   \* variant

FlushFailsLocked(c) == todo[c] # {} /\ FlushReturns(c, c, {})   \* variant

FlushFails(c) == todo[c] # {} /\ FlushReturns(c, None, {})

FlushDone(c) == todo[c] = {} /\ FlushReturns(c, None, Report(c))

(***************************************************************************)
(* scan: get_table, then every *.parquet file of the base directory, read  *)
(* one after the other; a file created meanwhile may or may not be met.    *)
(* One unreadable file fails the whole call.  Where the base directory is  *)
(* not there, cannot be looked up or cannot be opened, scan does not fail: *)
(* the error code is not looked at and the answer is the empty table.      *)
(***************************************************************************)
ListingShort(t) == {p \in Parts : files[t][p] # NoFile /\ p + 1 < next_part}   \* variant

Listing(t) == {p \in Parts : files[t][p] # NoFile}

AckedVersions(t) ==
    {v \in Version : [table |-> t, part |-> v.part, rows |-> v.rows] \in acked}

ScanGoes(c, t, to, listing) ==
    /\ mutex = None
    /\ t \in registered
    /\ Go(c, "idle", to)
    /\ call' = [call EXCEPT ![c] = [NoCall EXCEPT !.op = "scan", !.table = t]]
    /\ scan' = [scan EXCEPT ![c] =
                  [todo |-> listing, seen |-> {}, must |-> AckedVersions(t)]]
    /\ UNCHANGED <<memVars, diskVars, todo, acked>>

ScanStart(c, t) == ScanGoes(c, t, "scan", Listing(t))

ScanUnlisted(c, t) == ScanGoes(c, t, "empty", {})

ScanRead(c, p) ==
    LET content == files[call[c].table][p] IN
    /\ pc[c] = "scan"
    /\ content \in Rows
    /\ \A v \in scan[c].seen : v.part # p
    /\ scan' = [scan EXCEPT ![c] =
                  [todo |-> @.todo \ {p},
                   seen |-> @.seen \union {[part |-> p, rows |-> content]},
                   must |-> @.must]]
    /\ UNCHANGED <<memVars, diskVars, pc, call, todo, acked>>

ScanEnds(c, from) ==
    /\ Return(c, from)
    /\ scan' = [scan EXCEPT ![c] = NoScan]
    /\ UNCHANGED <<memVars, diskVars, todo, acked>>

\* A torn part cannot be read, and a complete one may fail to open or to be read;
\* so may the step of the iterator from one entry to the next, which throws.
ScanFails(c, p) == ScanEnds(c, "scan") /\ files[call[c].table][p] # NoFile

ScanDone(c) == scan[c].todo = {} /\ ScanEnds(c, "scan")

ScanReturnsEmpty(c) == ScanEnds(c, "empty")

(***************************************************************************)
(* The process dies and the constructor runs reload() over what is on      *)
(* disk.  A metadata.json that cannot be opened ends the loop; the         *)
(* constructor ignores the error and keeps the tables loaded so far.       *)
(***************************************************************************)
RecordedParts(t) == {saved[t][i].part : i \in DOMAIN saved[t]}

ReloadedPartReused(n, loaded) ==   \* variant: the largest part, not the one after
    /\ \A t \in loaded : \A p \in RecordedParts(t) : p <= n
    /\ n = 1 \/ \E t \in loaded : n \in RecordedParts(t)

\* next_part_ after the loop: one more than the largest part of a loaded table.
ReloadedNextPart(n, loaded) ==
    /\ \A t \in loaded : \A p \in RecordedParts(t) : p < n
    /\ n = 1 \/ \E t \in loaded : n - 1 \in RecordedParts(t)

Restart(loaded) ==
    /\ loaded \subseteq onDisk
    /\ loaded = onDisk \/ ReloadMayFail
    /\ registered' = loaded
    /\ versions' = [t \in Tables |-> IF t \in loaded THEN saved[t] ELSE <<>>]
    /\ next_part' \in 1..(MaxPart + 1)
    /\ ReloadedNextPart(next_part', loaded)
    /\ mutex' = None
    /\ pc' = [c \in Clients |-> "idle"]
    /\ call' = [c \in Clients |-> NoCall]
    /\ todo' = [c \in Clients |-> {}]
    /\ scan' = [c \in Clients |-> NoScan]
    /\ UNCHANGED <<diskVars, acked>>

-----------------------------------------------------------------------------
\* The steps that carry a call that has started to its return.
Progress(c) ==
    \/ MakeBaseDir(c) \/ MakeBaseDirFails(c)
    \/ OpenPart(c) \/ OpenPartFails(c)
    \/ WritePart(c) \/ WritePartFails(c)
    \/ AddVersion(c)
    \/ FlushLock(c) \/ FlushFails(c) \/ FlushDone(c)
    \/ \E t \in Tables : FlushTable(c, t)
    \/ \E p \in Parts : ScanRead(c, p) \/ ScanFails(c, p)
    \/ ScanDone(c) \/ ScanReturnsEmpty(c)

Start(c) ==
    \E t \in Tables :
        \/ CreateTable(c, t)
        \/ ScanStart(c, t) \/ ScanUnlisted(c, t)
        \/ \E r \in Rows : AppendStart(c, t, r)

Next ==
    \/ \E c \in Clients : Start(c) \/ Progress(c)
    \/ \E loaded \in SUBSET Tables : Restart(loaded)

Spec == Init /\ [][Next]_vars

-----------------------------------------------------------------------------
\* An append that returned ok is found again: its version is in metadata.json
\* and its part file is complete, whatever crashes, failed writes and other
\* appends came after (object_store_backend.cpp append, metadata.cpp reload).
AckedDurable ==
    \A a \in acked :
        /\ Contains(saved[a.table], [part |-> a.part, rows |-> a.rows])
        /\ files[a.table][a.part] = a.rows

\* No two recorded versions, of one table or of two, share a part number, and
\* the part file of every recorded version holds exactly the rows recorded:
\* next_part_ never hands out a number again once a version carries it.
VersionsOwnTheirParts ==
    \A t, u \in Tables : \A i \in DOMAIN versions[t], j \in DOMAIN versions[u] :
        /\ files[t][versions[t][i].part] = versions[t][i].rows
        /\ versions[t][i].part = versions[u][j].part => t = u /\ i = j

\* No step of any thread, no restart and no partly failed flush ever takes a
\* version out of a metadata.json or reorders what is there.
SavedVersionsGrow ==
    [][\A t \in Tables : IsPrefix(saved[t], saved'[t])]_vars

\* A scan that could list its base directory covers every append acknowledged
\* before it began: each such part is still to be read, or was read with the rows
\* appended.  A scan that could not has read nothing, so no scan returns some of
\* the acknowledged rows without the others.
ScanCoversAcked ==
    \A c \in Clients :
        \/ pc[c] = "empty" /\ scan[c].seen = {}
        \/ \A v \in scan[c].must : v \in scan[c].seen \/ v.part \in scan[c].todo

\* "No data yet" is what the comment at the empty answer says of the table: a scan
\* about to return no part at all is of a table without an acknowledged append.
EmptyMeansNoData ==
    \A c \in Clients :
        pc[c] \in {"scan", "empty"} /\ scan[c].todo = {} /\ scan[c].seen = {} =>
            scan[c].must = {}
=============================================================================
