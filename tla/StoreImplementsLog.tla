------------------------- MODULE StoreImplementsLog ------------------------
(***************************************************************************)
(* ObjectStore implements TableLog: the log of a table is what its         *)
(* metadata.json holds, so the abstract log lives on disk and survives the *)
(* process, while pending appends live in threads and in tables_.          *)
(***************************************************************************)
EXTENDS ObjectStore

\* A thread in append() before add_version.
Unrecorded(c) == pc[c] \in {"open", "write", "add"}

\* An append that a thread is still working on.
InFlight(a) ==
    \E c \in Clients :
        /\ Unrecorded(c)
        /\ call[c].table = a.table /\ call[c].part = a.part /\ call[c].rows = a.rows

\* One that is recorded in tables_ and not in metadata.json: a flush that failed
\* leaves it there for the flush of another call.
Unsaved(a) ==
    \E i \in DOMAIN versions[a.table] :
        /\ i > Len(saved[a.table])
        /\ versions[a.table][i] = [part |-> a.part, rows |-> a.rows]

Pending == {a \in Ack : InFlight(a) \/ Unsaved(a)}

Log == INSTANCE TableLog WITH log <- saved, pending <- Pending

\* Through crashes, failed writes and concurrent calls, the store is a log:
\* part numbers are handed out once, an append reaches metadata.json at most
\* once and in whole, one that was reported ok is already there, and one that
\* was reported failed is either lost or persisted later by somebody else's
\* flush, never half of it (object_store_backend.cpp append, metadata.cpp).
ImplementsTableLog == Log!Spec
=============================================================================
