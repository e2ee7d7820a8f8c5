----------------------------- MODULE TableLog ------------------------------
(***************************************************************************)
(* What the table store promises its callers, with no thread, mutex, file  *)
(* or process in sight: every table is a log of appends.  An append gets a *)
(* part number nobody else has, reaches the log at most once, may be lost  *)
(* only as long as it has not, and is acknowledged only after it has.      *)
(***************************************************************************)
EXTENDS Naturals, SequencesExt

CONSTANTS Tables, Parts, Rows

VARIABLES
    log,        \* per table: the versions that survive the process
    pending,    \* appends that have begun and have not reached the log
    acked       \* appends reported ok to their caller

Appends == [table : Tables, part : Parts, rows : Rows]

VersionOf(a) == [part |-> a.part, rows |-> a.rows]

Init ==
    /\ log = [t \in Tables |-> <<>>]
    /\ pending = {}
    /\ acked = {}

\* An append is taken up under a part number that is neither in use nor in a log.
Begin(a) ==
    /\ \A b \in pending : b.part # a.part
    /\ \A t \in Tables : \A i \in DOMAIN log[t] : log[t][i].part # a.part
    /\ pending' = pending \union {a}
    /\ UNCHANGED <<log, acked>>

\* Appends that fail, or that the process takes with it, leave no trace.
Lose ==
    /\ pending' \subseteq pending
    /\ UNCHANGED <<log, acked>>

\* Pending appends of a table join its log, each of them once.
Persist(t) ==
    LET new == {i \in DOMAIN log'[t] : i > Len(log[t])} IN
    /\ IsPrefix(log[t], log'[t])
    /\ \A u \in Tables : u # t => log'[u] = log[u]
    /\ \A i \in new : \E a \in pending : a.table = t /\ log'[t][i] = VersionOf(a)
    /\ \A i, j \in new : log'[t][i] = log'[t][j] => i = j
    /\ pending' = {a \in pending :
                     a.table = t => \A i \in new : log'[t][i] # VersionOf(a)}
    /\ UNCHANGED acked

Acknowledge(a) ==
    /\ Contains(log[a.table], VersionOf(a))
    /\ acked' = acked \union {a}
    /\ UNCHANGED <<log, pending>>

Next ==
    \/ Lose
    \/ \E t \in Tables : Persist(t)
    \/ \E a \in Appends : Begin(a) \/ Acknowledge(a)

vars == <<log, pending, acked>>

Spec == Init /\ [][Next]_vars
=============================================================================
