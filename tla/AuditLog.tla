------------------------------ MODULE AuditLog ------------------------------
(***************************************************************************)
(* The hash-chained audit log (storage/audit/audit_log.cpp).  Every public *)
(* operation holds mutex_ from its first test to its return, so each one   *)
(* is a single step; a call that fails its test changes nothing.           *)
(*                                                                         *)
(* Strings are sequences of tokens, so that the separators the content     *)
(* encoding puts between fields are tokens among the others.  SHA-256 is   *)
(* taken to be free of collisions: a digest is the text hashed, under a    *)
(* tag.  The system clock may stand still or go backwards.                 *)
(***************************************************************************)
EXTENDS Naturals, FiniteSets, SequencesExt

CONSTANTS
    Operations,     \* operation names other than the empty one
    Actors,         \* actor identities
    Metadatas,      \* metadata maps: sequences of <<key, value>> in key order
    Times,          \* readings of system_clock
    MaxRecords      \* bound on the length of the log

ASSUME TimesAssumption == Times \subseteq Nat /\ MaxRecords \in Nat

\* Contents are sequences of tokens, with any separators in them, and different
\* times are printed differently.
ASSUME TextAssumption ==
    /\ Operations \union Actors \subseteq Seq(STRING)
    /\ \A meta \in Metadatas : meta \in Seq(Seq(STRING) \X Seq(STRING))
    /\ \A time, other \in Times : ToString(time) = ToString(other) => time = other

VARIABLES records, genesis_created, next_id

vars == <<records, genesis_created, next_id>>

Sha256(text) == <<"sha256", text>>
Zero         == <<"0">>

MetadataText(meta) ==
    FlattenSeq([i \in DOMAIN meta |-> meta[i][1] \o <<"=">> \o meta[i][2] \o <<";">>])

compute_content_hash(r) ==
    Sha256(r.operation \o <<"|">> \o r.actor_identity \o <<"|">>
           \o <<ToString(r.timestamp)>> \o <<"|">> \o MetadataText(r.metadata))

ContentOnlyHash(prev_hash, content_hash) == Sha256(<<content_hash>>)   \* variant

compute_chain_hash(prev_hash, content_hash) == Sha256(<<prev_hash, content_hash>>)

NewRecord(id, op, actor, time, meta, prev) ==
    LET body    == [operation |-> op, actor_identity |-> actor,
                    timestamp |-> time, metadata |-> meta]
        content == compute_content_hash(body)
    IN [record_id |-> id, operation |-> op, actor_identity |-> actor,
        timestamp |-> time, metadata |-> meta, prev_hash |-> prev,
        content_hash |-> content, chain_hash |-> compute_chain_hash(prev, content)]

Init ==
    /\ records = <<>>
    /\ genesis_created = FALSE
    /\ next_id = 1

create_genesis(time) ==
    /\ ~genesis_created
    /\ records' = Append(records,
                    NewRecord(next_id, <<"genesis">>, <<"system">>, time, <<>>, Zero))
    /\ genesis_created' = TRUE
    /\ next_id' = next_id + 1

FirstHash(rs) == rs[1].chain_hash   \* variant: chains to the first record

LastHash(rs) == rs[Len(rs)].chain_hash

append(op, actor, meta, time) ==
    /\ genesis_created
    /\ Len(records) < MaxRecords
    /\ records' = Append(records,
                    NewRecord(next_id, op, actor, time, meta, LastHash(records)))
    /\ next_id' = next_id + 1
    /\ UNCHANGED genesis_created

Next ==
    \/ \E time \in Times : create_genesis(time)
    \/ \E op \in Operations, actor \in Actors, meta \in Metadatas, time \in Times :
          append(op, actor, meta, time)

Spec == Init /\ [][Next]_vars

-----------------------------------------------------------------------------
(***************************************************************************)
(* The read operations, as functions of a sequence of records.             *)
(***************************************************************************)
LinkOk(rs, i)        == rs[i].prev_hash = rs[i - 1].chain_hash
ContentOk(rs, i)     == rs[i].content_hash = compute_content_hash(rs[i])
ChainOk(rs, i)       == rs[i].chain_hash =
                            compute_chain_hash(rs[i].prev_hash, rs[i].content_hash)

NoContentCheck(rs) == \A i \in 2..Len(rs) : LinkOk(rs, i) /\ ChainOk(rs, i)   \* variant

verify_chain(rs) ==
    \A i \in 2..Len(rs) : LinkOk(rs, i) /\ ContentOk(rs, i) /\ ChainOk(rs, i)

\* broken_links gets the id of a record once for each of the three tests it fails.
daily_verification(rs) ==
    LET Broken(i) == (IF LinkOk(rs, i) THEN <<>> ELSE <<rs[i].record_id>>)
                  \o (IF ContentOk(rs, i) THEN <<>> ELSE <<rs[i].record_id>>)
                  \o (IF ChainOk(rs, i) THEN <<>> ELSE <<rs[i].record_id>>)
        links == FlattenSeq([k \in 1..(Len(rs) - 1) |-> Broken(k + 1)])
    IN [is_valid |-> links = <<>>, total_records |-> Len(rs), broken_links |-> links]

\* The predecessors that more than one record names.
detect_forks(rs) ==
    {h \in {rs[i].prev_hash : i \in DOMAIN rs} :
        Cardinality({i \in DOMAIN rs : rs[i].prev_hash = h}) > 1}

ScanBreaksEarly(rs, from, to, limit) ==   \* variant: tests the limit before push_back
    FoldLeft(LAMBDA result, r :
                 IF \/ r.timestamp < from \/ r.timestamp > to
                    \/ limit > 0 /\ Len(result) + 1 >= limit
                 THEN result ELSE Append(result, r),
             <<>>, rs)

\* The loop breaks once limit records are collected; a limit of 0 never stops it.
scan(rs, from, to, limit) ==
    FoldLeft(LAMBDA result, r :
                 IF \/ r.timestamp < from \/ r.timestamp > to
                    \/ limit > 0 /\ Len(result) >= limit
                 THEN result ELSE Append(result, r),
             <<>>, rs)

-----------------------------------------------------------------------------
TypeOK ==
    /\ DOMAIN records = 1..Len(records)
    /\ genesis_created \in BOOLEAN
    /\ next_id \in Nat \ {0}
    /\ \A i \in DOMAIN records :
          /\ records[i].record_id \in 1..(next_id - 1)
          /\ records[i].operation \in Operations \union {<<"genesis">>}
          /\ records[i].actor_identity \in Actors \union {<<"system">>}
          /\ records[i].timestamp \in Times
          /\ records[i].metadata \in Metadatas \union {<<>>}

\* Whatever create_genesis and append calls threads make, in whatever order and
\* whatever the clock shows, verify_chain accepts the log they leave.
ChainVerifies == verify_chain(records)

\* detect_forks never reports an undisturbed log: no two records name the same
\* predecessor, even when identical operations are logged at the same instant.
NoForks == detect_forks(records) = {}

Free(text, separator) == \A i \in DOMAIN text : text[i] # separator

\* Contents without the separators that append neither refuses nor escapes.
SeparatorFree(r) ==
    /\ Free(r.operation, "|") /\ Free(r.actor_identity, "|")
    /\ \A i \in DOMAIN r.metadata : Free(r.metadata[i][1], "=") /\ Free(r.metadata[i][2], ";")

\* When the content of one record after the genesis record is changed, the log
\* is refused, and the report names that record and no other, exactly when the
\* text hashed has changed: always when neither content has a separator in it.
\* A log with a record taken out from between two others is always refused.
AlterationsFound ==
    \A i \in 2..Len(records) :
        /\ \A op \in Operations, actor \in Actors, meta \in Metadatas, time \in Times :
              LET altered == [records EXCEPT ![i] =
                                [@ EXCEPT !.operation = op, !.actor_identity = actor,
                                          !.metadata = meta, !.timestamp = time]]
                  report  == daily_verification(altered)
                  told    == compute_content_hash(altered[i]) # compute_content_hash(records[i])
              IN altered # records =>
                   /\ verify_chain(altered) <=> ~told
                   /\ report.is_valid <=> ~told
                   /\ ToSet(report.broken_links) = IF told THEN {records[i].record_id} ELSE {}
                   /\ SeparatorFree(altered[i]) /\ SeparatorFree(records[i]) => told
        /\ i < Len(records) => ~verify_chain(RemoveAt(records, i))

\* scan returns the records of the inclusive interval in log order, cut to the
\* first limit of them: the earliest appended, wherever the clock has jumped.
ScanIsPrefixOfInterval ==
    \A from, to \in Times, limit \in 0..MaxRecords :
        LET hits   == {i \in DOMAIN records : records[i].timestamp \in from..to}
            result == scan(records, from, to, limit)
        IN /\ Len(result) = IF limit > 0 /\ Cardinality(hits) > limit
                            THEN limit ELSE Cardinality(hits)
           /\ \A i \in hits :
                 LET rank == Cardinality({j \in hits : j <= i})
                 IN rank <= Len(result) => result[rank] = records[i]
=============================================================================
