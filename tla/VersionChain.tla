---------------------------- MODULE VersionChain ----------------------------
(***************************************************************************)
(* ModelVersionChain (storage/version/model_version_chain.cpp): the model  *)
(* versions of one process, kept in memory only.  versions_ and            *)
(* model_versions_ are one sequence in the order of creation; the id       *)
(* generate_version_id makes is unique and stands for the position.  The   *)
(* chain has no lock: its callers serialise the calls.                     *)
(***************************************************************************)
EXTENDS Naturals, FiniteSets, SequencesExt

CONSTANTS
    Models,         \* model names other than the empty one
    MaxVersions     \* bound on the number of versions

ASSUME MaxVersionsAssumption == MaxVersions \in Nat

VARIABLE versions

Ids      == DOMAIN versions
NoParent == 0
Of(m)    == {v \in Ids : versions[v].model_name = m}

\* The k-th version met on the way from a parent to its root, 0 past the root.
WalkUp(parent) ==
    LET up[k \in 0..Len(versions)] ==
          IF k = 0 THEN parent
          ELSE IF up[k - 1] \in Ids THEN versions[up[k - 1]].parent_version_id
          ELSE NoParent
    IN up

\* The walk meets the new id, or is still going after every version was met.
has_cycle(id, parent) ==
    LET up == WalkUp(parent)
    IN (\E k \in DOMAIN up : up[k] = id) \/ up[Len(versions)] # NoParent

\* steady_clock does not go back, and two versions may get the same reading.
ClockReadings ==
    IF versions = <<>> THEN {1} ELSE {Last(versions).created_at, Last(versions).created_at + 1}

ParentOfAnyModel(m, parent) == parent = NoParent \/ parent \in Ids   \* variant

ParentAllowed(m, parent) ==
    parent = NoParent \/ (parent \in Ids /\ versions[parent].model_name = m)

create_version(m, parent, rows, fidelity) ==
    /\ Len(versions) < MaxVersions
    /\ ParentAllowed(m, parent)
    /\ ~has_cycle(Len(versions) + 1, parent)
    /\ \E now \in ClockReadings :
          versions' = Append(versions,
              [model_name |-> m, parent_version_id |-> parent, created_at |-> now,
               training_rows |-> rows, fidelity_score |-> fidelity])

\* Whether list_versions may return the versions in listed: the limit newest of
\* the model.  std::sort leaves the order of equal timestamps open.
IsListing(listed, m, limit) ==
    /\ listed \subseteq Of(m)
    /\ listed = Of(m) \/ Cardinality(listed) = limit
    /\ Cardinality(listed) <= limit
    /\ \A v \in listed, w \in Of(m) \ listed : versions[v].created_at >= versions[w].created_at

-----------------------------------------------------------------------------
\* Every version's parent is an older version of the same model, so following
\* parents always ends at a version without one.
ChainIsForest ==
    \A v \in Ids :
        LET p == versions[v].parent_version_id IN
        p # NoParent =>
            /\ p \in 1..(v - 1)
            /\ versions[p].model_name = versions[v].model_name
            /\ versions[p].created_at <= versions[v].created_at
=============================================================================
