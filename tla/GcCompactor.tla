----------------------------- MODULE GcCompactor -----------------------------
(***************************************************************************)
(* GcCompactor (storage/gc/gc_compactor.cpp) and ProtectionChecker         *)
(* (storage/gc/protection.cpp) over the version chain.  Calls to the chain *)
(* and the checker are serialised by the callers; the in_progress_ flag is *)
(* what compact itself does about two compactions at a time, so testing    *)
(* it, setting it, the work and resetting it are steps of their own.       *)
(***************************************************************************)
EXTENDS VersionChain, TLC

CONSTANTS
    Threads,            \* callers of compact
    None,               \* no model
    Rows, Fidelities,   \* training_rows and fidelity_score of users' versions
    keep_recent_n,
    MaxProtected        \* bound on the versions protected at a time

ASSUME ConfigAssumption ==
    /\ Rows \subseteq Nat /\ Fidelities \subseteq Nat
    /\ keep_recent_n \in Nat /\ MaxProtected \in Nat

VARIABLES
    snapshot_refs, anchored,    \* the checker's sets
    in_progress,
    pc, model,                  \* per thread: where compact is, for which model
    merges                      \* history: what each compaction merged into what

gcVars == <<snapshot_refs, anchored, in_progress, pc, model, merges>>
vars   == <<versions, gcVars>>

Labels == {"idle", "set", "work", "reset"}

TypeOK ==
    /\ Len(versions) <= MaxVersions
    /\ \A v \in Ids :
          /\ versions[v].model_name \in Models
          /\ versions[v].parent_version_id \in 0..MaxVersions
          /\ versions[v].training_rows \in Nat
          /\ versions[v].fidelity_score \in Fidelities
    /\ snapshot_refs \subseteq Ids /\ anchored \subseteq Ids
    /\ in_progress \in BOOLEAN
    /\ pc \in [Threads -> Labels]
    /\ model \in [Threads -> Models \union {None}]

Init ==
    /\ versions = <<>>
    /\ snapshot_refs = {} /\ anchored = {}
    /\ in_progress = FALSE
    /\ pc = [t \in Threads |-> "idle"]
    /\ model = [t \in Threads |-> None]
    /\ merges = {}

-----------------------------------------------------------------------------
UserCreates(m, parent, rows, fidelity) ==
    /\ create_version(m, parent, rows, fidelity)
    /\ UNCHANGED <<snapshot_refs, anchored, in_progress, pc, model, merges>>

MayProtect(v) == Cardinality(snapshot_refs \union anchored \union {v}) <= MaxProtected

add_snapshot_ref(v) ==
    /\ MayProtect(v)
    /\ snapshot_refs' = snapshot_refs \union {v}
    /\ UNCHANGED <<versions, anchored, in_progress, pc, model, merges>>

remove_snapshot_ref(v) ==
    /\ snapshot_refs' = snapshot_refs \ {v}
    /\ UNCHANGED <<versions, anchored, in_progress, pc, model, merges>>

anchor(v) ==
    /\ MayProtect(v)
    /\ anchored' = anchored \union {v}
    /\ UNCHANGED <<versions, snapshot_refs, in_progress, pc, model, merges>>

unanchor(v) ==
    /\ anchored' = anchored \ {v}
    /\ UNCHANGED <<versions, snapshot_refs, in_progress, pc, model, merges>>

(***************************************************************************)
(* compact.                                                                *)
(***************************************************************************)
CompactCheck(t, m) ==
    /\ ~in_progress
    /\ pc[t] = "idle"
    /\ pc' = [pc EXCEPT ![t] = "set"]
    /\ model' = [model EXCEPT ![t] = m]
    /\ UNCHANGED <<versions, snapshot_refs, anchored, in_progress, merges>>

CompactSet(t) ==
    /\ pc[t] = "set"
    /\ pc' = [pc EXCEPT ![t] = "work"]
    /\ in_progress' = TRUE
    /\ UNCHANGED <<versions, snapshot_refs, anchored, model, merges>>

Protected(recent) == snapshot_refs \union anchored \union recent

RecentTakesOldest(recent, m) ==   \* variant: versions still sorted newest first
    /\ recent \subseteq Of(m)
    /\ recent = Of(m) \/ Cardinality(recent) = keep_recent_n
    /\ Cardinality(recent) <= keep_recent_n
    /\ \A v \in recent, w \in Of(m) \ recent : versions[v].created_at <= versions[w].created_at

\* The last keep_recent_n of the versions sorted by created_at.
Recent(recent, m) == IsListing(recent, m, keep_recent_n)

\* The versions compact would merge, for one outcome of the sort.
Compactable(m, recent) == Of(m) \ Protected(recent)

SumRows(S) == FoldSet(LAMBDA v, sum : versions[v].training_rows + sum, 0, S)

MinFidelity(S) == Min({versions[v].fidelity_score : v \in S})

\* merge_versions: the new version hangs on the parent of the earliest.
merge_versions(m, S, earliest) ==
    /\ earliest \in S
    /\ \A v \in S : versions[earliest].created_at <= versions[v].created_at
    /\ create_version(m, versions[earliest].parent_version_id, SumRows(S), MinFidelity(S))

Merge(m, recent) ==
    /\ Cardinality(Compactable(m, recent)) >= 2
    /\ \E earliest \in Compactable(m, recent) :
          merge_versions(m, Compactable(m, recent), earliest)
    /\ merges' = merges \union
          {[merged |-> Len(versions) + 1, from |-> Compactable(m, recent),
            kept |-> snapshot_refs \union anchored]}

CompactMerges(t) ==
    /\ pc[t] = "work"
    /\ \E recent \in SUBSET Of(model[t]) : Recent(recent, model[t]) /\ Merge(model[t], recent)
    /\ pc' = [pc EXCEPT ![t] = "reset"]
    /\ UNCHANGED <<snapshot_refs, anchored, in_progress, model>>

CompactTooFew(t) ==
    /\ pc[t] = "work"
    /\ \E recent \in SUBSET Of(model[t]) :
          Recent(recent, model[t]) /\ Cardinality(Compactable(model[t], recent)) < 2
    /\ pc' = [pc EXCEPT ![t] = "reset"]
    /\ UNCHANGED <<versions, snapshot_refs, anchored, in_progress, model, merges>>

\* ProgressGuard resets the flag on every way out.
CompactReturn(t) ==
    /\ pc[t] = "reset"
    /\ pc' = [pc EXCEPT ![t] = "idle"]
    /\ in_progress' = FALSE
    /\ model' = [model EXCEPT ![t] = None]
    /\ UNCHANGED <<versions, snapshot_refs, anchored, merges>>

Next ==
    \/ \E m \in Models, parent \in 0..Len(versions), rows \in Rows, f \in Fidelities :
          UserCreates(m, parent, rows, f)
    \/ \E v \in Ids : \/ add_snapshot_ref(v) \/ remove_snapshot_ref(v)
                      \/ anchor(v) \/ unanchor(v)
    \/ \E t \in Threads :
          \/ \E m \in Models : CompactCheck(t, m)
          \/ CompactSet(t) \/ CompactMerges(t) \/ CompactTooFew(t) \/ CompactReturn(t)

Spec == Init /\ [][Next]_vars

-----------------------------------------------------------------------------
\* A compaction never merges a version that is anchored or referenced by a
\* snapshot, nor one of the keep_recent_n newest: for each version merged, that
\* many others of its model are as new and were left alone.
CompactionSparesProtected ==
    \A c \in merges : \A v \in c.from :
        /\ v \notin c.kept
        /\ Cardinality({w \in Of(versions[v].model_name) \ (c.from \union {c.merged}) :
                          versions[w].created_at >= versions[v].created_at}) >= keep_recent_n

\* While one compaction is at work no other one of the same compactor is.
OneCompaction == \A t, u \in Threads : pc[t] = "work" /\ pc[u] = "work" => t = u
=============================================================================
