-------------------------- MODULE GcCompactorProofs --------------------------
(***************************************************************************)
(* Proofs about the version chain and the compactor, for every number of   *)
(* versions, models and threads, every keep_recent_n and every way         *)
(* std::sort may order equal timestamps.                                   *)
(***************************************************************************)
EXTENDS GcCompactor, FiniteSetTheorems, TLAPS

\* versions is a sequence of versions with their names, parents and times.
ChainTypes ==
    /\ \E S : versions \in Seq(S)
    /\ \A v \in Ids :
          /\ versions[v].model_name \in Models
          /\ versions[v].parent_version_id \in Nat
          /\ versions[v].created_at \in Nat

\* Versions are in the order of their times.
InOrder == \A v, w \in Ids : v <= w => versions[v].created_at <= versions[w].created_at

\* A compaction on its way knows its model.
CallTypes ==
    /\ pc \in [Threads -> Labels]
    /\ model \in [Threads -> Models \union {None}]
    /\ \A t \in Threads : pc[t] # "idle" => model[t] \in Models

\* What was merged, and the version it was merged into, are versions of the chain.
MergesInChain == \A c \in merges : c.from \subseteq Ids /\ c.merged \in Ids

IInv ==
    /\ ChainTypes /\ InOrder /\ ChainIsForest
    /\ CallTypes /\ MergesInChain /\ CompactionSparesProtected

-----------------------------------------------------------------------------
(***************************************************************************)
(* create_version, for every caller.                                       *)
(***************************************************************************)
\* The chain grows at its end by a version of model m under an allowed parent.
Grows(m, parent) ==
    \E r :
        /\ versions' = Append(versions, r)
        /\ r.model_name = m /\ r.parent_version_id = parent
        /\ r.created_at \in ClockReadings

\* What create_version appends is such a version.
LEMMA CreateGrows ==
  ASSUME NEW m, NEW parent, NEW rows, NEW fidelity, create_version(m, parent, rows, fidelity)
  PROVE  Grows(m, parent) /\ ParentAllowed(m, parent)
  BY DEF create_version, Grows

\* Appending leaves the versions there are and adds one.
LEMMA Appended ==
  ASSUME ChainTypes, NEW r, versions' = Append(versions, r)
  PROVE  /\ \E S : versions' \in Seq(S)
         /\ Len(versions) \in Nat /\ Ids = 1..Len(versions)
         /\ Ids' = 1..(Len(versions) + 1)
         /\ \A v \in Ids : versions'[v] = versions[v]
         /\ versions'[Len(versions) + 1] = r
<1>1. PICK S : versions \in Seq(S)
  BY DEF ChainTypes
<1>2. versions \in Seq(S \union {r}) /\ r \in S \union {r}
  BY <1>1
<1>3. Append(versions, r) \in Seq(S \union {r})
  BY <1>2
<1> QED BY <1>2, <1>3 DEF Ids

\* The clock does not go back behind any version.
LEMMA ClockLatest ==
  ASSUME ChainTypes, InOrder, NEW now \in ClockReadings
  PROVE  now \in Nat /\ \A v \in Ids : versions[v].created_at <= now
<1>1. PICK S : versions \in Seq(S)
  BY DEF ChainTypes
<1>2. CASE versions = <<>>
  BY <1>2 DEF ClockReadings, Ids
<1>3. CASE versions # <<>>
  <2>1. Len(versions) \in Ids /\ \A v \in Ids : v <= Len(versions)
    BY <1>1, <1>3 DEF Ids
  <2>2. Last(versions) = versions[Len(versions)]
    BY DEF Last
  <2>3. /\ versions[Len(versions)].created_at \in Nat
        /\ \A v \in Ids : versions[v].created_at <= versions[Len(versions)].created_at
    BY <2>1 DEF ChainTypes, InOrder
  <2>4. \A v \in Ids : versions[v].created_at \in Nat
    BY DEF ChainTypes
  <2>5. now \in {versions[Len(versions)].created_at, versions[Len(versions)].created_at + 1}
    BY <1>3, <2>2 DEF ClockReadings
  <2> QED BY <2>3, <2>4, <2>5
<1> QED BY <1>2, <1>3

\* Whoever calls it, create_version keeps the chain a forest in the order of time.
LEMMA ChainStep ==
  ASSUME ChainTypes, InOrder, ChainIsForest, NEW m \in Models, NEW parent,
         Grows(m, parent), ParentAllowed(m, parent)
  PROVE  ChainTypes' /\ InOrder' /\ ChainIsForest'
<1> DEFINE n == Len(versions) + 1
<1>1. PICK r : /\ versions' = Append(versions, r)
               /\ r.model_name = m /\ r.parent_version_id = parent
               /\ r.created_at \in ClockReadings
  BY DEF Grows
<1>2. /\ \E S : versions' \in Seq(S)
      /\ Len(versions) \in Nat /\ Ids = 1..Len(versions) /\ Ids' = 1..n
      /\ \A v \in Ids : versions'[v] = versions[v]
      /\ versions'[n] = r
  BY <1>1, Appended
<1>3. r.created_at \in Nat /\ \A v \in Ids : versions[v].created_at <= r.created_at
  BY <1>1, ClockLatest
<1>4. parent \in Nat /\ (parent # NoParent => parent \in Ids /\ versions[parent].model_name = m)
  BY <1>2 DEF ParentAllowed, NoParent
<1>5. Ids' = Ids \union {n} /\ n \notin Ids
  BY <1>2
<1>6. ChainTypes'
  BY <1>1, <1>2, <1>3, <1>4, <1>5 DEF ChainTypes
<1>7. InOrder'
  <2> SUFFICES ASSUME NEW v \in Ids', NEW w \in Ids', v <= w
               PROVE  versions'[v].created_at <= versions'[w].created_at
    BY DEF InOrder
  <2>1. CASE w = n
    BY <1>2, <1>3, <1>5, <2>1
  <2>2. CASE w # n
    BY <1>2, <1>5, <2>2 DEF InOrder
  <2> QED BY <2>1, <2>2
<1>8. ChainIsForest'
  <2> SUFFICES ASSUME NEW v \in Ids', versions'[v].parent_version_id # NoParent
               PROVE  LET p == versions'[v].parent_version_id
                      IN /\ p \in 1..(v - 1)
                         /\ versions'[p].model_name = versions'[v].model_name
                         /\ versions'[p].created_at <= versions'[v].created_at
    BY DEF ChainIsForest
  <2>1. CASE v = n
    BY <1>1, <1>2, <1>3, <1>4, <2>1
  <2>2. CASE v # n
    <3> DEFINE p == versions[v].parent_version_id
    <3>1. v \in Ids /\ versions'[v] = versions[v] /\ p # NoParent
      BY <1>2, <1>5, <2>2
    <3>2. /\ p \in 1..(v - 1) /\ versions[p].model_name = versions[v].model_name
          /\ versions[p].created_at <= versions[v].created_at
      BY <3>1 DEF ChainIsForest
    <3>3. p \in Ids
      BY <1>2, <3>1, <3>2
    <3> QED BY <1>2, <3>1, <3>2, <3>3
  <2> QED BY <2>1, <2>2
<1> QED BY <1>6, <1>7, <1>8

-----------------------------------------------------------------------------
(***************************************************************************)
(* compact.                                                                *)
(***************************************************************************)
\* The versions as new as v that the merge c left alone.
Spared(c, v) ==
    {w \in Of(versions[v].model_name) \ (c.from \union {c.merged}) :
        versions[w].created_at >= versions[v].created_at}

SparesProtected(c) ==
    \A v \in c.from : v \notin c.kept /\ Cardinality(Spared(c, v)) >= keep_recent_n

\* A later version takes none away from what an earlier compaction left alone.
LEMMA SparedStays ==
  ASSUME ChainTypes, ChainTypes', NEW c, c.from \subseteq Ids, c.merged \in Ids,
         SparesProtected(c), NEW r, versions' = Append(versions, r)
  PROVE  SparesProtected(c)'
<1> SUFFICES ASSUME NEW v \in c.from
             PROVE  v \notin c.kept /\ Cardinality(Spared(c, v)') >= keep_recent_n
  BY DEF SparesProtected
<1>1. Ids \subseteq Ids' /\ \A w \in Ids : versions'[w] = versions[w]
  BY Appended
<1>2. Spared(c, v) \subseteq Spared(c, v)' /\ Spared(c, v)' \subseteq Ids'
  BY <1>1 DEF Spared, Of
<1>3. Spared(c, v) \subseteq Ids
  BY DEF Spared, Of
<1>4. v \notin c.kept /\ Cardinality(Spared(c, v)) >= keep_recent_n
  BY DEF SparesProtected
<1> DEFINE S == Spared(c, v)
           T == Spared(c, v)'
<1> HIDE DEF S, T
<1>5. IsFiniteSet(T)
  <2>1. IsFiniteSet(Ids')
    BY FS_Interval DEF ChainTypes, Ids
  <2> QED BY <1>2, <2>1, FS_Subset DEF T
<1>6. S \subseteq T
  BY <1>2 DEF S, T
<1>7. Cardinality(S) <= Cardinality(T) /\ Cardinality(S) \in Nat /\ Cardinality(T) \in Nat
  BY <1>5, <1>6, FS_Subset, FS_CardinalityType
<1> QED BY <1>4, <1>7, ConfigAssumption DEF S, T

\* What one compaction merges spares what is protected: of the model's versions
\* the keep_recent_n newest are not among them, in whatever order equal times were
\* sorted.
LEMMA MergeSpares ==
  ASSUME ChainTypes, ChainTypes', NEW m \in Models, NEW recent \in SUBSET Of(m),
         Recent(recent, m), NEW r, versions' = Append(versions, r),
         NEW c, c.merged = Len(versions) + 1, c.from = Compactable(m, recent),
         c.kept = snapshot_refs \union anchored
  PROVE  SparesProtected(c)'
<1> SUFFICES ASSUME NEW v \in Compactable(m, recent)
             PROVE  v \notin c.kept /\ Cardinality(Spared(c, v)') >= keep_recent_n
  BY DEF SparesProtected
<1>1. /\ Len(versions) \in Nat /\ Ids = 1..Len(versions) /\ Ids' = 1..(Len(versions) + 1)
      /\ \A w \in Ids : versions'[w] = versions[w]
  BY Appended
<1>2. v \in Of(m) \ recent /\ v \notin c.kept
  BY DEF Compactable, Protected
<1>3. Cardinality(recent) = keep_recent_n
  BY <1>2 DEF Recent, IsListing
<1>4. recent \subseteq Spared(c, v)'
  <2> SUFFICES ASSUME NEW w \in recent PROVE w \in Spared(c, v)'
    OBVIOUS
  <2>1. w \in Ids /\ v \in Ids /\ versions[w].model_name = m /\ versions[v].model_name = m
    BY <1>2 DEF Of
  <2>2. versions[w].created_at >= versions[v].created_at
    BY <1>2 DEF Recent, IsListing
  <2>3. w \notin c.from /\ w # c.merged
    BY <1>1, <2>1 DEF Compactable, Protected
  <2> QED BY <1>1, <2>1, <2>2, <2>3 DEF Spared, Of
<1>5. Spared(c, v)' \subseteq Ids'
  BY DEF Spared, Of
<1> DEFINE T == Spared(c, v)'
<1> HIDE DEF T
<1>6. IsFiniteSet(T)
  <2>1. Len(versions) + 1 \in Int
    BY <1>1
  <2>2. IsFiniteSet(1..(Len(versions) + 1))
    BY <2>1, FS_Interval
  <2>3. T \subseteq 1..(Len(versions) + 1)
    BY <1>1, <1>5 DEF T
  <2> QED BY <2>2, <2>3, FS_Subset
<1>7. Cardinality(recent) <= Cardinality(T) /\ Cardinality(T) \in Nat
  BY <1>4, <1>6, FS_Subset, FS_CardinalityType DEF T
<1> QED BY <1>2, <1>3, <1>7, ConfigAssumption DEF T

-----------------------------------------------------------------------------
(***************************************************************************)
(* The invariant.                                                          *)
(***************************************************************************)
LEMMA Initial ==
  ASSUME Init
  PROVE  IInv
<1>1. versions \in Seq({})
  BY DEF Init
<1>2. ChainTypes /\ InOrder /\ ChainIsForest
  BY <1>1 DEF Init, ChainTypes, InOrder, ChainIsForest, Ids
<1>3. CallTypes /\ MergesInChain /\ CompactionSparesProtected
  BY DEF Init, CallTypes, Labels, MergesInChain, CompactionSparesProtected
<1> QED BY <1>2, <1>3 DEF IInv

\* What CompactionSparesProtected says of each merge.
LEMMA SparesEach == CompactionSparesProtected <=> \A c \in merges : SparesProtected(c)
  BY DEF CompactionSparesProtected, SparesProtected, Spared

\* A step that leaves the chain and the merges alone.
LEMMA OtherStep ==
  ASSUME IInv, UNCHANGED <<versions, merges>>, CallTypes'
  PROVE  IInv'
<1>1. ChainTypes' /\ InOrder' /\ ChainIsForest'
  BY DEF IInv, ChainTypes, InOrder, ChainIsForest, Ids
<1>2. MergesInChain' /\ CompactionSparesProtected'
  BY DEF IInv, MergesInChain, CompactionSparesProtected, Ids, Of
<1> QED BY <1>1, <1>2 DEF IInv

\* A version that a user creates.
LEMMA CreateStep ==
  ASSUME IInv, NEW m \in Models, NEW parent, NEW rows, NEW f, UserCreates(m, parent, rows, f)
  PROVE  IInv'
<1>1. Grows(m, parent) /\ ParentAllowed(m, parent) /\ UNCHANGED <<pc, model, merges>>
  BY CreateGrows DEF UserCreates
<1>2. ChainTypes' /\ InOrder' /\ ChainIsForest'
  BY <1>1, ChainStep DEF IInv
<1>3. PICK r : versions' = Append(versions, r)
  BY <1>1 DEF Grows
<1>4. Ids \subseteq Ids'
  BY <1>3, Appended DEF IInv
<1>5. MergesInChain' /\ CallTypes'
  BY <1>1, <1>4 DEF IInv, MergesInChain, CallTypes
<1>6. \A c \in merges : SparesProtected(c)'
  BY <1>2, <1>3, SparedStays, SparesEach DEF IInv, MergesInChain
<1>7. CompactionSparesProtected'
  BY <1>1, <1>6 DEF CompactionSparesProtected, SparesProtected, Spared
<1> QED BY <1>2, <1>5, <1>7 DEF IInv

\* A compaction that merges.
LEMMA MergeStep ==
  ASSUME IInv, NEW t \in Threads, CompactMerges(t)
  PROVE  IInv'
<1> DEFINE m == model[t]
<1>1. pc[t] = "work" /\ pc' = [pc EXCEPT ![t] = "reset"] /\ model' = model
  BY DEF CompactMerges
<1>2. m \in Models
  BY <1>1 DEF IInv, CallTypes
<1>3. PICK recent \in SUBSET Of(m) : Recent(recent, m) /\ Merge(m, recent)
  BY DEF CompactMerges
<1> DEFINE S == Compactable(m, recent)
<1>4. PICK earliest \in S : merge_versions(m, S, earliest)
  BY <1>3 DEF Merge
<1> DEFINE parent == versions[earliest].parent_version_id
<1>5. Grows(m, parent) /\ ParentAllowed(m, parent)
  BY <1>4, CreateGrows DEF merge_versions
<1>6. ChainTypes' /\ InOrder' /\ ChainIsForest'
  BY <1>2, <1>5, ChainStep DEF IInv
<1>7. PICK r : versions' = Append(versions, r)
  BY <1>5 DEF Grows
<1>8. Ids' = Ids \union {Len(versions) + 1} /\ S \subseteq Ids
  BY <1>7, Appended DEF IInv, Compactable, Of
<1>9. ASSUME NEW c \in merges'
      PROVE  c.from \subseteq Ids' /\ c.merged \in Ids' /\ SparesProtected(c)'
  <2>1. CASE c \in merges
    BY <1>6, <1>7, <1>8, <2>1, SparedStays, SparesEach DEF IInv, MergesInChain
  <2>2. CASE c \notin merges
    <3>1. /\ c.merged = Len(versions) + 1 /\ c.from = S
          /\ c.kept = snapshot_refs \union anchored
      BY <1>3, <1>9, <2>2 DEF Merge
    <3> QED BY <1>2, <1>3, <1>6, <1>7, <1>8, <3>1, MergeSpares DEF IInv
  <2> QED BY <2>1, <2>2
<1>10. MergesInChain' /\ CompactionSparesProtected'
  <2>1. MergesInChain'
    BY <1>9 DEF MergesInChain
  <2>2. CompactionSparesProtected'
    BY <1>9 DEF CompactionSparesProtected, SparesProtected, Spared
  <2> QED BY <2>1, <2>2
<1>11. CallTypes'
  BY <1>1 DEF IInv, CallTypes, Labels
<1> QED BY <1>6, <1>10, <1>11 DEF IInv

LEMMA Inductive ==
  ASSUME IInv, [Next]_vars
  PROVE  IInv'
<1>1. ASSUME NEW m \in Models, NEW parent \in 0..Len(versions), NEW rows \in Rows,
             NEW f \in Fidelities, UserCreates(m, parent, rows, f)
      PROVE  IInv'
  BY <1>1, CreateStep
<1>2. ASSUME NEW v \in Ids,
             add_snapshot_ref(v) \/ remove_snapshot_ref(v) \/ anchor(v) \/ unanchor(v)
      PROVE  IInv'
  BY <1>2, OtherStep
     DEF add_snapshot_ref, remove_snapshot_ref, anchor, unanchor, IInv, CallTypes
<1>3. ASSUME NEW t \in Threads, NEW m \in Models, CompactCheck(t, m)
      PROVE  IInv'
  BY <1>3, OtherStep DEF CompactCheck, IInv, CallTypes, Labels
<1>4. ASSUME NEW t \in Threads, CompactSet(t)
      PROVE  IInv'
  BY <1>4, OtherStep DEF CompactSet, IInv, CallTypes, Labels
<1>5. ASSUME NEW t \in Threads, CompactMerges(t)
      PROVE  IInv'
  BY <1>5, MergeStep
<1>6. ASSUME NEW t \in Threads, CompactTooFew(t)
      PROVE  IInv'
  BY <1>6, OtherStep DEF CompactTooFew, IInv, CallTypes, Labels
<1>7. ASSUME NEW t \in Threads, CompactReturn(t)
      PROVE  IInv'
  BY <1>7, OtherStep DEF CompactReturn, IInv, CallTypes, Labels
<1>8. CASE UNCHANGED vars
  BY <1>8, OtherStep DEF vars, gcVars, IInv, CallTypes
<1> QED BY <1>1, <1>2, <1>3, <1>4, <1>5, <1>6, <1>7, <1>8 DEF Next

\* IInv holds in every reachable state, of the chain, the running compactions and
\* the merges done together.
THEOREM Invariance == Spec => []IInv
<1>1. Init => IInv
  BY Initial
<1>2. IInv /\ [Next]_vars => IInv'
  BY Inductive
<1> QED BY <1>1, <1>2, PTL DEF Spec

\* Every version's parent is an older version of the same model, whether a user or
\* a compaction created it.
THEOREM Forest == Spec => []ChainIsForest
<1>1. IInv => ChainIsForest
  BY DEF IInv
<1> QED BY <1>1, Invariance, PTL

\* No compaction ever merged a version that was anchored, referenced by a snapshot
\* or among the keep_recent_n newest, even where two compactions overlap.
THEOREM ProtectedSpared == Spec => []CompactionSparesProtected
<1>1. IInv => CompactionSparesProtected
  BY DEF IInv
<1> QED BY <1>1, Invariance, PTL
=============================================================================
