-------------------------- MODULE TimeTravelProofs --------------------------
(***************************************************************************)
(* Proofs about the alignment engine and the time travel engine, for every *)
(* number of versions, models and updates, every limit of list_versions    *)
(* and every window, with checkpoint files removed at any moment; and      *)
(* about the drift statistic of any two samples.                           *)
(***************************************************************************)
EXTENDS TimeTravel, FiniteSetTheorems, WellFoundedInduction, TLAPS

Version == [model_name : Models, parent_version_id : Nat, created_at : Nat,
            training_rows : Nat, fidelity_score : Nat]
Classes   == {"low", "mid", "high"}
Files     == {"none", "partial", "complete"}
Deadlines == {"none", "ahead", "past"}

Types ==
    /\ versions \in Seq(Version)
    /\ checkpoints \in Seq(Files) /\ Len(checkpoints) = Len(versions)
    /\ drift \in [Models -> Seq(Classes)]
    /\ recent_drift_scores \in [Models -> Seq(Classes)]
    /\ deadlines \in [Models -> Deadlines]
    /\ status \in [Models -> Statuses]

\* The scores kept are the end of the model's history, and the status was derived
\* from them under the deadline of that moment, which may have passed since.
StatusInv ==
    \A m \in Models :
        /\ recent_drift_scores[m] = KeepLast(drift[m])
        /\ drift[m] # <<>> =>
              \E d \in Deadlines : status[m] = StatusOf(recent_drift_scores[m], d)

\* The versions of a model that list_versions may put before v.
Ahead(m, v) == {w \in Of(m) \ {v} : versions[w].created_at >= versions[v].created_at}

\* A search has left out only what it could not load, the file gone or not read, and
\* what the limit of list_versions hid, and nothing that is left to try is older than what was hidden.
QueryInv ==
    query # NoQuery =>
        /\ query \in [model : Models, untried : SUBSET Ids, unread : SUBSET Ids]
        /\ query.untried \subseteq Of(query.model)
        /\ \A v \in Of(query.model) \ query.untried :
              \/ checkpoints[v] = "none" \/ v \in query.unread
              \/ /\ Cardinality(Ahead(query.model, v)) >= limit
                 /\ \A w \in query.untried : versions[w].created_at >= versions[v].created_at

IInv == Types /\ StatusInv /\ QueryInv /\ DegradesToNewest /\ NotFoundMeansNone

-----------------------------------------------------------------------------
(***************************************************************************)
(* The scores that are kept.                                               *)
(***************************************************************************)
\* The last n elements of a sequence.
LEMMA LastNElements ==
  ASSUME NEW S, NEW s \in Seq(S), NEW n \in 0..Len(s)
  PROVE  /\ LastN(s, n) \in Seq(S) /\ Len(LastN(s, n)) = n
         /\ \A i \in 1..n : LastN(s, n)[i] = s[Len(s) - n + i]
  BY DEF LastN

\* What is kept has the end of the whole, as far as it goes.
LEMMA KeepLastElements ==
  ASSUME NEW S, NEW s \in Seq(S)
  PROVE  LET k == KeepLast(s) IN
         /\ k \in Seq(S)
         /\ Len(k) = IF Len(s) > kept_scores THEN kept_scores ELSE Len(s)
         /\ \A i \in 1..Len(k) : k[i] = s[Len(s) - Len(k) + i]
<1>1. CASE Len(s) > kept_scores
  <2>1. kept_scores \in 0..Len(s)
    BY <1>1, WindowsAssumption
  <2> QED BY <1>1, <2>1, LastNElements DEF KeepLast
<1>2. CASE ~(Len(s) > kept_scores)
  BY <1>2 DEF KeepLast
<1> QED BY <1>1, <1>2

\* Cutting before a score is added and after it is cutting after it.
LEMMA KeepLastAppend ==
  ASSUME NEW S, NEW s \in Seq(S), NEW x \in S
  PROVE  KeepLast(Append(KeepLast(s), x)) = KeepLast(Append(s, x))
<1> DEFINE k == KeepLast(s)
           a == Append(k, x)
           b == Append(s, x)
           l == KeepLast(a)
           r == KeepLast(b)
<1>0. kept_scores \in Nat \ {0}
  BY WindowsAssumption
<1>1. /\ k \in Seq(S) /\ Len(s) \in Nat
      /\ Len(k) = IF Len(s) > kept_scores THEN kept_scores ELSE Len(s)
      /\ \A i \in 1..Len(k) : k[i] = s[Len(s) - Len(k) + i]
  BY KeepLastElements
<1>2. /\ a \in Seq(S) /\ Len(a) = Len(k) + 1 /\ a[Len(k) + 1] = x
      /\ \A i \in 1..Len(k) : a[i] = k[i]
      /\ b \in Seq(S) /\ Len(b) = Len(s) + 1 /\ b[Len(s) + 1] = x
      /\ \A i \in 1..Len(s) : b[i] = s[i]
  BY <1>1
<1> HIDE DEF k, a, b
<1>3. /\ l \in Seq(S) /\ Len(l) = IF Len(a) > kept_scores THEN kept_scores ELSE Len(a)
      /\ \A i \in 1..Len(l) : l[i] = a[Len(a) - Len(l) + i]
  BY <1>2, KeepLastElements
<1>4. /\ r \in Seq(S) /\ Len(r) = IF Len(b) > kept_scores THEN kept_scores ELSE Len(b)
      /\ \A i \in 1..Len(r) : r[i] = b[Len(b) - Len(r) + i]
  BY <1>2, KeepLastElements
<1> HIDE DEF l, r
<1>5. Len(l) = Len(r) /\ Len(l) \in Nat /\ Len(k) \in Nat
  BY <1>0, <1>1, <1>2, <1>3, <1>4
<1>6. ASSUME NEW i \in 1..Len(l) PROVE l[i] = r[i]
  <2> DEFINE p == Len(a) - Len(l) + i
             q == Len(b) - Len(r) + i
  <2>1. l[i] = a[p] /\ r[i] = b[q]
    BY <1>3, <1>4, <1>5
  <2>2. p \in 1..(Len(k) + 1) /\ q \in 1..(Len(s) + 1) /\ q - p = Len(s) - Len(k)
    <3>1. CASE Len(s) < kept_scores
      <4>1. Len(k) = Len(s) /\ Len(a) = Len(s) + 1 /\ Len(b) = Len(s) + 1
        BY <1>0, <1>1, <1>2, <3>1
      <4>2. Len(l) = Len(s) + 1 /\ Len(r) = Len(s) + 1
        BY <1>0, <1>1, <1>3, <1>4, <3>1, <4>1
      <4> QED BY <1>1, <4>1, <4>2
    <3>2. CASE ~(Len(s) < kept_scores)
      <4>1. Len(k) = kept_scores /\ Len(a) = kept_scores + 1 /\ Len(b) = Len(s) + 1
        BY <1>0, <1>1, <1>2, <3>2
      <4>2. Len(l) = kept_scores /\ Len(r) = kept_scores
        BY <1>0, <1>1, <1>3, <1>4, <3>2, <4>1
      <4>3. /\ i \in 1..kept_scores /\ Len(s) \in Nat /\ kept_scores \in Nat
            /\ Len(s) >= kept_scores
        BY <1>0, <1>1, <3>2, <4>2
      <4>4. p = 1 + i /\ q = Len(s) + 1 - kept_scores + i
        BY <4>1, <4>2, <4>3
      <4> HIDE DEF p, q
      <4> QED BY ONLY <4>1, <4>3, <4>4
    <3> QED BY <3>1, <3>2
  <2> HIDE DEF p, q
  <2>3. CASE p = Len(k) + 1
    BY <1>1, <1>2, <1>5, <2>1, <2>2, <2>3
  <2>4. CASE p \in 1..Len(k)
    <3>1. q = Len(s) - Len(k) + p /\ q \in 1..Len(s)
      BY <1>1, <1>5, <2>2, <2>4
    <3>2. a[p] = s[Len(s) - Len(k) + p]
      BY <1>1, <1>2, <2>4
    <3> QED BY <1>2, <2>1, <3>1, <3>2
  <2> QED BY <1>5, <2>2, <2>3, <2>4
<1>7. l = r
  BY <1>3, <1>4, <1>5, <1>6
<1> QED BY <1>7 DEF l, r, a, b, k

\* A window that is not longer than what is kept sees the same scores.
LEMMA WindowOfKept ==
  ASSUME NEW S, NEW s \in Seq(S), NEW window \in 1..kept_scores, NEW class
  PROVE  AllOf(class, KeepLast(s), window) <=> AllOf(class, s, window)
<1> DEFINE k == KeepLast(s)
<1>0. kept_scores \in Nat
  BY WindowsAssumption
<1>1. /\ k \in Seq(S) /\ Len(s) \in Nat
      /\ Len(k) = IF Len(s) > kept_scores THEN kept_scores ELSE Len(s)
      /\ \A i \in 1..Len(k) : k[i] = s[Len(s) - Len(k) + i]
  BY KeepLastElements
<1> HIDE DEF k
<1>2. Len(k) >= window <=> Len(s) >= window
  BY <1>0, <1>1
<1>3. ASSUME Len(s) >= window PROVE LastN(k, window) = LastN(s, window)
  <2>0. /\ window \in 0..Len(k) /\ window \in 0..Len(s) /\ window \in Nat
        /\ Len(k) \in Nat /\ s \in Seq(S)
    BY <1>0, <1>1, <1>2, <1>3
  <2>1. /\ LastN(k, window) \in Seq(S) /\ Len(LastN(k, window)) = window
        /\ \A i \in 1..window : LastN(k, window)[i] = k[Len(k) - window + i]
    BY ONLY <1>1, <2>0, LastNElements
  <2>2. /\ LastN(s, window) \in Seq(S) /\ Len(LastN(s, window)) = window
        /\ \A i \in 1..window : LastN(s, window)[i] = s[Len(s) - window + i]
    BY ONLY <2>0, LastNElements
  <2>3. ASSUME NEW i \in 1..window PROVE LastN(k, window)[i] = LastN(s, window)[i]
    <3>1. Len(k) - window + i \in 1..Len(k)
      BY <2>0
    <3>2. Len(s) - Len(k) + (Len(k) - window + i) = Len(s) - window + i
      <4> HIDE DEF k
      <4>1. Len(s) \in Nat /\ Len(k) \in Nat /\ window \in Nat /\ i \in Nat
        BY <1>1, <2>0
      <4> QED BY ONLY <4>1
    <3> QED BY <1>1, <2>1, <2>2, <3>1, <3>2
  <2> HIDE DEF k
  <2> QED BY <1>0, <2>1, <2>2, <2>3
<1> QED BY <1>2, <1>3 DEF AllOf, k

\* The last score is in every window.
LEMMA LastInWindow ==
  ASSUME NEW S, NEW s \in Seq(S), NEW window \in 1..kept_scores, NEW class,
         AllOf(class, s, window)
  PROVE  s[Len(s)] = class
<1>0. kept_scores \in Nat /\ window \in 0..Len(s) /\ window \in Nat \ {0}
  BY WindowsAssumption DEF AllOf
<1>1. /\ Len(LastN(s, window)) = window /\ LastN(s, window) \in Seq(S)
      /\ LastN(s, window)[window] = s[Len(s) - window + window]
  <2>1. \A i \in 1..window : LastN(s, window)[i] = s[Len(s) - window + i]
    BY ONLY <1>0, s \in Seq(S), LastNElements
  <2>2. Len(LastN(s, window)) = window /\ LastN(s, window) \in Seq(S)
    BY ONLY <1>0, s \in Seq(S), LastNElements
  <2> QED BY <1>0, <2>1, <2>2
<1>2. window \in DOMAIN LastN(s, window)
  BY <1>0, <1>1
<1>3. LastN(s, window)[window] \in ToSet(LastN(s, window))
  BY <1>2 DEF ToSet
<1>4. Len(s) - window + window = Len(s)
  BY <1>0
<1> QED BY <1>1, <1>3, <1>4 DEF AllOf

-----------------------------------------------------------------------------
(***************************************************************************)
(* Types.                                                                  *)
(***************************************************************************)
LEMMA ScoreIsClassed ==
  ASSUME NEW measured \in BOOLEAN, NEW score \in DriftScore(measured)
  PROVE  score \in Classes
<1>1. ASSUME NEW current, NEW new PROVE ScoreClass(current, new) \in Classes
  BY DEF ScoreClass, Classes
<1>2. DriftScores \subseteq Classes
  BY <1>1 DEF DriftScores
<1> QED BY <1>2 DEF DriftScore, Classes

\* What update_model adds: a version at the end, and its checkpoint.
LEMMA UpdateAppends ==
  ASSUME Types, NEW m \in Models, NEW current \in {NoParent, Len(versions)},
         NEW measured \in BOOLEAN, NEW saved \in SaveOutcomes,
         update_model(m, current, measured, saved)
  PROVE  /\ versions' \in Seq(Version)
         /\ checkpoints' \in Seq(Files) /\ Len(checkpoints') = Len(versions')
<1>1. PICK now \in ClockReadings :
        versions' = Append(versions,
              [model_name |-> m, parent_version_id |-> current, created_at |-> now,
               training_rows |-> 0, fidelity_score |-> 0])
  BY DEF update_model, create_version
<1>2. now \in Nat
  <2>1. CASE versions = <<>>
    BY <1>1, <2>1 DEF ClockReadings
  <2>2. CASE versions # <<>>
    <3>1. Len(versions) \in 1..Len(versions) /\ versions[Len(versions)] \in Version
      BY <2>2 DEF Types
    <3>2. Last(versions).created_at \in Nat
      BY <3>1 DEF Last, Version
    <3> QED BY <1>1, <2>2, <3>2 DEF ClockReadings
  <2> QED BY <2>1, <2>2
<1>3. current \in Nat
  BY DEF NoParent, Types
<1>4. [model_name |-> m, parent_version_id |-> current, created_at |-> now,
       training_rows |-> 0, fidelity_score |-> 0] \in Version
  BY <1>2, <1>3 DEF Version
<1>5. versions' \in Seq(Version) /\ Len(versions') = Len(versions) + 1
  BY <1>1, <1>4 DEF Types
<1>6. saved \in Files
  BY WindowsAssumption DEF Files
<1>7. checkpoints' \in Seq(Files) /\ Len(checkpoints') = Len(checkpoints) + 1
  BY <1>6 DEF Types, update_model
<1> QED BY <1>5, <1>7 DEF Types

\* What it does to the scores and to the status.
LEMMA UpdateScores ==
  ASSUME Types, StatusInv, NEW m \in Models, NEW current,
         NEW measured \in BOOLEAN, NEW saved,
         update_model(m, current, measured, saved)
  PROVE  /\ drift' \in [Models -> Seq(Classes)]
         /\ recent_drift_scores' \in [Models -> Seq(Classes)]
         /\ deadlines' \in [Models -> Deadlines]
         /\ status' \in [Models -> Statuses]
         /\ StatusInv'
<1>1. PICK score \in DriftScore(measured) :
        /\ compute_compensation_status(m, score)
        /\ drift' = [drift EXCEPT ![m] = Append(@, score)]
  BY DEF update_model
<1>2. score \in Classes
  BY <1>1, ScoreIsClassed
<1> DEFINE scores == KeepLast(Append(recent_drift_scores[m], score))
<1>3. /\ recent_drift_scores' = [recent_drift_scores EXCEPT ![m] = scores]
      /\ status' = [status EXCEPT ![m] = StatusOf(scores, deadlines[m])]
  BY <1>1 DEF compute_compensation_status
<1>4. drift[m] \in Seq(Classes) /\ recent_drift_scores[m] = KeepLast(drift[m])
  BY DEF Types, StatusInv
<1>5. Append(drift[m], score) \in Seq(Classes) /\ Append(drift[m], score) # <<>>
  BY <1>2, <1>4
<1>6. scores = KeepLast(Append(drift[m], score))
  BY <1>2, <1>4, KeepLastAppend
<1>7. scores \in Seq(Classes)
  BY <1>5, <1>6, KeepLastElements
<1> HIDE DEF scores
<1>8. StatusOf(scores, deadlines[m]) \in Statuses
  BY DEF StatusOf, Statuses
<1>9. deadlines' = deadlines /\ deadlines[m] \in Deadlines
  BY DEF update_model, Types
<1>10. /\ drift' \in [Models -> Seq(Classes)]
       /\ recent_drift_scores' \in [Models -> Seq(Classes)]
       /\ status' \in [Models -> Statuses]
  BY <1>1, <1>3, <1>5, <1>7, <1>8 DEF Types
<1>11. ASSUME NEW n \in Models
       PROVE  /\ recent_drift_scores'[n] = KeepLast(drift'[n])
              /\ drift'[n] # <<>> =>
                    \E d \in Deadlines : status'[n] = StatusOf(recent_drift_scores'[n], d)
  <2>1. CASE n = m
    <3>1. /\ recent_drift_scores'[n] = scores /\ drift'[n] = Append(drift[m], score)
          /\ status'[n] = StatusOf(scores, deadlines[m])
      BY <1>1, <1>3, <2>1 DEF Types
    <3> QED BY <1>6, <1>9, <3>1
  <2>2. CASE n # m
    <3>1. /\ recent_drift_scores'[n] = recent_drift_scores[n] /\ drift'[n] = drift[n]
          /\ status'[n] = status[n]
      BY <1>1, <1>3, <2>2 DEF Types
    <3> QED BY <3>1 DEF StatusInv
  <2> QED BY <2>1, <2>2
<1>12. StatusInv'
  BY <1>11 DEF StatusInv
<1> QED BY <1>9, <1>10, <1>12 DEF Types

LEMMA StatusInvStays ==
  ASSUME StatusInv, UNCHANGED <<recent_drift_scores, status, drift>>
  PROVE  StatusInv'
BY DEF StatusInv

-----------------------------------------------------------------------------
(***************************************************************************)
(* The search.                                                             *)
(***************************************************************************)
\* Nothing about a query or an answer changes while checkpoint files at most vanish.
LEMMA SearchStays ==
  ASSUME Types, QueryInv, DegradesToNewest, NotFoundMeansNone,
         UNCHANGED <<versions, query, answer>>,
         \A v \in Ids : checkpoints'[v] = checkpoints[v] \/ checkpoints'[v] = "none"
  PROVE  QueryInv' /\ DegradesToNewest' /\ NotFoundMeansNone'
<1>1. Ids' = Ids /\ \A m : Of(m)' = Of(m) /\ Of(m) \subseteq Ids
  BY DEF Ids, Of
<1>2. ASSUME NEW m, NEW v \in Ids PROVE Ahead(m, v)' = Ahead(m, v)
  BY <1>1 DEF Ahead, Of, Ids
<1>3. QueryInv'
  <2> SUFFICES ASSUME query # NoQuery
               PROVE  QueryInv'
    BY DEF QueryInv
  <2>1. query' \in [model : Models, untried : SUBSET Ids', unread : SUBSET Ids']
    BY <1>1 DEF QueryInv
  <2>2. (query.untried \subseteq Of(query.model))'
    BY <1>1 DEF QueryInv, Of, Ids
  <2>3. ASSUME NEW v \in Of(query.model) \ query.untried
        PROVE  \/ checkpoints'[v] = "none" \/ v \in query.unread
               \/ /\ Cardinality(Ahead(query.model, v)) >= limit
                  /\ \A w \in query.untried : versions[w].created_at >= versions[v].created_at
    BY <1>1 DEF QueryInv
  <2> QED BY <1>1, <1>2, <2>1, <2>2, <2>3 DEF QueryInv
<1>4. DegradesToNewest'
  BY <1>1 DEF DegradesToNewest
<1>5. NotFoundMeansNone'
  BY <1>1 DEF NotFoundMeansNone
<1> QED BY <1>3, <1>4, <1>5

\* Loads of a query end it with the newest version that has its checkpoint.
LEMMA TryLoadsKeeps ==
  ASSUME Types, QueryInv, NEW v \in Ids, TryLoads(v)
  PROVE  QueryInv' /\ DegradesToNewest' /\ NotFoundMeansNone'
<1>1. /\ query # NoQuery /\ v \in query.untried /\ NextToTry(v)
      /\ Loadable(query.model, v) /\ query' = NoQuery
      /\ answer' = [model |-> query.model, version |-> v, was_degraded |-> TRUE,
                    found |-> TRUE, unread |-> query.unread]
      /\ versions' = versions /\ checkpoints' = checkpoints
  BY DEF TryLoads, Answer, alignVars
<1>2. QueryInv' /\ NotFoundMeansNone'
  BY <1>1 DEF QueryInv, NotFoundMeansNone
<1>3. \A w \in Ids : versions[w].created_at \in Nat
  <2>1. \A w \in Ids : versions[w] \in Version
    BY DEF Types, Ids
  <2> QED BY <2>1 DEF Version
<1>4. ASSUME NEW w \in Of(query.model), versions[w].created_at > versions[v].created_at
      PROVE  checkpoints[w] = "none" \/ w \in query.unread
  <2>1. w \in Ids
    BY DEF Of
  <2>2. w \notin query.untried
    BY <1>1, <1>3, <1>4, <2>1 DEF NextToTry
  <2> QED BY <1>1, <1>3, <1>4, <2>1, <2>2 DEF QueryInv
<1>5. DegradesToNewest'
  BY <1>1, <1>4 DEF DegradesToNewest, Loadable, Of, Ids
<1> QED BY <1>2, <1>5

LEMMA TryFailsKeeps ==
  ASSUME QueryInv, DegradesToNewest, NotFoundMeansNone, NEW v \in Ids, TryFails(v)
  PROVE  QueryInv' /\ DegradesToNewest' /\ NotFoundMeansNone'
<1> DEFINE unread == IF Loadable(query.model, v) THEN query.unread \union {v} ELSE query.unread
<1>1. /\ query # NoQuery /\ v \in query.untried
      /\ query' = [query EXCEPT !.untried = @ \ {v}, !.unread = unread]
      /\ versions' = versions /\ checkpoints' = checkpoints /\ answer' = answer
  BY DEF TryFails, alignVars
<1>2. /\ query \in [model : Models, untried : SUBSET Ids, unread : SUBSET Ids]
      /\ query.untried \subseteq Of(query.model)
      /\ \A w \in Of(query.model) \ query.untried :
            \/ checkpoints[w] = "none" \/ w \in query.unread
            \/ /\ Cardinality(Ahead(query.model, w)) >= limit
               /\ \A u \in query.untried : versions[u].created_at >= versions[w].created_at
  BY <1>1 DEF QueryInv
<1>3. /\ query'.model = query.model /\ query'.untried = query.untried \ {v}
      /\ query'.unread = unread
      /\ query' \in [model : Models, untried : SUBSET Ids, unread : SUBSET Ids]
  BY <1>1, <1>2
<1>4. /\ query.unread \subseteq unread
      /\ checkpoints[v] = "none" \/ v \in unread
  BY <1>1, <1>2 DEF Loadable, Of
<1>5. /\ Ids' = Ids /\ (Of(query.model))' = Of(query.model)
      /\ \A w : (Ahead(query.model, w))' = Ahead(query.model, w)
  BY <1>1, <1>3 DEF Ids, Of, Ahead
<1>6. QueryInv'
  BY <1>1, <1>2, <1>3, <1>4, <1>5 DEF QueryInv
<1>7. DegradesToNewest' /\ NotFoundMeansNone'
  BY <1>1 DEF DegradesToNewest, NotFoundMeansNone, Of, Ids
<1> QED BY <1>6, <1>7

LEMMA SearchEndsKeeps ==
  ASSUME QueryInv, SearchEnds
  PROVE  QueryInv' /\ DegradesToNewest' /\ NotFoundMeansNone'
<1>1. /\ query # NoQuery /\ query.untried = {} /\ query' = NoQuery
      /\ answer' = [model |-> query.model, version |-> 0, was_degraded |-> FALSE,
                    found |-> FALSE, unread |-> query.unread]
      /\ versions' = versions /\ checkpoints' = checkpoints
  BY DEF SearchEnds, NoAnswer, alignVars
<1>2. \A v \in Of(query.model) :
         \/ checkpoints[v] = "none" \/ v \in query.unread
         \/ Cardinality(Ahead(query.model, v)) >= limit
  BY <1>1 DEF QueryInv
<1>3. QueryInv' /\ DegradesToNewest'
  BY <1>1 DEF QueryInv, DegradesToNewest
<1>4. NotFoundMeansNone'
  BY <1>1, <1>2 DEF NotFoundMeansNone, Ahead, Of, Ids
<1> QED BY <1>3, <1>4

\* A version that list_versions does not return is behind limit others.
LEMMA UnlistedIsBehind ==
  ASSUME Types, NEW m, NEW listed, IsListing(listed, m, limit), NEW v \in Of(m) \ listed
  PROVE  Cardinality(Ahead(m, v)) >= limit
<1>1. Cardinality(listed) = limit /\ listed \subseteq Ahead(m, v)
  BY DEF IsListing, Ahead
<1>2. Ahead(m, v) \subseteq 1..Len(versions) /\ Len(versions) \in Nat
  BY DEF Ahead, Of, Ids, Types
<1>3. IsFiniteSet(Ahead(m, v))
  <2>1. IsFiniteSet(1..Len(versions))
    BY <1>2, FS_Interval
  <2> QED BY ONLY <1>2, <2>1, FS_Subset
<1>4. Cardinality(Ahead(m, v)) \in Nat /\ Cardinality(listed) <= Cardinality(Ahead(m, v))
  BY <1>1, <1>3, FS_Subset, FS_CardinalityType
<1> QED BY <1>1, <1>4, LimitAssumption

LEMMA StartSearchKeeps ==
  ASSUME Types, NEW m \in Models, StartSearch(m)
  PROVE  QueryInv' /\ DegradesToNewest' /\ NotFoundMeansNone'
<1>1. PICK listed \in SUBSET Of(m) :
        /\ IsListing(listed, m, limit)
        /\ query' = [model |-> m, untried |-> listed, unread |-> {}]
  BY DEF StartSearch
<1>2. /\ versions' = versions /\ checkpoints' = checkpoints
      /\ answer' = [model |-> NoQuery, version |-> 0, was_degraded |-> FALSE, found |-> FALSE,
                    unread |-> {}]
  BY DEF StartSearch, alignVars, NoAnswer
<1>3. DegradesToNewest' /\ NotFoundMeansNone'
  BY <1>2 DEF DegradesToNewest, NotFoundMeansNone
<1>4. /\ query'.model = m /\ query'.untried = listed /\ query'.unread = {}
      /\ query' \in [model : Models, untried : SUBSET Ids, unread : SUBSET Ids]
  BY <1>1 DEF Of, Types
<1>5. ASSUME NEW w \in Of(m) \ listed
      PROVE  /\ Cardinality(Ahead(m, w)) >= limit
             /\ \A u \in listed : versions[u].created_at >= versions[w].created_at
  BY <1>1, UnlistedIsBehind DEF IsListing
<1>6. /\ Ids' = Ids /\ (Of(query.model))' = Of(m)
      /\ \A w : (Ahead(query.model, w))' = Ahead(m, w)
  BY <1>2, <1>4 DEF Ids, Of, Ahead
<1>7. QueryInv'
  BY <1>1, <1>2, <1>4, <1>5, <1>6 DEF QueryInv
<1> QED BY <1>3, <1>7

LEMMA ExactHitKeeps ==
  ASSUME NEW m \in Models, NEW v, ExactHit(m, v)
  PROVE  QueryInv' /\ DegradesToNewest' /\ NotFoundMeansNone'
<1>1. /\ query' = NoQuery /\ versions' = versions /\ Loadable(m, v)
      /\ answer' = [model |-> m, version |-> v, was_degraded |-> FALSE, found |-> TRUE,
                    unread |-> {}]
  BY DEF ExactHit, Answer
<1> QED BY <1>1 DEF QueryInv, DegradesToNewest, NotFoundMeansNone, Loadable

-----------------------------------------------------------------------------
(***************************************************************************)
(* The inductive invariant.                                                *)
(***************************************************************************)
LEMMA InitIInv == Init => IInv
<1> SUFFICES ASSUME Init PROVE IInv
  OBVIOUS
<1>1. kept_scores \in Nat /\ KeepLast(<<>>) = <<>>
  BY WindowsAssumption DEF KeepLast
<1>2. Types
  BY DEF Init, AlignInit, Types, Deadlines, Statuses, Files, Version, Classes
<1>3. StatusInv
  BY <1>1 DEF Init, AlignInit, StatusInv
<1>4. QueryInv /\ DegradesToNewest /\ NotFoundMeansNone
  BY DEF Init, QueryInv, DegradesToNewest, NotFoundMeansNone, NoAnswer
<1> QED BY <1>2, <1>3, <1>4 DEF IInv

\* A step that leaves the chain, the checkpoints and the alignment state alone.
LEMMA AlignStays ==
  ASSUME Types, StatusInv, UNCHANGED <<versions, alignVars>>
  PROVE  Types' /\ StatusInv'
<1>1. UNCHANGED <<versions, checkpoints, recent_drift_scores, deadlines, status, drift>>
  BY DEF alignVars
<1> QED BY <1>1, StatusInvStays DEF Types

LEMMA StepIInv == IInv /\ [Next]_vars => IInv'
<1> SUFFICES ASSUME IInv, [Next]_vars PROVE IInv'
  OBVIOUS
<1>0. Types /\ StatusInv /\ QueryInv /\ DegradesToNewest /\ NotFoundMeansNone
  BY DEF IInv
<1>1. ASSUME NEW m \in Models, NEW v \in Ids, ExactHit(m, v)
      PROVE  IInv'
  <2>1. UNCHANGED <<versions, alignVars>>
    BY <1>1 DEF ExactHit
  <2> QED BY <1>0, <1>1, <2>1, AlignStays, ExactHitKeeps DEF IInv
<1>2. ASSUME NEW m \in Models, StartSearch(m)
      PROVE  IInv'
  <2>1. UNCHANGED <<versions, alignVars>>
    BY <1>2 DEF StartSearch
  <2> QED BY <1>0, <1>2, <2>1, AlignStays, StartSearchKeeps DEF IInv
<1>3. ASSUME NEW v \in Ids, TryLoads(v) PROVE IInv'
  <2>1. UNCHANGED <<versions, alignVars>>
    BY <1>3 DEF TryLoads
  <2> QED BY <1>0, <1>3, <2>1, AlignStays, TryLoadsKeeps DEF IInv
<1>4. ASSUME NEW v \in Ids, TryFails(v) PROVE IInv'
  <2>1. UNCHANGED <<versions, alignVars>>
    BY <1>4 DEF TryFails
  <2> QED BY <1>0, <1>4, <2>1, AlignStays, TryFailsKeeps DEF IInv
<1>5. CASE SearchEnds
  <2>1. UNCHANGED <<versions, alignVars>>
    BY <1>5 DEF SearchEnds
  <2> QED BY <1>0, <1>5, <2>1, AlignStays, SearchEndsKeeps DEF IInv
<1>6. ASSUME NEW m \in Models, NEW current \in {NoParent, Len(versions)},
             NEW measured \in BOOLEAN, NEW saved \in SaveOutcomes,
             Update(m, current, measured, saved)
      PROVE  IInv'
  <2>1. /\ query' = NoQuery /\ update_model(m, current, measured, saved)
        /\ answer' = [model |-> NoQuery, version |-> 0, was_degraded |-> FALSE,
                      found |-> FALSE, unread |-> {}]
    BY <1>6 DEF Update, NoAnswer
  <2>2. Types' /\ StatusInv'
    BY <1>0, <2>1, UpdateAppends, UpdateScores DEF Types
  <2>3. QueryInv' /\ DegradesToNewest' /\ NotFoundMeansNone'
    BY <2>1 DEF QueryInv, DegradesToNewest, NotFoundMeansNone
  <2> QED BY <2>2, <2>3 DEF IInv
<1>7. ASSUME NEW v \in Ids, ExternalDelete(v) PROVE IInv'
  <2>1. /\ checkpoints' = [checkpoints EXCEPT ![v] = "none"]
        /\ UNCHANGED <<versions, recent_drift_scores, deadlines, status, drift, query, answer>>
    BY <1>7 DEF ExternalDelete
  <2>2. checkpoints' \in Seq(Files) /\ Len(checkpoints') = Len(checkpoints)
    <3>1. checkpoints \in Seq(Files) /\ "none" \in Files
      BY <1>0 DEF Types, Files
    <3>2. PICK n \in Nat : n = Len(checkpoints)
      BY <3>1
    <3>3. checkpoints \in [1..n -> Files]
      BY <3>1, <3>2
    <3>4. checkpoints' \in [1..n -> Files]
      BY ONLY <2>1, <3>1, <3>3
    <3>5. checkpoints' \in Seq(Files) /\ Len(checkpoints') = n
      BY ONLY <3>4, n \in Nat
    <3> QED BY <3>2, <3>5
  <2>3. Types' /\ StatusInv'
    BY <1>0, <2>1, <2>2, StatusInvStays DEF Types
  <2>4. \A w \in Ids : checkpoints'[w] = checkpoints[w] \/ checkpoints'[w] = "none"
    BY <1>0, <2>1 DEF Types, Ids
  <2> QED BY <1>0, <2>1, <2>3, <2>4, SearchStays DEF IInv
<1>8. ASSUME NEW m \in Models, UNCHANGED ttVars,
             \/ \E d \in {"ahead", "past"} : set_compensation_deadline(m, d)
             \/ DeadlinePasses(m)
      PROVE  IInv'
  <2>1. PICK d \in {"ahead", "past"} :
          /\ deadlines' = [deadlines EXCEPT ![m] = d]
          /\ UNCHANGED <<versions, checkpoints, recent_drift_scores, status, drift>>
    BY <1>8 DEF set_compensation_deadline, DeadlinePasses
  <2>2. Types' /\ StatusInv'
    BY <1>0, <2>1, StatusInvStays DEF Types, Deadlines
  <2>3. UNCHANGED <<query, answer>>
    BY <1>8 DEF ttVars
  <2> QED BY <1>0, <2>1, <2>2, <2>3, SearchStays DEF IInv
<1>9. CASE UNCHANGED vars
  <2>1. UNCHANGED <<versions, alignVars>> /\ UNCHANGED <<query, answer, checkpoints>>
    BY <1>9 DEF vars, ttVars, alignVars
  <2> QED BY <1>0, <2>1, AlignStays, SearchStays DEF IInv
<1> QED BY <1>1, <1>2, <1>3, <1>4, <1>5, <1>6, <1>7, <1>8, <1>9 DEF Next, Step

-----------------------------------------------------------------------------
(***************************************************************************)
(* The statistic of two samples.  Samples are looked at through UpTo, the  *)
(* number of elements up to a value; what is below v is what is up to      *)
(* v - 1.                                                                  *)
(***************************************************************************)
\* A set of natural numbers that is not empty has a smallest one.
LEMMA Smallest ==
  ASSUME NEW B \in SUBSET Nat, B # {}
  PROVE  \E m \in B : \A k \in B : m <= k
<1> DEFINE R == OpToRel(<, Nat)
<1>1. IsWellFoundedOn(R, Nat)
  BY NatLessThanWellFounded
<1>2. \A x, y \in Nat : x < y => <<x, y>> \in R
  BY DEF OpToRel
<1> HIDE DEF R
<1>3. \E m \in B : \A k \in B : ~(<<k, m>> \in R)
  BY ONLY <1>1, WFMin, B \subseteq Nat, B # {}
<1>4. PICK m \in B : \A k \in B : ~(<<k, m>> \in R)
  BY <1>3
<1>5. \A k \in B : ~(k < m)
  BY <1>2, <1>4
<1>6. \A k \in B : m <= k
  BY <1>5
<1> QED BY <1>6

\* And one with a bound has a largest one.
LEMMA LargestBelow ==
  ASSUME NEW B \in SUBSET Nat, B # {}, NEW n \in Nat, \A k \in B : k <= n
  PROVE  \E m \in B : \A k \in B : k <= m
<1> DEFINE C == {n - k : k \in B}
<1>1. C \in SUBSET Nat /\ C # {}
  <2>1. \A k \in B : n - k \in Nat
    OBVIOUS
  <2>2. PICK k \in B : TRUE
    OBVIOUS
  <2>3. n - k \in C
    BY <2>2
  <2> QED BY <2>1, <2>3
<1>2. PICK c \in C : \A d \in C : c <= d
  BY <1>1, Smallest
<1>3. PICK m \in B : c = n - m
  BY <1>2
<1>4. ASSUME NEW k \in B PROVE k <= m
  <2>1. n - k \in C
    OBVIOUS
  <2>2. n - m <= n - k
    BY <2>1, <1>2, <1>3
  <2> QED BY <2>2
<1> QED BY <1>4

LEMMA Counts ==
  ASSUME NEW s \in Seq(Int), NEW v \in Int
  PROVE  /\ UpTo(s, v) \in 0..Len(s) /\ Below(s, v) \in 0..Len(s)
         /\ Below(s, v) = UpTo(s, v - 1)
         /\ UpTo(s, v) = Below(s, v) + Times(s, v) /\ Times(s, v) \in Nat
<1>1. Len(s) \in Nat /\ DOMAIN s = 1..Len(s) /\ \A i \in DOMAIN s : s[i] \in Int
  OBVIOUS
<1> DEFINE U == {i \in DOMAIN s : s[i] <= v}
           B == {i \in DOMAIN s : s[i] < v}
           E == {i \in DOMAIN s : s[i] = v}
<1>2. IsFiniteSet(1..Len(s)) /\ Cardinality(1..Len(s)) = Len(s)
  BY <1>1, FS_Interval
<1>3. U \subseteq 1..Len(s) /\ B \subseteq 1..Len(s) /\ E \subseteq 1..Len(s)
  BY <1>1
<1>4. IsFiniteSet(U) /\ Cardinality(U) <= Len(s) /\ Cardinality(U) \in Nat
  BY <1>2, <1>3, FS_Subset, FS_CardinalityType
<1>5. IsFiniteSet(B) /\ Cardinality(B) <= Len(s) /\ Cardinality(B) \in Nat
  BY <1>2, <1>3, FS_Subset, FS_CardinalityType
<1>6. IsFiniteSet(E) /\ Cardinality(E) \in Nat
  BY <1>2, <1>3, FS_Subset, FS_CardinalityType
<1>7. B = {i \in DOMAIN s : s[i] <= v - 1}
  BY <1>1
<1>8. U = B \cup E /\ B \cap E = {}
  BY <1>1
<1> HIDE DEF U, B, E
<1>9. Cardinality(U) = Cardinality(B) + Cardinality(E) - Cardinality({})
  BY <1>5, <1>6, <1>8, FS_Union
<1>10. Cardinality(U) = Cardinality(B) + Cardinality(E)
  BY <1>5, <1>6, <1>9, FS_EmptySet
<1>11. UpTo(s, v) = Cardinality(U) /\ Below(s, v) = Cardinality(B) /\ Times(s, v) = Cardinality(E)
  BY DEF UpTo, Below, Times, U, B, E
<1>12. UpTo(s, v - 1) = Cardinality(B)
  BY <1>7 DEF UpTo
<1> QED BY <1>1, <1>4, <1>5, <1>6, <1>10, <1>11, <1>12

\* Greater values have at least as many elements up to them, more if an element
\* lies between, and equally many if none does.
LEMMA Ordered ==
  ASSUME NEW s \in Seq(Int), NEW v \in Int, NEW w \in Int, v <= w
  PROVE  /\ UpTo(s, v) <= UpTo(s, w)
         /\ (\E i \in DOMAIN s : v < s[i] /\ s[i] <= w) => UpTo(s, v) < UpTo(s, w)
         /\ (\A i \in DOMAIN s : ~(v < s[i] /\ s[i] <= w)) => UpTo(s, v) = UpTo(s, w)
<1>1. Len(s) \in Nat /\ DOMAIN s = 1..Len(s) /\ \A i \in DOMAIN s : s[i] \in Int
  OBVIOUS
<1> DEFINE V == {i \in DOMAIN s : s[i] <= v}
           W == {i \in DOMAIN s : s[i] <= w}
<1>2. V \subseteq W /\ W \subseteq 1..Len(s)
  BY <1>1
<1>a. IsFiniteSet(1..Len(s))
  BY <1>1, FS_Interval
<1>b. IsFiniteSet(W)
  BY <1>a, <1>2, FS_Subset
<1>3. IsFiniteSet(W) /\ IsFiniteSet(V) /\ Cardinality(V) <= Cardinality(W)
      /\ (Cardinality(W) = Cardinality(V) => W = V)
  BY <1>b, <1>2, FS_Subset
<1>4. Cardinality(V) \in Nat /\ Cardinality(W) \in Nat
  BY <1>3, FS_CardinalityType
<1>5. (\E i \in DOMAIN s : v < s[i] /\ s[i] <= w) => W # V
  BY <1>1
<1>6. (\A i \in DOMAIN s : ~(v < s[i] /\ s[i] <= w)) => W = V
  BY <1>1
<1>7. UpTo(s, v) = Cardinality(V) /\ UpTo(s, w) = Cardinality(W)
  BY DEF UpTo
<1> HIDE DEF V, W
<1> QED BY <1>3, <1>4, <1>5, <1>6, <1>7

\* All elements are up to a value that is large enough, none up to one that is not.
LEMMA Extent ==
  ASSUME NEW s \in Seq(Int), NEW v \in Int
  PROVE  /\ (\A i \in DOMAIN s : s[i] <= v) => UpTo(s, v) = Len(s)
         /\ (\A i \in DOMAIN s : s[i] > v) => UpTo(s, v) = 0
         /\ UpTo(s, v) = Len(s) => \A i \in DOMAIN s : s[i] <= v
<1>1. Len(s) \in Nat /\ DOMAIN s = 1..Len(s) /\ \A i \in DOMAIN s : s[i] \in Int
  OBVIOUS
<1> DEFINE V == {i \in DOMAIN s : s[i] <= v}
<1>2. IsFiniteSet(1..Len(s)) /\ Cardinality(1..Len(s)) = Len(s)
  BY <1>1, FS_Interval
<1>3. UpTo(s, v) = Cardinality(V) /\ V \subseteq 1..Len(s)
  BY <1>1 DEF UpTo
<1>4. (\A i \in DOMAIN s : s[i] <= v) => V = 1..Len(s)
  BY <1>1
<1>5. (\A i \in DOMAIN s : s[i] > v) => V = {}
  BY <1>1
<1>6. V = 1..Len(s) => \A i \in DOMAIN s : s[i] <= v
  BY <1>1
<1> HIDE DEF V
<1>7. Cardinality(V) = Len(s) => V = 1..Len(s)
  BY <1>2, <1>3, FS_Subset
<1> QED BY <1>2, <1>3, <1>4, <1>5, <1>6, <1>7, FS_EmptySet

\* The greatest element up to v has as many elements up to it as v has.
LEMMA Landing ==
  ASSUME NEW s \in Seq(Int), NEW v \in Int, UpTo(s, v) > 0
  PROVE  \E w \in ToSet(s) : w \in Int /\ w <= v /\ UpTo(s, w) = UpTo(s, v)
<1>1. Len(s) \in Nat /\ DOMAIN s = 1..Len(s) /\ \A i \in DOMAIN s : s[i] \in Int
  OBVIOUS
<1>2. ToSet(s) = {s[i] : i \in DOMAIN s} /\ ToSet(s) \subseteq Int
  BY <1>1 DEF ToSet
<1>c. \A u \in Int : UpTo(s, u) \in Nat /\ UpTo(s, u) <= Len(s)
  <2> SUFFICES ASSUME NEW u \in Int
               PROVE  UpTo(s, u) \in Nat /\ UpTo(s, u) <= Len(s)
    OBVIOUS
  <2>1. UpTo(s, u) \in 0..Len(s)
    BY Counts
  <2>2. Len(s) \in Nat
    OBVIOUS
  <2> QED BY <2>1, <2>2
<1> DEFINE B == {UpTo(s, w) : w \in {u \in ToSet(s) : u <= v}}
<1>3. B \in SUBSET Nat /\ \A k \in B : k <= Len(s)
  BY <1>2, <1>c
<1>4. PICK i \in DOMAIN s : s[i] <= v
  <2>1. ASSUME \A i \in DOMAIN s : s[i] > v PROVE FALSE
    BY <2>1, Extent
  <2> QED BY <1>1, <2>1
<1>5. UpTo(s, s[i]) \in B
  BY <1>2, <1>4
<1> HIDE DEF B
<1>6. PICK m \in B : \A k \in B : k <= m
  BY <1>1, <1>3, <1>5, LargestBelow
<1>7. PICK w \in ToSet(s) : w <= v /\ m = UpTo(s, w)
  BY <1>6 DEF B
<1>8. ASSUME NEW j \in DOMAIN s, w < s[j], s[j] <= v PROVE FALSE
  <2>1. s[j] \in ToSet(s) /\ s[j] \in Int /\ w \in Int
    BY <1>1, <1>2, <1>7
  <2>2. UpTo(s, s[j]) \in B
    BY <2>1, <1>8 DEF B
  <2>3. UpTo(s, w) < UpTo(s, s[j])
    BY <2>1, <1>1, <1>8, Ordered
  <2>4. UpTo(s, s[j]) <= UpTo(s, w)
    BY <2>2, <1>6, <1>7
  <2> QED BY <2>1, <2>3, <2>4, <1>c
<1>9. w \in Int
  BY <1>2, <1>7
<1>10. UpTo(s, w) = UpTo(s, v)
  BY <1>7, <1>8, <1>9, Ordered
<1> QED BY <1>7, <1>9, <1>10

\* Some element of a sample has the whole sample up to it.
LEMMA Top ==
  ASSUME NEW s \in Seq(Int), s # <<>>
  PROVE  \E w \in ToSet(s) : w \in Int /\ UpTo(s, w) = Len(s)
<1>1. Len(s) \in Nat /\ DOMAIN s = 1..Len(s) /\ \A i \in DOMAIN s : s[i] \in Int
  OBVIOUS
<1>2. ToSet(s) = {s[i] : i \in DOMAIN s} /\ ToSet(s) \subseteq Int
  BY <1>1 DEF ToSet
<1>c. \A u \in Int : UpTo(s, u) \in Nat /\ UpTo(s, u) <= Len(s)
  <2> SUFFICES ASSUME NEW u \in Int
               PROVE  UpTo(s, u) \in Nat /\ UpTo(s, u) <= Len(s)
    OBVIOUS
  <2>1. UpTo(s, u) \in 0..Len(s)
    BY Counts
  <2>2. Len(s) \in Nat
    OBVIOUS
  <2> QED BY <2>1, <2>2
<1> DEFINE B == {UpTo(s, w) : w \in ToSet(s)}
<1>3. B \in SUBSET Nat /\ \A k \in B : k <= Len(s)
  BY <1>2, <1>c
<1>4. 1 \in DOMAIN s
  BY <1>1
<1>5. UpTo(s, s[1]) \in B
  BY <1>2, <1>4
<1> HIDE DEF B
<1>6. PICK m \in B : \A k \in B : k <= m
  BY <1>1, <1>3, <1>5, LargestBelow
<1>7. PICK w \in ToSet(s) : m = UpTo(s, w)
  BY <1>6 DEF B
<1>8. ASSUME NEW j \in DOMAIN s, w < s[j] PROVE FALSE
  <2>1. s[j] \in ToSet(s) /\ s[j] \in Int /\ w \in Int
    BY <1>1, <1>2, <1>7
  <2>2. UpTo(s, s[j]) \in B
    BY <2>1 DEF B
  <2>3. UpTo(s, w) < UpTo(s, s[j])
    BY <2>1, <1>1, <1>8, Ordered
  <2>4. UpTo(s, s[j]) <= UpTo(s, w)
    BY <2>2, <1>6, <1>7
  <2> QED BY <2>1, <2>3, <2>4, <1>c
<1>9. w \in Int
  BY <1>2, <1>7
<1>10. UpTo(s, w) = Len(s)
  <2>1. \A j \in DOMAIN s : s[j] <= w
    BY <1>1, <1>8, <1>9
  <2> QED BY <2>1, <1>9, Extent
<1> QED BY <1>9, <1>10

\* What a sorted sample t of s has in position i is up to v exactly when i is.
Ranks(t, s) ==
    /\ t \in Seq(Int) /\ Len(t) = Len(s)
    /\ \A i \in 1..Len(s), v \in Int : t[i] <= v <=> i <= UpTo(s, v)

\* Every position has the value that Sorted looks for.
LEMMA ValueOfRank ==
  ASSUME NEW s \in Seq(Int), NEW i \in 1..Len(s)
  PROVE  \E v \in ToSet(s) : Below(s, v) < i /\ i <= UpTo(s, v)
<1>1. Len(s) \in Nat /\ DOMAIN s = 1..Len(s) /\ \A j \in DOMAIN s : s[j] \in Int
  OBVIOUS
<1>2. ToSet(s) = {s[j] : j \in DOMAIN s} /\ ToSet(s) \subseteq Int
  BY <1>1 DEF ToSet
<1>c. \A u \in Int : UpTo(s, u) \in Nat /\ UpTo(s, u) <= Len(s)
  <2> SUFFICES ASSUME NEW u \in Int
               PROVE  UpTo(s, u) \in Nat /\ UpTo(s, u) <= Len(s)
    OBVIOUS
  <2>1. UpTo(s, u) \in 0..Len(s)
    BY Counts
  <2>2. Len(s) \in Nat
    OBVIOUS
  <2> QED BY <2>1, <2>2
<1> DEFINE B == {UpTo(s, w) : w \in {u \in ToSet(s) : i <= UpTo(s, u)}}
<1>3. B \in SUBSET Nat
  BY <1>2, <1>c
<1>4. s # <<>>
  OBVIOUS
<1>5. PICK top \in ToSet(s) : UpTo(s, top) = Len(s)
  BY <1>4, Top
<1>6. UpTo(s, top) \in B
  BY <1>5
<1> HIDE DEF B
<1>7. PICK m \in B : \A k \in B : m <= k
  BY <1>3, <1>6, Smallest
<1>8. PICK v \in ToSet(s) : i <= UpTo(s, v) /\ m = UpTo(s, v)
  BY <1>7 DEF B
<1>9. v \in Int /\ v - 1 \in Int
  BY <1>2, <1>8
<1>10. ASSUME i <= Below(s, v) PROVE FALSE
  <2>1. UpTo(s, v - 1) = Below(s, v) /\ UpTo(s, v - 1) > 0
    <3>1. UpTo(s, v - 1) = Below(s, v)
      BY <1>9, Counts
    <3> QED BY <3>1, <1>9, <1>10, <1>c
  <2>2. PICK w \in ToSet(s) : w <= v - 1 /\ UpTo(s, w) = UpTo(s, v - 1)
    BY <1>9, <2>1, Landing
  <2>3. UpTo(s, w) \in B
    BY <2>1, <2>2, <1>10 DEF B
  <2>4. PICK j \in DOMAIN s : s[j] = v
    BY <1>2, <1>8
  <2>5. v - 1 < s[j] /\ s[j] <= v /\ v - 1 <= v
    BY <1>9, <2>4
  <2>6. UpTo(s, v - 1) < UpTo(s, v)
    BY <1>9, <2>5, Ordered
  <2>7. UpTo(s, v) <= UpTo(s, v - 1)
    BY <2>2, <2>3, <1>7, <1>8
  <2> QED BY <2>6, <2>7, <1>9, <1>c
<1>11. Below(s, v) \in Nat
  BY <1>1, <1>9, Counts
<1> QED BY <1>8, <1>10, <1>11

LEMMA SortedRanks ==
  ASSUME NEW s \in Seq(Int)
  PROVE  Ranks(Sorted(s), s)
<1>1. Len(s) \in Nat /\ DOMAIN s = 1..Len(s) /\ \A j \in DOMAIN s : s[j] \in Int
  OBVIOUS
<1>2. ToSet(s) \subseteq Int
  BY <1>1 DEF ToSet
<1>3. ASSUME NEW i \in DOMAIN s
      PROVE  Sorted(s)[i] \in Int /\ Below(s, Sorted(s)[i]) < i /\ i <= UpTo(s, Sorted(s)[i])
  <2>1. \E v \in ToSet(s) : Below(s, v) < i /\ i <= UpTo(s, v)
    BY <1>1, ValueOfRank
  <2> DEFINE c == CHOOSE v \in ToSet(s) : Below(s, v) < i /\ i <= UpTo(s, v)
  <2>2. c \in ToSet(s) /\ Below(s, c) < i /\ i <= UpTo(s, c)
    BY <2>1
  <2>3. Sorted(s)[i] = c
    BY DEF Sorted
  <2> HIDE DEF c
  <2> QED BY <2>2, <2>3, <1>2
<1>4. Sorted(s) = [i \in 1..Len(s) |-> Sorted(s)[i]]
  BY <1>1 DEF Sorted
<1>5. Sorted(s) \in Seq(Int) /\ Len(Sorted(s)) = Len(s)
  BY <1>1, <1>3, <1>4
<1>6. ASSUME NEW i \in 1..Len(s), NEW v \in Int
      PROVE  Sorted(s)[i] <= v <=> i <= UpTo(s, v)
  <2> DEFINE x == Sorted(s)[i]
  <2>1. x \in Int /\ Below(s, x) < i /\ i <= UpTo(s, x) /\ x - 1 \in Int
    BY <1>1, <1>3
  <2> HIDE DEF x
  <2>2. Below(s, x) = UpTo(s, x - 1) /\ UpTo(s, x) \in Nat /\ UpTo(s, x - 1) \in Nat
        /\ UpTo(s, v) \in Nat
    <3>1. Below(s, x) = UpTo(s, x - 1)
      BY <2>1, Counts
    <3>2. ASSUME NEW u \in Int PROVE UpTo(s, u) \in Nat
      <4>1. UpTo(s, u) \in 0..Len(s)
        BY Counts
      <4> QED BY <1>1, <4>1
    <3> QED BY <2>1, <3>1, <3>2
  <2>3. CASE x <= v
    <3>1. UpTo(s, x) <= UpTo(s, v)
      BY <2>1, <2>3, Ordered
    <3> QED BY <2>1, <2>2, <2>3, <3>1 DEF x
  <2>4. CASE ~(x <= v)
    <3>1. v <= x - 1
      BY <2>1, <2>4
    <3>2. UpTo(s, v) <= UpTo(s, x - 1)
      BY <2>1, <3>1, Ordered
    <3> QED BY <2>1, <2>2, <2>4, <3>2 DEF x
  <2> QED BY <2>3, <2>4
<1> HIDE DEF Ranks
<1> QED BY <1>5, <1>6 DEF Ranks

-----------------------------------------------------------------------------
(***************************************************************************)
(* The distance of the two distribution functions.                         *)
(***************************************************************************)
LEMMA ProductsGrow ==
  ASSUME NEW a \in Nat, NEW b \in Nat, NEW n \in Nat, a <= b
  PROVE  a * n <= b * n /\ a * n \in Nat /\ b * n \in Nat
<1>1. b - a \in Nat /\ b = a + (b - a)
  OBVIOUS
<1>2. (b - a) * n \in Nat /\ a * n \in Nat /\ b * n \in Nat
  BY <1>1
<1>3. b * n = a * n + (b - a) * n
  BY <1>1
<1> QED BY <1>2, <1>3

\* The distance of the two samples at v, and at a point of the walk.
Gap(s1, s2, v) == Distance(UpTo(s1, v) * Len(s2), UpTo(s2, v) * Len(s1))

At(n1, n2, p) == Distance(p[1] * n2, p[2] * n1)

\* No distance is above 1, and the last one is 0.
LEMMA DistanceBounds ==
  ASSUME NEW n1 \in Nat, NEW n2 \in Nat, NEW i \in 0..n1, NEW j \in 0..n2
  PROVE  /\ Distance(i * n2, j * n1) \in Nat /\ Distance(i * n2, j * n1) <= n1 * n2
         /\ n1 * n2 \in Nat
         /\ i = 0 /\ j = 0 => Distance(i * n2, j * n1) = 0
         /\ i = n1 /\ j = n2 => Distance(i * n2, j * n1) = 0
<1>1. i * n2 <= n1 * n2 /\ i * n2 \in Nat /\ n1 * n2 \in Nat
  BY ProductsGrow
<1>2. j * n1 <= n2 * n1 /\ j * n1 \in Nat /\ n2 * n1 \in Nat
  BY ProductsGrow
<1>3. n1 * n2 = n2 * n1
  OBVIOUS
<1>4. i = 0 /\ j = 0 => i * n2 = 0 /\ j * n1 = 0
  OBVIOUS
<1> QED BY <1>1, <1>2, <1>3, <1>4 DEF Distance

\* An element of one of the samples sees what any value above them all sees.
LEMMA LandingInEither ==
  ASSUME NEW s1 \in Seq(Int), NEW s2 \in Seq(Int), NEW v \in Int,
         UpTo(s1, v) > 0 \/ UpTo(s2, v) > 0
  PROVE  \E w \in ToSet(s1) \union ToSet(s2) :
            w \in Int /\ UpTo(s1, w) = UpTo(s1, v) /\ UpTo(s2, w) = UpTo(s2, v)
<1>1. ASSUME NEW u \in Int PROVE UpTo(s1, u) \in Nat /\ UpTo(s2, u) \in Nat
  <2>1. UpTo(s1, u) \in 0..Len(s1) /\ UpTo(s2, u) \in 0..Len(s2)
    BY Counts
  <2>2. Len(s1) \in Nat /\ Len(s2) \in Nat
    OBVIOUS
  <2> QED BY <2>1, <2>2
<1>2. ASSUME NEW w \in Int, NEW x \in Int, w <= x, x <= v
      PROVE  /\ UpTo(s1, w) = UpTo(s1, v) => UpTo(s1, x) = UpTo(s1, v)
             /\ UpTo(s2, w) = UpTo(s2, v) => UpTo(s2, x) = UpTo(s2, v)
             /\ UpTo(s1, v) = 0 => UpTo(s1, x) = UpTo(s1, v)
             /\ UpTo(s2, v) = 0 => UpTo(s2, x) = UpTo(s2, v)
  <2>1. /\ UpTo(s1, w) <= UpTo(s1, x) /\ UpTo(s1, x) <= UpTo(s1, v)
        /\ UpTo(s2, w) <= UpTo(s2, x) /\ UpTo(s2, x) <= UpTo(s2, v)
    BY <1>2, Ordered
  <2>2. /\ UpTo(s1, w) \in Nat /\ UpTo(s1, x) \in Nat /\ UpTo(s1, v) \in Nat
        /\ UpTo(s2, w) \in Nat /\ UpTo(s2, x) \in Nat /\ UpTo(s2, v) \in Nat
    BY <1>1
  <2> QED BY <2>1, <2>2
<1>3. UpTo(s1, v) > 0 =>
         \E w \in ToSet(s1) : w \in Int /\ w <= v /\ UpTo(s1, w) = UpTo(s1, v)
  BY Landing
<1>4. UpTo(s2, v) > 0 =>
         \E w \in ToSet(s2) : w \in Int /\ w <= v /\ UpTo(s2, w) = UpTo(s2, v)
  BY Landing
<1>5. UpTo(s1, v) \in Nat /\ UpTo(s2, v) \in Nat
  BY <1>1
<1>6. CASE UpTo(s1, v) = 0
  <2>1. PICK w \in ToSet(s2) : w \in Int /\ w <= v /\ UpTo(s2, w) = UpTo(s2, v)
    BY <1>4, <1>5, <1>6
  <2>2. UpTo(s1, w) = UpTo(s1, v)
    BY <2>1, <1>2, <1>6
  <2> QED BY <2>1, <2>2
<1>7. CASE UpTo(s2, v) = 0
  <2>1. PICK w \in ToSet(s1) : w \in Int /\ w <= v /\ UpTo(s1, w) = UpTo(s1, v)
    BY <1>3, <1>5, <1>7
  <2>2. UpTo(s2, w) = UpTo(s2, v)
    BY <2>1, <1>2, <1>7
  <2> QED BY <2>1, <2>2
<1>8. CASE UpTo(s1, v) > 0 /\ UpTo(s2, v) > 0
  <2>1. PICK w \in ToSet(s1) : w \in Int /\ w <= v /\ UpTo(s1, w) = UpTo(s1, v)
    BY <1>3, <1>8
  <2>2. PICK x \in ToSet(s2) : x \in Int /\ x <= v /\ UpTo(s2, x) = UpTo(s2, v)
    BY <1>4, <1>8
  <2>3. CASE w <= x
    <3>1. UpTo(s1, x) = UpTo(s1, v)
      BY <2>1, <2>2, <2>3, <1>2
    <3> QED BY <2>2, <3>1
  <2>4. CASE x <= w
    <3>1. UpTo(s2, w) = UpTo(s2, v)
      BY <2>1, <2>2, <2>4, <1>2
    <3> QED BY <2>1, <3>1
  <2> QED BY <2>1, <2>2, <2>3, <2>4
<1> QED BY <1>5, <1>6, <1>7, <1>8

\* The sup-norm distance is the distance at some value, and not less than the
\* distance at any.
LEMMA SupNormIsGreatest ==
  ASSUME NEW s1 \in Seq(Int), NEW s2 \in Seq(Int), s1 # <<>>
  PROVE  /\ \E v \in Int : SupNorm(s1, s2) = Gap(s1, s2, v)
         /\ \A v \in Int : Gap(s1, s2, v) <= SupNorm(s1, s2)
         /\ SupNorm(s1, s2) \in Nat
<1> DEFINE n1 == Len(s1)
           n2 == Len(s2)
           V  == ToSet(s1) \union ToSet(s2)
           G  == {Gap(s1, s2, v) : v \in V}
<1>1. n1 \in Nat /\ n2 \in Nat /\ n1 > 0
  OBVIOUS
<1>2. ToSet(s1) \subseteq Int /\ ToSet(s2) \subseteq Int
  BY DEF ToSet
<1>3. ASSUME NEW v \in Int
      PROVE  /\ UpTo(s1, v) \in 0..n1 /\ UpTo(s2, v) \in 0..n2
             /\ Gap(s1, s2, v) \in Nat /\ Gap(s1, s2, v) <= n1 * n2
             /\ UpTo(s1, v) = 0 /\ UpTo(s2, v) = 0 => Gap(s1, s2, v) = 0
  <2>1. UpTo(s1, v) \in 0..n1 /\ UpTo(s2, v) \in 0..n2
    BY Counts
  <2> HIDE DEF n1, n2
  <2>2. LET d == Distance(UpTo(s1, v) * n2, UpTo(s2, v) * n1)
        IN /\ d \in Nat /\ d <= n1 * n2
           /\ UpTo(s1, v) = 0 /\ UpTo(s2, v) = 0 => d = 0
    BY <1>1, <2>1, DistanceBounds
  <2> USE DEF n1, n2
  <2> QED BY <2>1, <2>2 DEF Gap
<1>4. n1 * n2 \in Nat
  BY <1>1
<1>5. G \in SUBSET Nat /\ \A g \in G : g <= n1 * n2
  BY <1>2, <1>3
<1>6. PICK top \in ToSet(s1) : top \in Int
  BY Top
<1>7. Gap(s1, s2, top) \in G
  BY <1>6
<1> HIDE DEF G
<1>8. PICK m \in G : \A g \in G : g <= m
  BY <1>4, <1>5, <1>7, LargestBelow
<1>9. SupNorm(s1, s2) = Max(G)
  BY DEF SupNorm, Gap, G
<1>10. Max(G) \in G /\ \A g \in G : Max(G) >= g
  <2>1. \E x \in G : \A y \in G : x >= y
    BY <1>5, <1>8
  <2> QED BY <2>1 DEF Max
<1>11. SupNorm(s1, s2) \in G /\ \A g \in G : g <= SupNorm(s1, s2)
  BY <1>9, <1>10, <1>5
<1>12. PICK v \in V : SupNorm(s1, s2) = Gap(s1, s2, v)
  BY <1>11 DEF G
<1>13. SupNorm(s1, s2) \in Nat
  BY <1>5, <1>11
<1>14. ASSUME NEW x \in Int PROVE Gap(s1, s2, x) <= SupNorm(s1, s2)
  <2>1. CASE UpTo(s1, x) > 0 \/ UpTo(s2, x) > 0
    <3>1. PICK w \in V : w \in Int /\ UpTo(s1, w) = UpTo(s1, x) /\ UpTo(s2, w) = UpTo(s2, x)
      BY <2>1, LandingInEither
    <3>2. Gap(s1, s2, x) = Gap(s1, s2, w)
      BY <3>1 DEF Gap
    <3>3. Gap(s1, s2, w) \in G
      BY DEF G
    <3> QED BY <3>2, <3>3, <1>11
  <2>2. CASE ~(UpTo(s1, x) > 0 \/ UpTo(s2, x) > 0)
    <3>1. UpTo(s1, x) = 0 /\ UpTo(s2, x) = 0
      <4>1. UpTo(s1, x) \in 0..n1 /\ UpTo(s2, x) \in 0..n2
        BY <1>3
      <4> QED BY <4>1, <1>1, <2>2
    <3>a. Gap(s1, s2, x) = 0
      BY <3>1, <1>3
    <3> QED BY <3>a, <1>13
  <2> QED BY <2>1, <2>2
<1> QED BY <1>2, <1>12, <1>13, <1>14

-----------------------------------------------------------------------------
(***************************************************************************)
(* The walk over two sorted samples.                                       *)
(***************************************************************************)
Points(t1, t2) == (0..Len(t1)) \X (0..Len(t2))

Score(t1, t2, f, p) ==
    IF WalkEnds(t1, t2, p[1], p[2]) THEN 0
    ELSE Larger(Distance(p[1] * Len(t2), p[2] * Len(t1)), f[Advance(t1, t2, p[1], p[2])])

\* f gives to each point the greatest distance on the rest of the walk.
IsWalk(t1, t2, f) == f = [p \in Points(t1, t2) |-> Score(t1, t2, f, p)]

\* How many elements are still to be passed.
Left(t1, t2, p) == (Len(t1) - p[1]) + (Len(t2) - p[2])

\* A step stays within the samples and passes an element, two if they are equal.
LEMMA AdvanceStep ==
  ASSUME NEW t1 \in Seq(Int), NEW t2 \in Seq(Int),
         NEW i \in 0..Len(t1), NEW j \in 0..Len(t2), ~WalkEnds(t1, t2, i, j)
  PROVE  LET q == Advance(t1, t2, i, j)
         IN /\ q \in Points(t1, t2)
            /\ Left(t1, t2, q) < (Len(t1) - i) + (Len(t2) - j)
            /\ \/ /\ q = <<i + 1, j + 1>> /\ i < Len(t1) /\ j < Len(t2)
                  /\ t1[i + 1] = t2[j + 1]
               \/ /\ q = <<i + 1, j>> /\ i < Len(t1)
                  /\ j = Len(t2) \/ t1[i + 1] < t2[j + 1]
               \/ /\ q = <<i, j + 1>> /\ j < Len(t2)
                  /\ i = Len(t1) \/ t2[j + 1] < t1[i + 1]
<1>1. /\ Len(t1) \in Nat /\ Len(t2) \in Nat
      /\ \A k \in 1..Len(t1) : t1[k] \in Int
      /\ \A k \in 1..Len(t2) : t2[k] \in Int
  OBVIOUS
<1> DEFINE q == Advance(t1, t2, i, j)
<1>2. ~(i = Len(t1) /\ j = Len(t2))
  BY DEF WalkEnds
<1>3. i < Len(t1) => t1[i + 1] \in Int
  BY <1>1
<1>4. j < Len(t2) => t2[j + 1] \in Int
  BY <1>1
<1>5. \/ /\ q = <<i + 1, j + 1>> /\ i < Len(t1) /\ j < Len(t2) /\ t1[i + 1] = t2[j + 1]
      \/ q = <<i + 1, j>> /\ i < Len(t1) /\ (j = Len(t2) \/ t1[i + 1] < t2[j + 1])
      \/ q = <<i, j + 1>> /\ j < Len(t2) /\ (i = Len(t1) \/ t2[j + 1] < t1[i + 1])
  BY <1>1, <1>2, <1>3, <1>4 DEF Advance
<1> HIDE DEF q
<1>6. PICK k \in {i, i + 1}, l \in {j, j + 1} :
         /\ q = <<k, l>> /\ k + l > i + j
         /\ k = i + 1 => i < Len(t1)
         /\ l = j + 1 => j < Len(t2)
  BY <1>1, <1>5
<1>7. k \in 0..Len(t1) /\ l \in 0..Len(t2)
  BY <1>1, <1>6
<1>8. (Len(t1) - k) + (Len(t2) - l) < (Len(t1) - i) + (Len(t2) - j)
  BY <1>1, <1>6
<1>9. q \in Points(t1, t2)
  BY <1>6, <1>7 DEF Points
<1>10. Left(t1, t2, q) = (Len(t1) - k) + (Len(t2) - l)
  BY <1>6 DEF Left
<1> QED BY <1>5, <1>8, <1>9, <1>10 DEF q

LEMMA AdvanceWithin ==
  ASSUME NEW t1 \in Seq(Int), NEW t2 \in Seq(Int), NEW p \in Points(t1, t2),
         ~WalkEnds(t1, t2, p[1], p[2])
  PROVE  /\ Advance(t1, t2, p[1], p[2]) \in Points(t1, t2)
         /\ Left(t1, t2, Advance(t1, t2, p[1], p[2])) < Left(t1, t2, p)
<1>1. p[1] \in 0..Len(t1) /\ p[2] \in 0..Len(t2)
  BY DEF Points
<1>2. /\ Advance(t1, t2, p[1], p[2]) \in Points(t1, t2)
      /\ Left(t1, t2, Advance(t1, t2, p[1], p[2])) < (Len(t1) - p[1]) + (Len(t2) - p[2])
  BY <1>1, AdvanceStep
<1>3. Left(t1, t2, p) = (Len(t1) - p[1]) + (Len(t2) - p[2])
  BY DEF Left
<1> QED BY <1>2, <1>3

LEMMA LeftType ==
  ASSUME NEW t1 \in Seq(Int), NEW t2 \in Seq(Int), NEW p \in Points(t1, t2)
  PROVE  Left(t1, t2, p) \in Nat /\ Left(t1, t2, p) <= Len(t1) + Len(t2)
<1>1. Len(t1) \in Nat /\ Len(t2) \in Nat
  OBVIOUS
<1>2. PICK i \in 0..Len(t1), j \in 0..Len(t2) : p = <<i, j>>
  BY DEF Points
<1> QED BY <1>1, <1>2 DEF Left

\* A set that holds a point where the walk ends, and a point whose successor it
\* holds, holds every point.
LEMMA WalkInduction ==
  ASSUME NEW t1 \in Seq(Int), NEW t2 \in Seq(Int), NEW G,
         \A p \in Points(t1, t2) :
            WalkEnds(t1, t2, p[1], p[2]) \/ Advance(t1, t2, p[1], p[2]) \in G => p \in G
  PROVE  Points(t1, t2) \subseteq G
<1> SUFFICES ASSUME NEW bad \in Points(t1, t2), bad \notin G PROVE FALSE
  OBVIOUS
<1> DEFINE B == {Left(t1, t2, p) : p \in Points(t1, t2) \ G}
<1>1. B \in SUBSET Nat /\ Left(t1, t2, bad) \in B
  BY LeftType
<1> HIDE DEF B
<1>2. PICK m \in B : \A k \in B : m <= k
  BY <1>1, Smallest
<1>3. PICK p \in Points(t1, t2) \ G : m = Left(t1, t2, p)
  BY <1>2 DEF B
<1>4. ~WalkEnds(t1, t2, p[1], p[2])
  BY <1>3
<1> DEFINE q == Advance(t1, t2, p[1], p[2])
<1>5. q \in Points(t1, t2) /\ Left(t1, t2, q) < Left(t1, t2, p)
  BY <1>3, <1>4, AdvanceWithin
<1>6. q \notin G
  BY <1>3
<1> HIDE DEF q
<1>7. Left(t1, t2, q) \in B
  BY <1>5, <1>6 DEF B
<1>8. Left(t1, t2, p) <= Left(t1, t2, q)
  BY <1>7, <1>2, <1>3
<1>9. Left(t1, t2, p) \in Nat /\ Left(t1, t2, q) \in Nat
  BY <1>3, <1>5, LeftType
<1> QED BY <1>5, <1>8, <1>9

\* max_diff is defined: it is built from the end of the walk backwards.
LEMMA WalkExists ==
  ASSUME NEW t1 \in Seq(Int), NEW t2 \in Seq(Int)
  PROVE  \E f : IsWalk(t1, t2, f)
<1> DEFINE Near(k) == {p \in Points(t1, t2) : Left(t1, t2, p) < k}
           Part(f, k) == f = [p \in Near(k) |-> Score(t1, t2, f, p)]
           B == {k \in Nat : ~ \E f : Part(f, k)}
<1>1. ASSUME B # {} PROVE FALSE
  <2>1. PICK m \in B : \A k \in B : m <= k
    BY ONLY <1>1, Smallest, B \subseteq Nat
  <2>2. m \in Nat /\ ~ \E f : Part(f, m)
    BY <2>1
  <2>3. m # 0
    <3>1. Near(0) = {}
      BY LeftType
    <3>2. Part([p \in {} |-> 0], 0)
      BY <3>1
    <3> QED BY <2>2, <3>2
  <2>a. m - 1 \in Nat /\ ~(m <= m - 1)
    BY <2>2, <2>3
  <2> HIDE DEF B
  <2>4. m - 1 \notin B
    BY <2>1, <2>a
  <2> USE DEF B
  <2> HIDE DEF Near
  <2>5. PICK f : Part(f, m - 1)
    BY <2>4, <2>a
  <2> DEFINE g == [p \in Near(m) |-> Score(t1, t2, f, p)]
  <2>6. ASSUME NEW p \in Near(m - 1) PROVE p \in Near(m) /\ g[p] = f[p]
    <3>1. p \in Points(t1, t2) /\ Left(t1, t2, p) \in Nat /\ Left(t1, t2, p) < m - 1
      BY LeftType DEF Near
    <3>2. p \in Near(m)
      BY <3>1, <2>2 DEF Near
    <3>3. f[p] = Score(t1, t2, f, p)
      BY <2>5
    <3> QED BY <3>2, <3>3
  <2> HIDE DEF g
  <2>7. ASSUME NEW p \in Near(m) PROVE Score(t1, t2, f, p) = Score(t1, t2, g, p)
    <3>1. p \in Points(t1, t2) /\ Left(t1, t2, p) \in Nat /\ Left(t1, t2, p) < m
      BY LeftType DEF Near
    <3>2. CASE WalkEnds(t1, t2, p[1], p[2])
      BY <3>2 DEF Score
    <3>3. CASE ~WalkEnds(t1, t2, p[1], p[2])
      <4> DEFINE q == Advance(t1, t2, p[1], p[2])
      <4>1. q \in Points(t1, t2) /\ Left(t1, t2, q) < Left(t1, t2, p)
        BY <3>1, <3>3, AdvanceWithin
      <4> HIDE DEF q
      <4>2. Left(t1, t2, q) \in Nat
        BY <4>1, LeftType
      <4>3. q \in Near(m - 1)
        BY <4>1, <4>2, <3>1, <2>2 DEF Near
      <4>4. g[q] = f[q]
        BY <4>3, <2>6
      <4> QED BY <4>4 DEF Score, q
    <3> QED BY <3>2, <3>3
  <2>8. g = [p \in Near(m) |-> Score(t1, t2, g, p)]
    BY <2>7 DEF g
  <2> QED BY <2>2, <2>8
<1> DEFINE N == Len(t1) + Len(t2) + 1
<1>2. N \in Nat
  OBVIOUS
<1>3. PICK f : Part(f, N)
  BY <1>1, <1>2
<1>4. \A p \in Points(t1, t2) : Left(t1, t2, p) < N
  <2> SUFFICES ASSUME NEW p \in Points(t1, t2) PROVE Left(t1, t2, p) < N
    OBVIOUS
  <2>1. Left(t1, t2, p) \in Nat /\ Left(t1, t2, p) <= Len(t1) + Len(t2)
    BY LeftType
  <2>2. Len(t1) \in Nat /\ Len(t2) \in Nat
    OBVIOUS
  <2> QED BY <2>1, <2>2
<1>5. Near(N) = Points(t1, t2)
  BY <1>4
<1> QED BY <1>3, <1>5 DEF IsWalk

\* What a walk gives to a point, from which everything below follows.
LEMMA WalkValue ==
  ASSUME NEW t1 \in Seq(Int), NEW t2 \in Seq(Int), NEW f, IsWalk(t1, t2, f),
         NEW p \in Points(t1, t2)
  PROVE  /\ WalkEnds(t1, t2, p[1], p[2]) => f[p] = 0
         /\ ~WalkEnds(t1, t2, p[1], p[2]) =>
               f[p] = Larger(Distance(p[1] * Len(t2), p[2] * Len(t1)),
                             f[Advance(t1, t2, p[1], p[2])])
<1>1. f[p] = Score(t1, t2, f, p)
  BY DEF IsWalk
<1> QED BY <1>1 DEF Score

\* No statistic is above 1.
LEMMA WalkBounded ==
  ASSUME NEW t1 \in Seq(Int), NEW t2 \in Seq(Int), NEW f, IsWalk(t1, t2, f)
  PROVE  \A p \in Points(t1, t2) : f[p] \in 0..(Len(t1) * Len(t2))
<1> DEFINE G == {p \in Points(t1, t2) : f[p] \in 0..(Len(t1) * Len(t2))}
<1>1. Len(t1) \in Nat /\ Len(t2) \in Nat /\ Len(t1) * Len(t2) \in Nat
  OBVIOUS
<1>2. ASSUME NEW p \in Points(t1, t2),
             WalkEnds(t1, t2, p[1], p[2]) \/ Advance(t1, t2, p[1], p[2]) \in G
      PROVE  p \in G
  <2>1. CASE WalkEnds(t1, t2, p[1], p[2])
    <3>1. f[p] = 0
      BY <2>1, WalkValue
    <3> QED BY <3>1, <1>1
  <2>2. CASE ~WalkEnds(t1, t2, p[1], p[2])
    <3> DEFINE d == Distance(p[1] * Len(t2), p[2] * Len(t1))
               e == f[Advance(t1, t2, p[1], p[2])]
    <3>1. f[p] = Larger(d, e)
      BY <2>2, WalkValue
    <3>2. e \in 0..(Len(t1) * Len(t2))
      BY <1>2, <2>2
    <3>3. p[1] \in 0..Len(t1) /\ p[2] \in 0..Len(t2)
      BY DEF Points
    <3>4. d \in Nat /\ d <= Len(t1) * Len(t2)
      BY <1>1, <3>3, DistanceBounds
    <3> HIDE DEF d, e
    <3>5. f[p] = d \/ f[p] = e
      BY <3>1 DEF Larger
    <3>6. f[p] \in 0..(Len(t1) * Len(t2))
      BY <1>1, <3>2, <3>4, <3>5
    <3> QED BY <3>6
  <2> QED BY <2>1, <2>2
<1> HIDE DEF G
<1>3. Points(t1, t2) \subseteq G
  BY <1>2, WalkInduction
<1> QED BY <1>3 DEF G

\* The walk does not pass by the point that v splits the samples at: it meets the
\* distance at v.
LEMMA WalkMeets ==
  ASSUME NEW s1 \in Seq(Int), NEW s2 \in Seq(Int), NEW t1, NEW t2,
         Ranks(t1, s1), Ranks(t2, s2), NEW f, IsWalk(t1, t2, f), NEW v \in Int
  PROVE  \A p \in Points(t1, t2) :
            p[1] <= UpTo(s1, v) /\ p[2] <= UpTo(s2, v) => Gap(s1, s2, v) <= f[p]
<1> DEFINE n1 == Len(s1)
           n2 == Len(s2)
           u1 == UpTo(s1, v)
           u2 == UpTo(s2, v)
           d  == Gap(s1, s2, v)
           G  == {p \in Points(t1, t2) : p[1] <= u1 /\ p[2] <= u2 => d <= f[p]}
<1>1. n1 \in Nat /\ n2 \in Nat /\ u1 \in 0..n1 /\ u2 \in 0..n2
  <2>1. n1 \in Nat /\ n2 \in Nat
    OBVIOUS
  <2>2. u1 \in 0..n1 /\ u2 \in 0..n2
    BY Counts
  <2> QED BY <2>1, <2>2
<1>2. /\ t1 \in Seq(Int) /\ Len(t1) = n1
      /\ t2 \in Seq(Int) /\ Len(t2) = n2
      /\ \A i \in 1..n1 : t1[i] <= v <=> i <= u1
      /\ \A i \in 1..n2 : t2[i] <= v <=> i <= u2
  BY DEF Ranks
<1>3. d = Distance(u1 * n2, u2 * n1)
  BY DEF Gap
<1>4. (\A i \in 1..n1 : t1[i] \in Int) /\ (\A i \in 1..n2 : t2[i] \in Int)
  BY <1>2
<1> HIDE DEF n1, n2, u1, u2, d
<1>5. d \in Nat /\ (u1 = n1 /\ u2 = n2 => d = 0)
  BY <1>1, <1>3, DistanceBounds
<1>6. ASSUME NEW p \in Points(t1, t2),
             WalkEnds(t1, t2, p[1], p[2]) \/ Advance(t1, t2, p[1], p[2]) \in G,
             p[1] <= u1, p[2] <= u2
      PROVE  d <= f[p]
  <2>1. PICK i \in 0..n1, j \in 0..n2 : p = <<i, j>>
    BY <1>2 DEF Points
  <2>2. p[1] = i /\ p[2] = j
    BY <2>1
  <2>3. CASE WalkEnds(t1, t2, p[1], p[2])
    <3>1. u1 = n1 /\ u2 = n2
      BY <1>1, <1>2, <1>6, <2>2, <2>3 DEF WalkEnds
    <3>2. f[p] = 0
      BY <1>2, <2>3, WalkValue
    <3> QED BY <3>1, <3>2, <1>5
  <2>4. CASE ~WalkEnds(t1, t2, p[1], p[2])
    <3> DEFINE q == Advance(t1, t2, p[1], p[2])
               e == Distance(i * n2, j * n1)
    <3>1. q \in Points(t1, t2) /\ q \in G
      BY <1>2, <1>6, <2>4, AdvanceWithin
    <3>2. \/ /\ q = <<i + 1, j + 1>> /\ i < n1 /\ j < n2 /\ t1[i + 1] = t2[j + 1]
          \/ /\ q = <<i + 1, j>> /\ i < n1
             /\ j = n2 \/ t1[i + 1] < t2[j + 1]
          \/ /\ q = <<i, j + 1>> /\ j < n2
             /\ i = n1 \/ t2[j + 1] < t1[i + 1]
      <4>1. ~WalkEnds(t1, t2, i, j) /\ q = Advance(t1, t2, i, j)
        BY <2>2, <2>4
      <4> HIDE DEF q
      <4>2. i \in 0..Len(t1) /\ j \in 0..Len(t2) /\ t1 \in Seq(Int) /\ t2 \in Seq(Int)
        BY <1>2
      <4>3. \/ /\ q = <<i + 1, j + 1>> /\ i < Len(t1) /\ j < Len(t2)
               /\ t1[i + 1] = t2[j + 1]
            \/ /\ q = <<i + 1, j>> /\ i < Len(t1)
               /\ j = Len(t2) \/ t1[i + 1] < t2[j + 1]
            \/ /\ q = <<i, j + 1>> /\ j < Len(t2)
               /\ i = Len(t1) \/ t2[j + 1] < t1[i + 1]
        BY <4>1, <4>2, AdvanceStep
      <4> QED BY <4>3, <1>2
    <3>3. f[p] = Larger(e, f[q])
      <4>1. f[p] = Larger(Distance(p[1] * Len(t2), p[2] * Len(t1)), f[q])
        BY <1>2, <2>4, WalkValue
      <4> QED BY <4>1, <1>2, <2>2
    <3> HIDE DEF q
    <3>4. f[q] \in Nat
      <4>1. f[q] \in 0..(n1 * n2)
        BY <1>2, <3>1, WalkBounded
      <4> QED BY <4>1, <1>1
    <3>5. e \in Nat
      BY <1>1, DistanceBounds
    <3>6. CASE i = u1 /\ j = u2
      BY <3>3, <3>4, <3>5, <3>6, <1>3, <1>5 DEF Larger
    <3>7. CASE ~(i = u1 /\ j = u2)
      <4>1. i <= u1 /\ j <= u2 /\ (i < u1 \/ j < u2)
        BY <1>1, <1>6, <2>2, <3>7
      <4>2. i < n1 => t1[i + 1] \in Int /\ (t1[i + 1] <= v <=> i + 1 <= u1)
        BY <1>1, <1>2, <1>4
      <4>3. j < n2 => t2[j + 1] \in Int /\ (t2[j + 1] <= v <=> j + 1 <= u2)
        BY <1>1, <1>2, <1>4
      <4>4. q[1] <= u1 /\ q[2] <= u2
        <5>1. CASE q = <<i + 1, j + 1>> /\ i < n1 /\ j < n2 /\ t1[i + 1] = t2[j + 1]
          BY <5>1, <4>1, <4>2, <4>3, <1>1
        <5>2. CASE q = <<i + 1, j>> /\ i < n1 /\ (j = n2 \/ t1[i + 1] < t2[j + 1])
          BY <5>2, <4>1, <4>2, <4>3, <1>1
        <5>3. CASE q = <<i, j + 1>> /\ j < n2 /\ (i = n1 \/ t2[j + 1] < t1[i + 1])
          BY <5>3, <4>1, <4>2, <4>3, <1>1
        <5> QED BY <3>2, <5>1, <5>2, <5>3
      <4>5. d <= f[q]
        BY <3>1, <4>4
      <4> HIDE DEF e
      <4> QED BY <4>5, <3>3, <3>4, <3>5, <1>5 DEF Larger
    <3> QED BY <3>6, <3>7
  <2> QED BY <2>3, <2>4
<1> HIDE DEF G
<1>7. ASSUME NEW p \in Points(t1, t2),
             WalkEnds(t1, t2, p[1], p[2]) \/ Advance(t1, t2, p[1], p[2]) \in G
      PROVE  p \in G
  BY <1>6, <1>7 DEF G
<1>8. Points(t1, t2) \subseteq G
  BY <1>2, <1>7, WalkInduction
<1> QED BY <1>8 DEF G, d, u1, u2

\* A product with a number between 0 and t lies between 0 and the product with t.
LEMMA Between ==
  ASSUME NEW k \in Nat, NEW t \in Nat, k <= t, NEW c \in Int
  PROVE  \/ 0 <= k * c /\ k * c <= t * c
         \/ t * c <= k * c /\ k * c <= 0
<1>1. CASE c >= 0
  <2>1. k * c <= t * c /\ k * c \in Nat
    BY <1>1, ProductsGrow
  <2> QED BY <2>1
<1>2. CASE c < 0
  <2> DEFINE b == 0 - c
  <2>1. b \in Nat /\ c = 0 - b
    BY <1>2
  <2> HIDE DEF b
  <2>2. k * b <= t * b /\ k * b \in Nat /\ t * b \in Nat
    BY <2>1, ProductsGrow
  <2>3. k * c = 0 - k * b /\ t * c = 0 - t * b
    BY <2>1
  <2> QED BY <2>2, <2>3
<1> QED BY <1>1, <1>2

\* The distance at a point between two others is not above both of theirs.
LEMMA Convex ==
  ASSUME NEW n1 \in Nat, NEW n2 \in Nat, NEW a \in Nat, NEW b \in Nat,
         NEW k \in Nat, NEW l \in Nat, NEW x \in Nat, NEW y \in Nat, NEW m \in Nat,
         Distance(a * n2, b * n1) <= m, Distance((a + x) * n2, (b + y) * n1) <= m,
         k <= x, l <= y, x = 0 \/ y = 0 \/ (x = y /\ k = l)
  PROVE  Distance((a + k) * n2, (b + l) * n1) <= m
<1>1. /\ a * n2 \in Nat /\ b * n1 \in Nat
      /\ (a + x) * n2 \in Nat /\ (b + y) * n1 \in Nat
      /\ (a + k) * n2 \in Nat /\ (b + l) * n1 \in Nat
      /\ x * n2 \in Nat /\ y * n1 \in Nat /\ k * n2 \in Nat /\ l * n1 \in Nat
  OBVIOUS
<1>2. /\ (a + x) * n2 = a * n2 + x * n2 /\ (b + y) * n1 = b * n1 + y * n1
      /\ (a + k) * n2 = a * n2 + k * n2 /\ (b + l) * n1 = b * n1 + l * n1
  OBVIOUS
<1>3. k * n2 <= x * n2 /\ l * n1 <= y * n1
  BY ProductsGrow
<1>4. CASE x = 0
  <2>1. k * n2 = 0 /\ x * n2 = 0
    BY <1>4
  <2> QED BY <2>1, <1>1, <1>2, <1>3 DEF Distance
<1>5. CASE y = 0
  <2>1. l * n1 = 0 /\ y * n1 = 0
    BY <1>5
  <2> QED BY <2>1, <1>1, <1>2, <1>3 DEF Distance
<1>6. CASE x = y /\ k = l
  <2> DEFINE c == n2 - n1
  <2>1. k * n2 - k * n1 = k * c /\ x * n2 - x * n1 = x * c /\ c \in Int
    OBVIOUS
  <2> HIDE DEF c
  <2>2. k * c \in Int /\ x * c \in Int
    BY <2>1
  <2>3. \/ 0 <= k * c /\ k * c <= x * c
        \/ x * c <= k * c /\ k * c <= 0
    BY <2>1, Between
  <2> DEFINE A == a * n2
             B == b * n1
  <2>4. A \in Nat /\ B \in Nat
    BY <1>1
  <2>5. /\ Distance(A, B) <= m
        /\ (a + x) * n2 - (b + y) * n1 = (A - B) + x * c
        /\ (a + k) * n2 - (b + l) * n1 = (A - B) + k * c
    BY <1>1, <1>2, <1>6, <2>1
  <2> HIDE DEF A, B
  <2> QED BY <1>1, <2>2, <2>3, <2>4, <2>5 DEF Distance
<1> QED BY <1>4, <1>5, <1>6

-----------------------------------------------------------------------------
(***************************************************************************)
(* The walk over samples that repeat each shared value equally often.      *)
(***************************************************************************)
\* <<i, j>> lies in the run of v: nothing above v is passed, everything below is,
\* and of the elements equal to v as many in the one sample as in the other, unless
\* one of them has none.
InRun(s1, s2, i, j, v) ==
    /\ Below(s1, v) <= i /\ i <= UpTo(s1, v)
    /\ Below(s2, v) <= j /\ j <= UpTo(s2, v)
    /\ Times(s1, v) = 0 \/ Times(s2, v) = 0 \/ i - Below(s1, v) = j - Below(s2, v)

EvenTies(s1, s2) ==
    \A v \in Int : Times(s1, v) = 0 \/ Times(s2, v) = 0 \/ Times(s1, v) = Times(s2, v)

LEMMA NoUnevenTies ==
  ASSUME NEW s1 \in Seq(Int), NEW s2 \in Seq(Int), UnevenTies(s1, s2) = {}
  PROVE  EvenTies(s1, s2)
<1>1. ASSUME NEW s \in Seq(Int), NEW v \in Int, v \notin ToSet(s) PROVE Times(s, v) = 0
  <2>1. {i \in DOMAIN s : s[i] = v} = {}
    BY <1>1 DEF ToSet
  <2> QED BY <2>1, FS_EmptySet DEF Times
<1>2. ASSUME NEW v \in Int, v \in ToSet(s1), v \in ToSet(s2)
      PROVE  Times(s1, v) = Times(s2, v)
  BY <1>2 DEF UnevenTies
<1> QED BY <1>1, <1>2 DEF EvenTies

LEMMA InRunTurned ==
  ASSUME NEW s1 \in Seq(Int), NEW s2 \in Seq(Int), NEW i \in Nat, NEW j \in Nat,
         NEW v \in Int, InRun(s2, s1, j, i, v)
  PROVE  InRun(s1, s2, i, j, v)
BY DEF InRun

\* No distance within a run is above the sup-norm distance.
LEMMA RunDistance ==
  ASSUME NEW s1 \in Seq(Int), NEW s2 \in Seq(Int), s1 # <<>>, EvenTies(s1, s2),
         NEW i \in Nat, NEW j \in Nat, NEW v \in Int, InRun(s1, s2, i, j, v)
  PROVE  Distance(i * Len(s2), j * Len(s1)) <= SupNorm(s1, s2)
<1> DEFINE n1 == Len(s1)
           n2 == Len(s2)
           a  == Below(s1, v)
           b  == Below(s2, v)
           x  == Times(s1, v)
           y  == Times(s2, v)
           m  == SupNorm(s1, s2)
<1>1. n1 \in Nat /\ n2 \in Nat
  OBVIOUS
<1>2. a \in 0..n1 /\ b \in 0..n2 /\ x \in Nat /\ y \in Nat
  BY Counts
<1>3. /\ a = UpTo(s1, v - 1) /\ b = UpTo(s2, v - 1)
      /\ UpTo(s1, v) = a + x /\ UpTo(s2, v) = b + y
  BY Counts
<1>4. m \in Nat /\ Gap(s1, s2, v - 1) <= m /\ Gap(s1, s2, v) <= m
  <2>1. v - 1 \in Int
    OBVIOUS
  <2> QED BY <2>1, SupNormIsGreatest
<1>5. Distance(a * n2, b * n1) <= m /\ Distance((a + x) * n2, (b + y) * n1) <= m
  BY <1>3, <1>4 DEF Gap
<1>6. /\ a <= i /\ i <= a + x /\ b <= j /\ j <= b + y
      /\ x = 0 \/ y = 0 \/ i - a = j - b
  BY <1>3 DEF InRun
<1>7. x = 0 \/ y = 0 \/ x = y
  BY DEF EvenTies
<1> HIDE DEF n1, n2, a, b, x, y, m
<1> DEFINE k == i - a
           l == j - b
<1>8. a \in Nat /\ b \in Nat /\ k \in Nat /\ l \in Nat /\ i = a + k /\ j = b + l
  BY <1>1, <1>2, <1>6
<1>9. k <= x /\ l <= y /\ (x = 0 \/ y = 0 \/ (x = y /\ k = l))
  BY <1>2, <1>6, <1>7, <1>8
<1> HIDE DEF k, l
<1>10. Distance((a + k) * n2, (b + l) * n1) <= m
  BY <1>1, <1>2, <1>4, <1>5, <1>8, <1>9, Convex
<1> QED BY <1>8, <1>10 DEF n1, n2, m

\* Where a run of w is when the walk passes the value v of position i + 1.
LEMMA Passing ==
  ASSUME NEW s \in Seq(Int), NEW t, Ranks(t, s), NEW i \in Nat, i < Len(s),
         NEW w \in Int, Below(s, w) <= i, i <= UpTo(s, w)
  PROVE  /\ t[i + 1] \in Int /\ w <= t[i + 1]
         /\ Below(s, t[i + 1]) <= i /\ i + 1 <= UpTo(s, t[i + 1])
         /\ w # t[i + 1] => i = Below(s, t[i + 1]) /\ w <= t[i + 1] - 1
<1>1. Len(s) \in Nat /\ i + 1 \in 1..Len(s)
  OBVIOUS
<1>2. t[i + 1] \in Int /\ \A u \in Int : t[i + 1] <= u <=> i + 1 <= UpTo(s, u)
  BY <1>1 DEF Ranks
<1> DEFINE v == t[i + 1]
<1>3. v \in Int /\ v - 1 \in Int /\ w - 1 \in Int
  BY <1>2
<1>4. /\ i + 1 <= UpTo(s, v)
      /\ ~(i + 1 <= UpTo(s, v - 1))
  BY <1>2, <1>3
<1> HIDE DEF v
<1>5. Below(s, v) = UpTo(s, v - 1) /\ Below(s, w) = UpTo(s, w - 1)
  BY <1>3, Counts
<1>6. /\ UpTo(s, v) \in 0..Len(s) /\ UpTo(s, v - 1) \in 0..Len(s)
      /\ UpTo(s, w) \in 0..Len(s) /\ UpTo(s, w - 1) \in 0..Len(s)
  BY <1>3, Counts
<1>7. UpTo(s, v - 1) <= i
  BY <1>1, <1>4, <1>6
<1>8. w <= v
  <2>1. ASSUME v <= w - 1 PROVE FALSE
    <3>1. UpTo(s, v) <= UpTo(s, w - 1)
      BY <2>1, <1>3, Ordered
    <3> QED BY <3>1, <1>1, <1>4, <1>5, <1>6
  <2> QED BY <2>1, <1>3
<1>9. ASSUME w # v PROVE i = UpTo(s, v - 1) /\ w <= v - 1
  <2>1. w <= v - 1
    BY <1>3, <1>8, <1>9
  <2>2. UpTo(s, w) <= UpTo(s, v - 1)
    BY <2>1, <1>3, Ordered
  <2> QED BY <2>1, <2>2, <1>1, <1>6, <1>7
<1>10. /\ v \in Int /\ w <= v /\ Below(s, v) <= i /\ i + 1 <= UpTo(s, v)
       /\ w # v => i = Below(s, v) /\ w <= v - 1
  BY <1>3, <1>4, <1>5, <1>7, <1>8, <1>9
<1> QED BY <1>10 DEF v

\* A run is left for the run of the smaller head, which is passed alone ...
LEMMA PassOne ==
  ASSUME NEW s1 \in Seq(Int), NEW s2 \in Seq(Int), NEW t1, NEW t2,
         Ranks(t1, s1), Ranks(t2, s2), EvenTies(s1, s2),
         NEW i \in Nat, NEW j \in Nat, i < Len(s1), j <= Len(s2),
         NEW w \in Int, InRun(s1, s2, i, j, w),
         j = Len(s2) \/ t1[i + 1] < t2[j + 1]
  PROVE  \E v \in Int : InRun(s1, s2, i + 1, j, v)
<1> DEFINE v == t1[i + 1]
<1>1. /\ Below(s1, w) <= i /\ i <= UpTo(s1, w)
      /\ Below(s2, w) <= j /\ j <= UpTo(s2, w)
      /\ Times(s1, w) = 0 \/ Times(s2, w) = 0 \/ i - Below(s1, w) = j - Below(s2, w)
  BY DEF InRun
<1>2. /\ v \in Int /\ w <= v /\ Below(s1, v) <= i /\ i + 1 <= UpTo(s1, v)
      /\ w # v => i = Below(s1, v) /\ w <= v - 1
  BY <1>1, Passing
<1>3. Len(s1) \in Nat /\ Len(s2) \in Nat
  OBVIOUS
<1>4. UpTo(s2, v) <= j
  <2>1. UpTo(s2, v) \in 0..Len(s2)
    BY <1>2, Counts
  <2>2. CASE j = Len(s2)
    BY <2>1, <2>2, <1>3
  <2>3. CASE j < Len(s2)
    <3>1. j + 1 \in 1..Len(s2)
      BY <2>3, <1>3
    <3>2. t2[j + 1] <= v <=> j + 1 <= UpTo(s2, v)
      BY <3>1, <1>2 DEF Ranks
    <3>3. t2[j + 1] \in Int
      BY <3>1 DEF Ranks
    <3>4. ~(t2[j + 1] <= v)
      BY <3>3, <1>2, <1>3, <2>3
    <3> QED BY <2>1, <3>2, <3>4, <1>3
  <2> QED BY <2>2, <2>3, <1>3
<1> HIDE DEF v
<1>5. /\ UpTo(s2, v) = Below(s2, v) + Times(s2, v) /\ Times(s2, v) \in Nat
      /\ UpTo(s1, v) = Below(s1, v) + Times(s1, v) /\ Times(s1, v) \in Nat
      /\ Below(s2, v) = UpTo(s2, v - 1)
  BY <1>2, Counts
<1>6. /\ UpTo(s2, v) \in 0..Len(s2) /\ Below(s2, v) \in 0..Len(s2)
      /\ UpTo(s1, v) \in 0..Len(s1) /\ Below(s1, v) \in 0..Len(s1)
  BY <1>2, Counts
<1>7. j = UpTo(s2, v) /\ Times(s2, v) = 0
  <2>1. CASE w = v
    <3>1. j = UpTo(s2, v)
      BY <1>1, <1>3, <1>4, <1>6, <2>1
    <3>2. Times(s1, v) # 0
      BY <1>2, <1>3, <1>5, <1>6
    <3>3. Times(s1, v) = 0 \/ Times(s2, v) = 0 \/ Times(s1, v) = Times(s2, v)
      BY <1>2 DEF EvenTies
    <3>4. Times(s2, v) = 0 \/ i - Below(s1, v) = j - Below(s2, v)
      BY <1>1, <2>1, <3>2
    <3>5. ASSUME Times(s2, v) # 0 PROVE FALSE
      <4>1. i - Below(s1, v) = Times(s1, v)
        BY <3>1, <3>2, <3>3, <3>4, <3>5, <1>3, <1>5, <1>6
      <4> QED BY <4>1, <1>2, <1>3, <1>5, <1>6
    <3> QED BY <3>1, <3>5
  <2>2. CASE w # v
    <3>1. w <= v - 1 /\ v - 1 \in Int
      BY <1>2, <2>2
    <3>2. UpTo(s2, w) <= UpTo(s2, v - 1)
      BY <3>1, Ordered
    <3>3. UpTo(s2, w) \in 0..Len(s2)
      BY Counts
    <3> QED BY <3>2, <3>3, <1>1, <1>3, <1>4, <1>5, <1>6
  <2> QED BY <2>1, <2>2
<1>8. /\ Below(s1, v) <= i + 1 /\ i + 1 <= UpTo(s1, v)
      /\ Below(s2, v) <= j /\ j <= UpTo(s2, v) /\ Times(s2, v) = 0
  <2>1. Below(s1, v) \in Nat /\ Below(s2, v) \in Nat
    BY <1>3, <1>6
  <2>2. Below(s1, v) <= i + 1
    BY <2>1, <1>2
  <2>3. UpTo(s2, v) = Below(s2, v)
    BY <2>1, <1>5, <1>7
  <2>4. Below(s2, v) <= j /\ j <= UpTo(s2, v)
    BY <2>1, <2>3, <1>7
  <2> QED BY <2>2, <2>4, <1>2, <1>7
<1>9. InRun(s1, s2, i + 1, j, v)
  BY <1>8 DEF InRun
<1> QED BY <1>2, <1>9

\* ... or for the run of two equal heads, which are passed together.
LEMMA PassBoth ==
  ASSUME NEW s1 \in Seq(Int), NEW s2 \in Seq(Int), NEW t1, NEW t2,
         Ranks(t1, s1), Ranks(t2, s2),
         NEW i \in Nat, NEW j \in Nat, i < Len(s1), j < Len(s2),
         NEW w \in Int, InRun(s1, s2, i, j, w), t1[i + 1] = t2[j + 1]
  PROVE  \E v \in Int : InRun(s1, s2, i + 1, j + 1, v)
<1> DEFINE v == t1[i + 1]
<1>1. /\ Below(s1, w) <= i /\ i <= UpTo(s1, w)
      /\ Below(s2, w) <= j /\ j <= UpTo(s2, w)
      /\ Times(s1, w) = 0 \/ Times(s2, w) = 0 \/ i - Below(s1, w) = j - Below(s2, w)
  BY DEF InRun
<1>2. /\ v \in Int /\ Below(s1, v) <= i /\ i + 1 <= UpTo(s1, v)
      /\ w # v => i = Below(s1, v)
  BY <1>1, Passing
<1>3. /\ Below(s2, t2[j + 1]) <= j /\ j + 1 <= UpTo(s2, t2[j + 1])
      /\ w # t2[j + 1] => j = Below(s2, t2[j + 1])
  BY <1>1, Passing
<1>4. /\ Below(s2, v) <= j /\ j + 1 <= UpTo(s2, v)
      /\ w # v => j = Below(s2, v)
  BY <1>3
<1> HIDE DEF v
<1>5. Below(s1, v) \in 0..Len(s1) /\ Below(s2, v) \in 0..Len(s2)
  BY <1>2, Counts
<1>6. Len(s1) \in Nat /\ Len(s2) \in Nat
  OBVIOUS
<1>7. Times(s1, v) = 0 \/ Times(s2, v) = 0 \/ i - Below(s1, v) = j - Below(s2, v)
  <2>1. CASE w = v
    BY <2>1, <1>1
  <2>2. CASE w # v
    BY <2>2, <1>2, <1>4, <1>5, <1>6
  <2> QED BY <2>1, <2>2
<1>8. Below(s1, v) <= i + 1 /\ Below(s2, v) <= j + 1
  BY <1>2, <1>4, <1>5, <1>6
<1>9. (i + 1) - Below(s1, v) = (i - Below(s1, v)) + 1
      /\ (j + 1) - Below(s2, v) = (j - Below(s2, v)) + 1
  <2>1. \A b \in Nat : (i + 1) - b = (i - b) + 1 /\ (j + 1) - b = (j - b) + 1
    OBVIOUS
  <2>2. Below(s1, v) \in Nat /\ Below(s2, v) \in Nat
    BY <1>5, <1>6
  <2> QED BY <2>1, <2>2
<1>10. InRun(s1, s2, i + 1, j + 1, v)
  BY <1>2, <1>4, <1>7, <1>8, <1>9 DEF InRun
<1> QED BY <1>2, <1>10

\* The walk is in a run from the start.
LEMMA StartsInRun ==
  ASSUME NEW s1 \in Seq(Int), NEW s2 \in Seq(Int), NEW t1, NEW t2,
         Ranks(t1, s1), Ranks(t2, s2), s1 # <<>>, s2 # <<>>
  PROVE  \E v \in Int : InRun(s1, s2, 0, 0, v)
<1>1. Len(s1) \in Nat /\ Len(s2) \in Nat /\ 1 \in 1..Len(s1) /\ 1 \in 1..Len(s2)
  OBVIOUS
<1>2. /\ t1[1] \in Int /\ t2[1] \in Int
      /\ \A u \in Int : t1[1] <= u <=> 1 <= UpTo(s1, u)
      /\ \A u \in Int : t2[1] <= u <=> 1 <= UpTo(s2, u)
  BY <1>1 DEF Ranks
<1>3. PICK v \in Int : v < t1[1] /\ v < t2[1]
  <2>1. CASE t1[1] <= t2[1]
    <3>1. t1[1] - 1 \in Int /\ t1[1] - 1 < t1[1] /\ t1[1] - 1 < t2[1]
      BY <1>2, <2>1
    <3> QED BY <3>1
  <2>2. CASE t2[1] <= t1[1]
    <3>1. t2[1] - 1 \in Int /\ t2[1] - 1 < t1[1] /\ t2[1] - 1 < t2[1]
      BY <1>2, <2>2
    <3> QED BY <3>1
  <2> QED BY <1>2, <2>1, <2>2
<1>4. ~(1 <= UpTo(s1, v)) /\ ~(1 <= UpTo(s2, v))
  BY <1>2, <1>3
<1>5. /\ UpTo(s1, v) \in 0..Len(s1) /\ Below(s1, v) \in 0..Len(s1)
      /\ UpTo(s2, v) \in 0..Len(s2) /\ Below(s2, v) \in 0..Len(s2)
      /\ UpTo(s1, v) = Below(s1, v) + Times(s1, v) /\ Times(s1, v) \in Nat
      /\ UpTo(s2, v) = Below(s2, v) + Times(s2, v) /\ Times(s2, v) \in Nat
  BY Counts
<1>6. UpTo(s1, v) = 0 /\ UpTo(s2, v) = 0 /\ Below(s1, v) = 0 /\ Below(s2, v) = 0
      /\ Times(s1, v) = 0
  BY <1>1, <1>4, <1>5
<1> QED BY <1>6 DEF InRun

\* A step leads from a run to a run.
LEMMA RunContinues ==
  ASSUME NEW s1 \in Seq(Int), NEW s2 \in Seq(Int), NEW t1, NEW t2,
         Ranks(t1, s1), Ranks(t2, s2), EvenTies(s1, s2),
         NEW i \in 0..Len(s1), NEW j \in 0..Len(s2), NEW w \in Int, InRun(s1, s2, i, j, w),
         ~WalkEnds(t1, t2, i, j)
  PROVE  \E k \in 0..Len(s1), l \in 0..Len(s2), v \in Int :
            Advance(t1, t2, i, j) = <<k, l>> /\ InRun(s1, s2, k, l, v)
<1>1. /\ Len(s1) \in Nat /\ Len(s2) \in Nat
      /\ t1 \in Seq(Int) /\ Len(t1) = Len(s1)
      /\ t2 \in Seq(Int) /\ Len(t2) = Len(s2)
  BY DEF Ranks
<1> DEFINE q == Advance(t1, t2, i, j)
<1>2. i \in 0..Len(t1) /\ j \in 0..Len(t2)
  BY <1>1
<1>3. \/ /\ q = <<i + 1, j + 1>> /\ i < Len(t1) /\ j < Len(t2) /\ t1[i + 1] = t2[j + 1]
      \/ /\ q = <<i + 1, j>> /\ i < Len(t1)
         /\ j = Len(t2) \/ t1[i + 1] < t2[j + 1]
      \/ /\ q = <<i, j + 1>> /\ j < Len(t2)
         /\ i = Len(t1) \/ t2[j + 1] < t1[i + 1]
  BY <1>1, <1>2, AdvanceStep
<1> HIDE DEF q
<1>4. i \in Nat /\ j \in Nat /\ i <= Len(s1) /\ j <= Len(s2)
  BY <1>1
<1>5. CASE q = <<i + 1, j + 1>> /\ i < Len(s1) /\ j < Len(s2) /\ t1[i + 1] = t2[j + 1]
  <2>1. \E v \in Int : InRun(s1, s2, i + 1, j + 1, v)
    BY <1>4, <1>5, PassBoth
  <2>2. i + 1 \in 0..Len(s1) /\ j + 1 \in 0..Len(s2)
    <3>1. i + 1 \in 0..Len(s1)
      BY <1>1, <1>4, <1>5
    <3>2. j + 1 \in 0..Len(s2)
      BY <1>1, <1>4, <1>5
    <3> QED BY <3>1, <3>2
  <2> QED BY <2>1, <2>2, <1>5 DEF q
<1>6. CASE q = <<i + 1, j>> /\ i < Len(s1) /\ (j = Len(s2) \/ t1[i + 1] < t2[j + 1])
  <2>1. \E v \in Int : InRun(s1, s2, i + 1, j, v)
    BY <1>4, <1>6, PassOne
  <2>2. i + 1 \in 0..Len(s1)
    BY <1>1, <1>6
  <2> QED BY <2>1, <2>2, <1>6 DEF q
<1>7. CASE q = <<i, j + 1>> /\ j < Len(s2) /\ (i = Len(s1) \/ t2[j + 1] < t1[i + 1])
  <2>1. EvenTies(s2, s1)
    BY DEF EvenTies
  <2>2. InRun(s2, s1, j, i, w)
    BY <1>4, InRunTurned
  <2>3. PICK v \in Int : InRun(s2, s1, j + 1, i, v)
    BY <2>1, <2>2, <1>4, <1>7, PassOne
  <2>4. InRun(s1, s2, i, j + 1, v)
    BY <2>3, <1>4, InRunTurned
  <2>5. j + 1 \in 0..Len(s2)
    BY <1>1, <1>7
  <2> QED BY <2>4, <2>5, <1>7 DEF q
<1> QED BY <1>1, <1>3, <1>5, <1>6, <1>7

\* From a run, the walk meets no distance above the sup-norm distance.
LEMMA WalkStaysLow ==
  ASSUME NEW s1 \in Seq(Int), NEW s2 \in Seq(Int), s1 # <<>>, EvenTies(s1, s2),
         NEW t1, NEW t2, Ranks(t1, s1), Ranks(t2, s2), NEW f, IsWalk(t1, t2, f)
  PROVE  \A i \in 0..Len(s1), j \in 0..Len(s2) :
            (\E v \in Int : InRun(s1, s2, i, j, v)) => f[<<i, j>>] <= SupNorm(s1, s2)
<1> DEFINE m == SupNorm(s1, s2)
           n1 == Len(s1)
           n2 == Len(s2)
           G == {p \in Points(t1, t2) :
                   (\E v \in Int : InRun(s1, s2, p[1], p[2], v)) => f[p] <= m}
<1>1. /\ n1 \in Nat /\ n2 \in Nat
      /\ t1 \in Seq(Int) /\ Len(t1) = n1
      /\ t2 \in Seq(Int) /\ Len(t2) = n2
  BY DEF Ranks
<1>2. m \in Nat
  BY SupNormIsGreatest
<1>a. ASSUME NEW p \in Points(t1, t2), ~WalkEnds(t1, t2, p[1], p[2])
      PROVE  f[p] = Larger(Distance(p[1] * Len(t2), p[2] * Len(t1)),
                           f[Advance(t1, t2, p[1], p[2])])
  BY <1>1, <1>a, WalkValue
<1>3. Points(t1, t2) = (0..n1) \X (0..n2)
  BY <1>1 DEF Points
<1> HIDE DEF m
<1>4. ASSUME NEW i \in 0..n1, NEW j \in 0..n2, NEW w \in Int, InRun(s1, s2, i, j, w),
             WalkEnds(t1, t2, i, j) \/ Advance(t1, t2, i, j) \in G
      PROVE  f[<<i, j>>] <= m
  <2>1. <<i, j>> \in Points(t1, t2) /\ <<i, j>>[1] = i /\ <<i, j>>[2] = j
    BY <1>3
  <2>2. CASE WalkEnds(t1, t2, i, j)
    <3>1. f[<<i, j>>] = 0
      BY <1>1, <2>1, <2>2, WalkValue
    <3> QED BY <3>1, <1>2
  <2>3. CASE ~WalkEnds(t1, t2, i, j)
    <3> DEFINE d == Distance(i * n2, j * n1)
    <3>1. PICK k \in 0..n1, l \in 0..n2, v \in Int :
             Advance(t1, t2, i, j) = <<k, l>> /\ InRun(s1, s2, k, l, v)
      BY <2>3, <1>4, RunContinues
    <3>2. <<k, l>> \in G /\ <<k, l>> \in Points(t1, t2)
      BY <3>1, <1>3, <1>4, <2>3
    <3>3. f[<<k, l>>] <= m
      BY <3>1, <3>2
    <3>4. f[<<i, j>>] = Larger(d, f[<<k, l>>])
      <4> DEFINE p == <<i, j>>
      <4>1. p \in Points(t1, t2) /\ p[1] = i /\ p[2] = j
        BY <2>1
      <4> HIDE DEF p
      <4>2. ~WalkEnds(t1, t2, p[1], p[2])
        BY <4>1, <2>3
      <4>3. f[p] = Larger(Distance(p[1] * Len(t2), p[2] * Len(t1)),
                          f[Advance(t1, t2, p[1], p[2])])
        BY <4>1, <4>2, <1>a
      <4>4. f[p] = Larger(d, f[<<k, l>>])
        BY <4>1, <4>3, <3>1, <1>1
      <4> QED BY <4>4 DEF p
    <3>5. i \in Nat /\ j \in Nat
      BY <1>1
    <3>6. d <= m
      BY <3>5, <1>4, RunDistance DEF m
    <3> HIDE DEF d
    <3> QED BY <3>3, <3>4, <3>6 DEF Larger
  <2> QED BY <2>2, <2>3, <1>4
<1>5. ASSUME NEW p \in Points(t1, t2),
             WalkEnds(t1, t2, p[1], p[2]) \/ Advance(t1, t2, p[1], p[2]) \in G
      PROVE  p \in G
  <2>1. PICK i \in 0..n1, j \in 0..n2 : p = <<i, j>>
    BY <1>3
  <2>2. p[1] = i /\ p[2] = j
    BY <2>1
  <2> HIDE DEF G
  <2>3. (\E v \in Int : InRun(s1, s2, p[1], p[2], v)) => f[p] <= m
    BY <1>4, <1>5, <2>1, <2>2
  <2> USE DEF G
  <2> QED BY <2>3
<1> HIDE DEF G
<1>6. Points(t1, t2) \subseteq G
  BY <1>1, <1>5, WalkInduction
<1>7. ASSUME NEW i \in 0..n1, NEW j \in 0..n2, NEW v \in Int, InRun(s1, s2, i, j, v)
      PROVE  f[<<i, j>>] <= m
  <2>1. <<i, j>> \in G /\ <<i, j>>[1] = i /\ <<i, j>>[2] = j
    BY <1>3, <1>6
  <2> QED BY <2>1, <1>7 DEF G
<1> QED BY <1>7 DEF m

-----------------------------------------------------------------------------
\* The statistic of two samples is what the walk over them, sorted, gives its start.
LEMMA StatisticIsWalk ==
  ASSUME NEW s1 \in Seq(Int), NEW s2 \in Seq(Int)
  PROVE  \E f : IsWalk(Sorted(s1), Sorted(s2), f) /\ ks_statistic(s1, s2) = f[<<0, 0>>]
<1> DEFINE t1 == Sorted(s1)
           t2 == Sorted(s2)
           max_diff == CHOOSE f : IsWalk(t1, t2, f)
<1>1. t1 \in Seq(Int) /\ t2 \in Seq(Int)
  BY SortedRanks DEF Ranks
<1> HIDE DEF t1, t2
<1>2. IsWalk(t1, t2, max_diff)
  BY <1>1, WalkExists
<1>3. ks_statistic(s1, s2) = max_diff[<<0, 0>>]
  BY DEF ks_statistic, IsWalk, Score, Points, t1, t2
<1> HIDE DEF max_diff
<1> QED BY <1>2, <1>3 DEF t1, t2

\* The statistic is between the sup-norm distance and 1, and it is that distance if
\* the samples repeat each shared value equally often.
LEMMA StatisticBounds ==
  ASSUME NEW s1 \in Seq(Int), NEW s2 \in Seq(Int), s1 # <<>>, s2 # <<>>
  PROVE  /\ ks_statistic(s1, s2) \in SupNorm(s1, s2)..(Len(s1) * Len(s2))
         /\ UnevenTies(s1, s2) = {} => ks_statistic(s1, s2) = SupNorm(s1, s2)
<1> DEFINE t1 == Sorted(s1)
           t2 == Sorted(s2)
           ks == ks_statistic(s1, s2)
<1>1. Ranks(t1, s1) /\ Ranks(t2, s2)
  BY SortedRanks
<1>2. PICK f : IsWalk(t1, t2, f) /\ ks = f[<<0, 0>>]
  BY StatisticIsWalk
<1> HIDE DEF t1, t2, ks
<1>3. /\ t1 \in Seq(Int) /\ t2 \in Seq(Int)
      /\ Len(t1) = Len(s1) /\ Len(t2) = Len(s2) /\ Len(s1) \in Nat /\ Len(s2) \in Nat
  BY <1>1 DEF Ranks
<1>4. <<0, 0>> \in Points(t1, t2) /\ 0 \in 0..Len(s1) /\ 0 \in 0..Len(s2)
      /\ <<0, 0>>[1] = 0 /\ <<0, 0>>[2] = 0
  BY <1>3 DEF Points
<1>5. ks \in 0..(Len(s1) * Len(s2))
  <2>1. f[<<0, 0>>] \in 0..(Len(t1) * Len(t2))
    BY <1>2, <1>3, <1>4, WalkBounded
  <2> QED BY <2>1, <1>2, <1>3
<1>6. PICK v \in Int : SupNorm(s1, s2) = Gap(s1, s2, v)
  BY SupNormIsGreatest
<1>7. SupNorm(s1, s2) <= ks
  <2>1. UpTo(s1, v) \in 0..Len(s1) /\ UpTo(s2, v) \in 0..Len(s2)
    BY Counts
  <2>2. 0 <= UpTo(s1, v) /\ 0 <= UpTo(s2, v)
    BY <2>1, <1>3
  <2>3. Gap(s1, s2, v) <= f[<<0, 0>>]
    BY <2>2, <1>1, <1>2, <1>4, WalkMeets
  <2> QED BY <2>3, <1>2, <1>6
<1>8. SupNorm(s1, s2) \in Nat /\ Len(s1) * Len(s2) \in Nat
  BY <1>3, SupNormIsGreatest
<1>9. ASSUME UnevenTies(s1, s2) = {} PROVE ks <= SupNorm(s1, s2)
  <2>1. EvenTies(s1, s2)
    BY <1>9, NoUnevenTies
  <2>2. \E x \in Int : InRun(s1, s2, 0, 0, x)
    BY <1>1, StartsInRun
  <2>3. f[<<0, 0>>] <= SupNorm(s1, s2)
    BY <2>1, <2>2, <1>1, <1>2, <1>4, WalkStaysLow
  <2> QED BY <2>3, <1>2
<1>10. ks \in SupNorm(s1, s2)..(Len(s1) * Len(s2))
  BY <1>5, <1>7, <1>8
<1>11. UnevenTies(s1, s2) = {} => ks = SupNorm(s1, s2)
  BY <1>5, <1>7, <1>8, <1>9
<1> QED BY <1>10, <1>11 DEF ks

\* No pair of samples has a statistic that is out of bounds.
LEMMA NoneMisstated ==
  Understated = {} /\ Overstated = {}
<1>1. ASSUME NEW s1 \in Samples, NEW s2 \in Samples
      PROVE  /\ ks_statistic(s1, s2) \in SupNorm(s1, s2)..(Len(s1) * Len(s2))
             /\ UnevenTies(s1, s2) = {} => ks_statistic(s1, s2) = SupNorm(s1, s2)
  <2>1. s1 \in Seq(Int) /\ s2 \in Seq(Int) /\ s1 # <<>> /\ s2 # <<>>
    BY SamplesAssumption
  <2> QED BY <2>1, StatisticBounds
<1>2. ASSUME NEW p \in Pairs PROVE p \notin Understated /\ p \notin Overstated
  <2>1. PICK s1, s2 \in Samples : p = <<s1, s2>>
    BY DEF Pairs
  <2>2. p[1] = s1 /\ p[2] = s2
    BY <2>1
  <2> QED BY <2>2, <1>1 DEF Understated, Overstated
<1>3. Understated \subseteq Pairs /\ Overstated \subseteq Pairs
  BY DEF Understated, Overstated
<1> QED BY <1>2, <1>3

-----------------------------------------------------------------------------
\* The scores kept are the end of every history, and a search leaves out only what
\* it could not load and what the limit hides.
THEOREM Invariance == Spec => []IInv
<1>1. Init => IInv
  BY InitIInv
<1>2. IInv /\ [Next]_vars => IInv'
  BY StepIInv
<1> QED BY <1>1, <1>2, PTL DEF Spec

\* compute_compensation_status, which remembers kept_scores scores only, returns
\* what the whole drift history of the model gives, for every pair of windows that
\* fit into what is kept and after any number of updates.
THEOREM StatusFromHistory == Spec => []StatusFromWholeHistory
<1>1. IInv => StatusFromWholeHistory
  <2> SUFFICES ASSUME IInv, NEW m \in Models, drift[m] # <<>>
               PROVE  /\ status[m] = "converged" <=> AllOf("low", drift[m], convergence_window)
                      /\ status[m] = "diverging" => AllOf("high", drift[m], divergence_window)
                      /\ AllOf("high", drift[m], divergence_window) =>
                            status[m] \in {"diverging", "timeout_degraded"}
    BY DEF StatusFromWholeHistory
  <2>1. drift[m] \in Seq(Classes) /\ recent_drift_scores[m] = KeepLast(drift[m])
    BY DEF IInv, Types, StatusInv
  <2>2. PICK d \in Deadlines : status[m] = StatusOf(recent_drift_scores[m], d)
    BY DEF IInv, StatusInv
  <2>3. /\ AllOf("low", recent_drift_scores[m], convergence_window)
              <=> AllOf("low", drift[m], convergence_window)
        /\ AllOf("high", recent_drift_scores[m], divergence_window)
              <=> AllOf("high", drift[m], divergence_window)
    BY <2>1, WindowOfKept, WindowsAssumption
  <2>4. ~(/\ AllOf("low", drift[m], convergence_window)
          /\ AllOf("high", drift[m], divergence_window))
    BY <2>1, LastInWindow, WindowsAssumption
  <2> QED BY <2>2, <2>3, <2>4 DEF StatusOf
<1> QED BY <1>1, Invariance, PTL

\* A degraded answer of query_as_of is the newest version that still has its
\* checkpoint, those aside whose files this search failed to read, whatever files
\* vanish while it runs and whatever versions the limit hid.
THEOREM Degrades == Spec => []DegradesToNewest
<1>1. IInv => DegradesToNewest
  BY DEF IInv
<1> QED BY <1>1, Invariance, PTL

\* query_as_of finds nothing only when every version of the model that has its
\* checkpoint is behind limit others or could not be read.
THEOREM NotFound == Spec => []NotFoundMeansNone
<1>1. IInv => NotFoundMeansNone
  BY DEF IInv
<1> QED BY <1>1, Invariance, PTL

\* No score understates a drift: for every two samples of any length the statistic is
\* at least the sup-norm distance of their distribution functions, and at most 1.
THEOREM NeverUnderstated == Spec => []ScoresNeverUnderstate
<1>1. ScoresNeverUnderstate
  BY NoneMisstated DEF ScoresNeverUnderstate
<1> QED BY <1>1, PTL

\* The statistic of samples that repeat every shared value equally often is their
\* sup-norm distance.
THEOREM TieFreeExact == Spec => []TieFreeScoresExact
<1>1. TieFreeScoresExact
  BY NoneMisstated DEF TieFreeScoresExact
<1> QED BY <1>1, PTL
=============================================================================
