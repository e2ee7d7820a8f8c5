----------------------------- MODULE TimeTravel -----------------------------
(***************************************************************************)
(* TimeTravelEngine (storage/timetravel/time_travel_engine.cpp) over the   *)
(* chain and the checkpoints that update_model leaves.  query_as_of loads  *)
(* the version asked for or, failing that, tries the listed versions from  *)
(* the newest on.  Any error of load_model counts as a version that was    *)
(* compacted: a file that is gone, and one that is there but cannot be     *)
(* opened or read.  The caller makes one call at a time; another program   *)
(* may remove checkpoint files between any two loads of a query.           *)
(***************************************************************************)
EXTENDS Alignment

CONSTANTS
    limit,          \* list_versions' default limit, 100 in the code
    NoQuery         \* no query is running

ASSUME LimitAssumption == limit \in Nat \ {0}

VARIABLES
    query,      \* the running search; unread is history: versions whose file was
                \* there when their load failed
    answer      \* what the last call returned, and its unread

ttVars == <<query, answer>>
vars   == <<versions, alignVars, ttVars>>

NoAnswer ==
    [model |-> NoQuery, version |-> 0, was_degraded |-> FALSE, found |-> FALSE, unread |-> {}]

Init ==
    /\ AlignInit
    /\ query = NoQuery
    /\ answer = NoAnswer

-----------------------------------------------------------------------------
\* load_model(m, v) may succeed: models/<m>/<v>.parquet exists.  It may fail in any
\* case, since opening and reading an existing file may fail.
Loadable(m, v) == versions[v].model_name = m /\ checkpoints[v] # "none"

Answer(m, v, degraded, unread) ==
    /\ query' = NoQuery
    /\ answer' = [model |-> m, version |-> v, was_degraded |-> degraded, found |-> TRUE,
                  unread |-> unread]

ExactHit(m, v) ==
    /\ query = NoQuery
    /\ Loadable(m, v)
    /\ Answer(m, v, FALSE, {})
    /\ UNCHANGED <<versions, alignVars>>

\* The version asked for is not in the chain or its load fails: list what may stand
\* in for it.
StartSearch(m) ==
    /\ query = NoQuery
    /\ \E listed \in SUBSET Of(m) :
          /\ IsListing(listed, m, limit)
          /\ query' = [model |-> m, untried |-> listed, unread |-> {}]
    /\ answer' = NoAnswer
    /\ UNCHANGED <<versions, alignVars>>

TryOldestFirst(v) ==   \* variant: the list is walked from its end
    \A w \in query.untried : versions[w].created_at >= versions[v].created_at

NextToTry(v) == \A w \in query.untried : versions[w].created_at <= versions[v].created_at

TryLoads(v) ==
    /\ query # NoQuery
    /\ v \in query.untried /\ NextToTry(v)
    /\ Loadable(query.model, v)
    /\ Answer(query.model, v, TRUE, query.unread)
    /\ UNCHANGED <<versions, alignVars>>

TryFails(v) ==
    /\ query # NoQuery
    /\ v \in query.untried /\ NextToTry(v)
    /\ query' = [query EXCEPT
          !.untried = @ \ {v},
          !.unread  = IF Loadable(query.model, v) THEN @ \union {v} ELSE @]
    /\ UNCHANGED <<versions, alignVars, answer>>

SearchEndsEarly ==   \* variant: the last version of the list is not tried
    /\ query # NoQuery
    /\ Cardinality(query.untried) <= 1
    /\ query' = NoQuery
    /\ answer' = [NoAnswer EXCEPT !.model = query.model, !.unread = query.unread]
    /\ UNCHANGED <<versions, alignVars>>

SearchEnds ==
    /\ query # NoQuery
    /\ query.untried = {}
    /\ query' = NoQuery
    /\ answer' = [NoAnswer EXCEPT !.model = query.model, !.unread = query.unread]
    /\ UNCHANGED <<versions, alignVars>>

ExternalDelete(v) ==
    /\ checkpoints[v] # "none"
    /\ checkpoints' = [checkpoints EXCEPT ![v] = "none"]
    /\ UNCHANGED <<versions, recent_drift_scores, deadlines, status, drift, query, answer>>

\* The next update makes the last answer a matter of the past.
Update(m, current, measured, saved) ==
    /\ query = NoQuery
    /\ update_model(m, current, measured, saved)
    /\ answer' = NoAnswer
    /\ UNCHANGED query

Step ==
    \/ \E m \in Models : StartSearch(m) \/ \E v \in Ids : ExactHit(m, v)
    \/ \E v \in Ids : TryLoads(v) \/ TryFails(v)
    \/ SearchEnds

\* Callers hang a new version on the last one or on none.
Next ==
    \/ Step
    \/ \E m \in Models, current \in {NoParent, Len(versions)},
          measured \in BOOLEAN, saved \in SaveOutcomes : Update(m, current, measured, saved)
    \/ \E v \in Ids : ExternalDelete(v)
    \/ \E m \in Models : /\ \/ \E d \in {"ahead", "past"} : set_compensation_deadline(m, d)
                           \/ DeadlinePasses(m)
                        /\ UNCHANGED ttVars

Spec == Init /\ [][Next]_vars

-----------------------------------------------------------------------------
TypeOK ==
    /\ AlignTypeOK
    /\ query # NoQuery =>
          /\ query.model \in Models
          /\ query.untried \subseteq Of(query.model)
          /\ query.unread \subseteq Of(query.model) \ query.untried
    /\ answer.version \in 0..MaxVersions
    /\ answer.found => answer.model \in Models

\* A degraded answer is the most recent version available: one that is newer has no
\* checkpoint when the answer is given, whatever was removed while the search ran,
\* or this search tried to read its file and failed.
DegradesToNewest ==
    answer.found =>
        /\ versions[answer.version].model_name = answer.model
        /\ answer.was_degraded =>
              \A v \in Of(answer.model) :
                  versions[v].created_at > versions[answer.version].created_at =>
                      checkpoints[v] = "none" \/ v \in answer.unread

\* "no available version found" is said only when every version of the model that
\* has its checkpoint was tried in vain, its file being there, or is older than
\* limit others: a version that could be loaded is missed only behind the limit of
\* list_versions, whatever the clock did.
NotFoundMeansNone ==
    ~answer.found /\ answer.model # NoQuery =>
        \A v \in Of(answer.model) \ answer.unread : checkpoints[v] # "none" =>
            Cardinality({w \in Of(answer.model) \ {v} :
                           versions[w].created_at >= versions[v].created_at}) >= limit
=============================================================================
