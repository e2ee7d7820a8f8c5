----------------------------- MODULE Alignment -----------------------------
(***************************************************************************)
(* ContinuousAlignmentEngine (engine/alignment/continuous_alignment_       *)
(* engine.cpp): update_model creates a version in the chain, saves its     *)
(* checkpoint and derives the compensation status of the model.            *)
(*                                                                         *)
(* A drift score is one of three classes: "low" below the convergence      *)
(* threshold, "high" above the divergence threshold, "mid" otherwise.      *)
(***************************************************************************)
EXTENDS VersionChain, DriftDetector

CONSTANTS
    SaveOutcomes,           \* what save_checkpoint may leave behind
    convergence_window, divergence_window,
    kept_scores             \* how many scores are remembered

ASSUME WindowsAssumption ==
    /\ SaveOutcomes \subseteq {"none", "partial", "complete"}
    /\ {convergence_window, divergence_window} \subseteq 1..kept_scores
    /\ kept_scores \in Nat

VARIABLES
    checkpoints,    \* per version: no file under its model, a partial or a complete one
    recent_drift_scores,
    deadlines,      \* per model: "none", or "ahead" of now, or "past"
    status,         \* the status the last update_model of a model returned
    drift           \* history: all the scores of a model

alignVars == <<checkpoints, recent_drift_scores, deadlines, status, drift>>

Statuses == {"none", "converging", "converged", "diverging", "timeout_degraded"}

AlignTypeOK ==
    /\ Len(versions) <= MaxVersions
    /\ DOMAIN checkpoints = Ids /\ ToSet(checkpoints) \subseteq SaveOutcomes
    /\ \A m \in Models : /\ Len(recent_drift_scores[m]) <= kept_scores
                         /\ ToSet(recent_drift_scores[m]) \subseteq {"low", "mid", "high"}
    /\ deadlines \in [Models -> {"none", "ahead", "past"}]
    /\ status \in [Models -> Statuses]

AlignInit ==
    /\ versions = <<>>
    /\ checkpoints = <<>>
    /\ recent_drift_scores = [m \in Models |-> <<>>]
    /\ deadlines = [m \in Models |-> "none"]
    /\ status = [m \in Models |-> "none"]
    /\ drift = [m \in Models |-> <<>>]

-----------------------------------------------------------------------------
LastN(s, n) == SubSeq(s, Len(s) - n + 1, Len(s))

KeepsTooFew(s) == IF Len(s) >= divergence_window   \* variant
                  THEN LastN(s, divergence_window - 1) ELSE s

KeepLast(s) == IF Len(s) > kept_scores THEN LastN(s, kept_scores) ELSE s

AllOf(class, s, window) == Len(s) >= window /\ ToSet(LastN(s, window)) = {class}

StatusOf(s, deadline) ==
    IF AllOf("low", s, convergence_window) THEN "converged"
    ELSE IF deadline = "past" THEN "timeout_degraded"
    ELSE IF AllOf("high", s, divergence_window) THEN "diverging"
    ELSE "converging"

compute_compensation_status(m, score) ==
    LET scores == KeepLast(Append(recent_drift_scores[m], score))
    IN /\ recent_drift_scores' = [recent_drift_scores EXCEPT ![m] = scores]
       /\ status' = [status EXCEPT ![m] = StatusOf(scores, deadlines[m])]

\* convergence_threshold_ is 0.1 and divergence_threshold_ 0.5.
ScoreClass(current, new) ==
    LET score == ks_statistic(current, new)
        unit  == Len(current) * Len(new)
    IN IF 10 * score < unit THEN "low" ELSE IF 2 * score > unit THEN "high" ELSE "mid"

DriftScores == {ScoreClass(current, new) : current, new \in Samples}

\* Without a drift check, or without current data, the score is 0.0.
DriftScore(measured) == IF measured THEN DriftScores ELSE {"low"}

\* A failing save_checkpoint, which leaves no file or a partial one, does not fail
\* the update.
update_model(m, current, measured, saved) ==
    /\ create_version(m, current, 0, 0)
    /\ checkpoints' = Append(checkpoints, saved)
    /\ \E score \in DriftScore(measured) :
          /\ compute_compensation_status(m, score)
          /\ drift' = [drift EXCEPT ![m] = Append(@, score)]
    /\ UNCHANGED deadlines

set_compensation_deadline(m, d) ==
    /\ deadlines' = [deadlines EXCEPT ![m] = d]
    /\ UNCHANGED <<versions, checkpoints, recent_drift_scores, status, drift>>

DeadlinePasses(m) ==
    /\ deadlines[m] = "ahead"
    /\ deadlines' = [deadlines EXCEPT ![m] = "past"]
    /\ UNCHANGED <<versions, checkpoints, recent_drift_scores, status, drift>>

-----------------------------------------------------------------------------
\* The scores that are kept are enough: the status returned is the one the whole
\* drift history of the model gives, however many updates went before, at the
\* moment of the update (a deadline that passes later does not change it).
StatusFromWholeHistory ==
    \A m \in Models : drift[m] # <<>> =>
        /\ status[m] = "converged" <=> AllOf("low", drift[m], convergence_window)
        /\ status[m] = "diverging" => AllOf("high", drift[m], divergence_window)
        /\ AllOf("high", drift[m], divergence_window) =>
              status[m] \in {"diverging", "timeout_degraded"}

\* A score the detector may have given to a model's last update.
LastScore(m, p) == drift[m] # <<>> /\ Last(drift[m]) = ScoreClass(p[1], p[2])

\* No score of a model's history understates how far the data has drifted: the
\* walk of ks_statistic passes through the point (number of elements <= v in each
\* sample) for every value v, so that it meets the sup-norm distance, the comment
\* at drift_detector.cpp:74-77, and it stays within [0, 1].
ScoresNeverUnderstate == \A p \in Understated, m \in Models : ~LastScore(m, p)

\* A score is the sup-norm distance exactly when the samples repeat every shared
\* value equally often; passing runs of one value element by element is the only
\* way in which ks_statistic overstates a drift.
TieFreeScoresExact == \A p \in Overstated, m \in Models : ~LastScore(m, p)
=============================================================================
