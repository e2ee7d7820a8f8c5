SPECIFICATION Spec
CONSTANTS
    Models = {m1, m2}
    MaxVersions = 3
    Samples <- MCSamples
    SaveOutcomes = {"none", "complete"}
    convergence_window = 1
    divergence_window = 2
    kept_scores = 2
    limit = 2
    NoQuery = NoQuery
SYMMETRY Symmetry
INVARIANTS
    StatusFromWholeHistory
    DegradesToNewest
    NotFoundMeansNone
    ScoresNeverUnderstate
    TieFreeScoresExact
