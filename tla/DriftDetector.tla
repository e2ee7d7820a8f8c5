--------------------------- MODULE DriftDetector ---------------------------
(***************************************************************************)
(* DriftDetector (engine/alignment/drift_detector.cpp): the Kolmogorov-    *)
(* Smirnov statistic of two samples, found by walking both in sorted order *)
(* at once.  Distances are kept as integers, in units of 1/(n1*n2).        *)
(***************************************************************************)
EXTENDS Naturals, Integers, SequencesExt

CONSTANT Samples    \* non-empty sequences of numbers: what update_model compares

ASSUME SamplesAssumption == \A s \in Samples : s \in Seq(Int) /\ s # <<>>

Distance(a, b) == IF a >= b THEN a - b ELSE b - a

Larger(a, b) == IF a >= b THEN a ELSE b

\* Where the walk goes from (i, j): the smaller head is passed, two equal heads
\* together, and what is left of one sample when the other is exhausted.
AdvanceOnTie(s1, s2, i, j) ==   \* variant: equal heads are passed one by one
    IF j = Len(s2) \/ (i < Len(s1) /\ s1[i + 1] <= s2[j + 1])
    THEN <<i + 1, j>> ELSE <<i, j + 1>>

Advance(s1, s2, i, j) ==
    LET passes1 == i < Len(s1) /\ (j = Len(s2) \/ s1[i + 1] <= s2[j + 1])
        passes2 == j < Len(s2) /\ (i = Len(s1) \/ s2[j + 1] <= s1[i + 1])
    IN <<IF passes1 THEN i + 1 ELSE i, IF passes2 THEN j + 1 ELSE j>>

\* The walk ends where both samples are exhausted.  An exhausted sample has
\* cdf 1.0, which is what i/n1 and j/n2 give there.
NoDrain(s1, s2, i, j) == i = Len(s1) \/ j = Len(s2)   \* variant

WalkEnds(s1, s2, i, j) == i = Len(s1) /\ j = Len(s2)

UpTo(s, v) == Cardinality({i \in DOMAIN s : s[i] <= v})

Below(s, v) == Cardinality({i \in DOMAIN s : s[i] < v})

\* What std::sort leaves in each position: the value that has fewer elements below
\* it than the position says, and at least that many up to it.
Sorted(s) ==
    [i \in DOMAIN s |-> CHOOSE v \in ToSet(s) : Below(s, v) < i /\ i <= UpTo(s, v)]

ks_statistic(sample1, sample2) ==
    LET s1 == Sorted(sample1)
        s2 == Sorted(sample2)
        n1 == Len(s1)
        n2 == Len(s2)
        max_diff[p \in (0..n1) \X (0..n2)] ==
            IF WalkEnds(s1, s2, p[1], p[2]) THEN 0
            ELSE Larger(Distance(p[1] * n2, p[2] * n1),
                        max_diff[Advance(s1, s2, p[1], p[2])])
    IN max_diff[<<0, 0>>]

-----------------------------------------------------------------------------
\* The sup-norm distance of the two empirical distribution functions.
SupNorm(s1, s2) ==
    Max({Distance(UpTo(s1, v) * Len(s2), UpTo(s2, v) * Len(s1)) :
           v \in ToSet(s1) \union ToSet(s2)})

Times(s, v) == Cardinality({i \in DOMAIN s : s[i] = v})

\* Values the samples share with different multiplicity.
UnevenTies(s1, s2) ==
    {v \in ToSet(s1) \intersect ToSet(s2) : Times(s1, v) # Times(s2, v)}

Pairs == {<<s1, s2>> : s1, s2 \in Samples}

\* Pairs of samples whose statistic is below their distance, or above 1.
Understated ==
    {p \in Pairs :
        ks_statistic(p[1], p[2]) \notin SupNorm(p[1], p[2])..(Len(p[1]) * Len(p[2]))}

\* Pairs that repeat each shared value equally often and whose statistic is not
\* their distance.
Overstated ==
    {p \in Pairs :
        UnevenTies(p[1], p[2]) = {} /\ ks_statistic(p[1], p[2]) # SupNorm(p[1], p[2])}
=============================================================================
