----------------------------- MODULE Preprocessing -----------------------------
(***************************************************************************)
(* internal/recommender/preprocessing: what is done to a series before a   *)
(* forecast (preprocessor.go) and the search for its peaks                 *)
(* (peak_detection.go).  A series is a sequence of numbers of a unit small *)
(* enough to be integers; its timestamps decide nothing.                   *)
(*                                                                         *)
(* ImputeMissing returns its argument whatever it is, Normalize does so    *)
(* for a constant series, and both are left out; so are the width of a     *)
(* peak, which nobody reads, and DetectAnomalies, which nobody calls.      *)
(***************************************************************************)
EXTENDS Integers, Sequences, FiniteSets

CONSTANTS
    WindowSize, MinDistance, MinProminence

ASSUME PreprocessingAssumption ==
    /\ WindowSize \in Nat /\ MinDistance \in Nat /\ MinProminence \in Int

-----------------------------------------------------------------------------
(* Outliers. *)

\* The value that a sort of the series puts at index k, counted from 0.
Sorted(values, k) ==
    CHOOSE v \in {values[i] : i \in DOMAIN values} :
        /\ Cardinality({i \in DOMAIN values : values[i] < v}) <= k
        /\ Cardinality({i \in DOMAIN values : values[i] <= v}) > k

\* The index, in 1/1000, between two of which percentile interpolates.  It asks
\* for fractions: of 99.9, the default, it is beyond the end of the series.
PercentileIndex(values, p) == p * (Len(values) - 1)

Panics(values, p) == PercentileIndex(values, p) > 1000 * (Len(values) - 1)

\* In 1/1000 of the unit of the series.
percentile(values, p) ==
    LET lower == PercentileIndex(values, p) \div 1000
        weight == PercentileIndex(values, p) % 1000
    IN IF weight = 0 THEN 1000 * Sorted(values, lower)
       ELSE Sorted(values, lower) * (1000 - weight) + Sorted(values, lower + 1) * weight

\* OutlierPercentile is a pair, in 1/1000 of what percentile takes.
IsOutlier(values, v, OutlierPercentile) ==
    \/ 1000 * v < percentile(values, OutlierPercentile[1])
    \/ 1000 * v > percentile(values, OutlierPercentile[2])

\* Mutant of RemoveOutliers: the sample before an outlier, not its replacement.
RemoveOutliersBySample(values, OutlierPercentile) ==
    [i \in DOMAIN values |->
        IF ~IsOutlier(values, values[i], OutlierPercentile) THEN values[i]
        ELSE IF i > 1 THEN values[i - 1]
        ELSE IF Len(values) > 1 THEN values[2] ELSE values[1]]

\* An outlier gives way to what is before it in the result, the first sample to
\* the second one as it is.
RemoveOutliers(values, OutlierPercentile) ==
    LET result[i \in DOMAIN values] ==
            IF ~IsOutlier(values, values[i], OutlierPercentile) THEN values[i]
            ELSE IF i > 1 THEN result[i - 1]
            ELSE IF Len(values) > 1 THEN values[2] ELSE values[1]
    IN result

-----------------------------------------------------------------------------
(* Peaks. *)

isLocalMaximum(values, i) ==
    \A j \in (i - WindowSize)..(i + WindowSize) :
        j \in DOMAIN values \ {i} => values[j] < values[i]

\* What a walk from the peak to one side, up to the first higher sample, sees.
Slope(values, i, side) ==
    {j \in side : \A k \in side : (i < k /\ k < j) \/ (j < k /\ k < i) => values[k] <= values[i]}

Lowest(values, i, side) ==
    CHOOSE m \in {values[j] : j \in Slope(values, i, side) \cup {i}} :
        \A j \in Slope(values, i, side) \cup {i} : m <= values[j]

calculateProminence(values, i) ==
    LET left  == Lowest(values, i, 1..(i - 1))
        right == Lowest(values, i, (i + 1)..Len(values))
    IN values[i] - (IF left > right THEN left ELSE right)

\* The peaks before filterByDistance.
Detected(values) ==
    IF Len(values) < 3 THEN {}
    ELSE {[index |-> i, prominence |-> calculateProminence(values, i)] :
             i \in {j \in (WindowSize + 1)..(Len(values) - WindowSize) :
                       /\ isLocalMaximum(values, j)
                       /\ calculateProminence(values, j) >= MinProminence}}

Distance(p, q) ==
    IF p.index < q.index THEN q.index - p.index ELSE p.index - q.index

=============================================================================
