----------------------------- MODULE Recommender -----------------------------
(***************************************************************************)
(* The recommendation engine: src/internal/recommender/calculator.go and   *)
(* the strategies percentile.go and dsp.go of its package strategy.  All   *)
(* operators are pure.                                                     *)
(*                                                                         *)
(* A quantity is a number of the unit its format has (milli-cores or       *)
(* bytes) and percentages are integers, so that int64(float) is \div.      *)
(* Requests and limits, CPU and memory are treated alike by the code and   *)
(* are indices here.  Confidence, Metadata, CappedReason and the charts    *)
(* decide nothing and are left out.                                        *)
(***************************************************************************)
EXTENDS Integers

CONSTANTS
    Resources,   \* "cpu" and "memory", or a part of them
    NoQuantity   \* a nil *resource.Quantity, an absent parameter

ASSUME NoQuantityAssumption == NoQuantity \notin Int

Quantity == Nat \cup {NoQuantity}
Sections == {"requests", "limits"}

\* Requests and limits of one container and one resource.
Values == [Sections -> Quantity]

NoValues == [s \in Sections |-> NoQuantity]

\* SafetyRailsConfig, for one resource.
Rail == [min : Quantity, max : Quantity]

\* What a FitProfile asks for.
FitProfile == [strategy : {"percentile", "dsp", "unknown"},
               buffer : Values, maxChange : Quantity,
               method : {"fft", "maxValue"}, margin : Nat,
               override : [Resources -> Rail]]

OrElse(q, default) == IF q = NoQuantity THEN default ELSE q

-----------------------------------------------------------------------------
(* Steps of the percentile strategy. *)

\* IntentBalanced, the intent the reconciler always passes, with what the
\* parameters replace in it.
getIntentConfigFromParameters(profile) ==
    [buffer    |-> [s \in Sections |->
                       OrElse(profile.buffer[s], IF s = "requests" THEN 20 ELSE 30)],
     maxChange |-> OrElse(profile.maxChange, 50)]

applyBuffer(q, percent) ==
    IF q = NoQuantity THEN q ELSE (q * (100 + percent)) \div 100

\* Mutant of applyGradualChange: the change as a percentage of the new value.
GradualChangeOfNewValue(recommended, current, maxChange) ==
    IF recommended = NoQuantity \/ current \in {NoQuantity, 0} \/ maxChange >= 100
    THEN recommended
    ELSE IF (recommended - current) * 100 > recommended * maxChange
    THEN (current * (100 + maxChange)) \div 100
    ELSE IF (current - recommended) * 100 > recommended * maxChange
    THEN (current * (100 - maxChange)) \div 100
    ELSE recommended

\* Changes of more than maxChange percent are cut to that.
applyGradualChange(recommended, current, maxChange) ==
    IF recommended = NoQuantity \/ current \in {NoQuantity, 0} \/ maxChange >= 100
    THEN recommended
    ELSE IF (recommended - current) * 100 > current * maxChange
    THEN (current * (100 + maxChange)) \div 100
    ELSE IF (current - recommended) * 100 > current * maxChange
    THEN (current * (100 - maxChange)) \div 100
    ELSE recommended

AtLeast(q, min) == IF q # NoQuantity /\ min # NoQuantity /\ q < min THEN min ELSE q
AtMost(q, max)  == IF q # NoQuantity /\ max # NoQuantity /\ q > max THEN max ELSE q

\* Mutant of applySafetyRails: the result of the maximum is lost.
SafetyRailsMinOnly(q, rail) == AtLeast(q, rail.min)

\* The maximum has the last word when a rail's minimum exceeds it.
applySafetyRails(q, rail) == AtMost(AtLeast(q, rail.min), rail.max)

\* Mutant of applyQuotaLimits: only the limits are capped.
QuotaOnLimitsOnly(rec, quota) == [rec EXCEPT !["limits"] = AtMost(@, quota)]

\* Both strategies cap requests and limits at the quota's limit.
applyQuotaLimits(rec, quota) == [s \in Sections |-> AtMost(rec[s], quota)]

\* usage: P95 under "requests", P99 under "limits".
percentileCalculate(usage, current, intent, rail, quota) ==
    applyQuotaLimits(
        [s \in Sections |->
            applySafetyRails(
                applyGradualChange(applyBuffer(usage[s], intent.buffer[s]),
                                   current[s], intent.maxChange),
                rail)],
        quota)

-----------------------------------------------------------------------------
(* Steps of the DSP strategy. *)

\* The series has a point per hour of a week, each of them P95; a day, the
\* period assumed since a constant has none, is cut into minutes.
SeriesLength     == 7 * 24
SamplesPerPeriod == 86400 \div 60

\* What the forecast says of sample i of the next day: where the series has no
\* point the sample keeps the value zero.
PredictMaxValue(p95, margin, i) ==
    IF i < SeriesLength THEN (p95 * (100 + margin)) \div 100 ELSE 0

\* predictResource: requests are the sample at 95% of the day (unsorted), limits
\* are the largest sample.  PredictFFT returns nothing, SamplesPerPeriod being
\* more than SeriesLength, and the percentiles are taken as they are.
dspPredict(usage, profile) ==
    IF usage["requests"] = NoQuantity THEN NoValues
    ELSE IF profile.method = "maxValue"
    THEN [s \in Sections |->
             IF s = "requests"
             THEN PredictMaxValue(usage["requests"], profile.margin,
                                  (SamplesPerPeriod * 95) \div 100)
             ELSE PredictMaxValue(usage["requests"], profile.margin, 0)]
    ELSE usage

\* DSPStrategy.applySafetyRails: requests are raised, limits are lowered.
dspApplySafetyRails(rec, rail) ==
    [s \in Sections |-> IF s = "requests" THEN AtLeast(rec[s], rail.min)
                                          ELSE AtMost(rec[s], rail.max)]

dspCalculate(usage, profile, rail, quota) ==
    applyQuotaLimits(dspApplySafetyRails(dspPredict(usage, profile), rail), quota)

-----------------------------------------------------------------------------
(* The calculator. *)

\* A strategy that is not registered is replaced by the percentile strategy.
Calculate(usage, current, profile, rail, quota) ==
    IF profile.strategy = "dsp"
    THEN dspCalculate(usage, profile, rail, quota)
    ELSE percentileCalculate(usage, current, getIntentConfigFromParameters(profile),
                             rail, quota)

Magnitude(n) == IF n < 0 THEN -n ELSE n

\* Mutant of hasSignificantChange: the change has reached a threshold of zero.
hasAnyChange(current, recommended, minChange) ==
    IF current = 0 THEN recommended # 0
    ELSE Magnitude(recommended - current) * 100 >= 0

hasSignificantChange(current, recommended, minChange) ==
    IF current = 0 THEN recommended # 0
    ELSE Magnitude(recommended - current) * 100 >= minChange * current

\* Some container's requests should change by the threshold or more.  Limits do
\* not count, nor do requests that are not set now.
ShouldCreateCut(recommendations, current, minChange) ==
    \E c \in DOMAIN recommendations :
        \/ c \notin DOMAIN current
        \/ \E r \in Resources :
              /\ recommendations[c][r]["requests"] # NoQuantity
              /\ current[c][r]["requests"] # NoQuantity
              /\ hasSignificantChange(current[c][r]["requests"],
                                      recommendations[c][r]["requests"], minChange)
=============================================================================
