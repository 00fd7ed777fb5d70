------------------------------ MODULE DSPStrategy ------------------------------
(***************************************************************************)
(* The way of one series of samples through strategy/dsp.go: preprocessed, *)
(* searched for peaks, searched for a period, forecast with package dsp    *)
(* and turned into requests and limits.  Recommender has the same strategy *)
(* for the one series that calculateForContainer builds today; here the    *)
(* series is any.                                                          *)
(*                                                                         *)
(* The Fourier transforms are a library.  Of a series they give the        *)
(* amplitudes and the autocorrelation, which come with the series as an    *)
(* input; what they give back of a filtered spectrum is Inverted.          *)
(***************************************************************************)
EXTENDS Preprocessing

CONSTANTS
    Inputs,          \* the series with what goes with them, see below
    MarginPercent, LowAmplitudeThreshold, HighFrequencyThreshold,  \* the latter in 1/1000
    MinNumOfSpectrumItems, MaxNumOfSpectrumItems,
    Resources, NoQuantity

VARIABLES
    input,           \* what calculateForContainer was called with
    stage,           \* how far it is
    values,          \* the series as it is now
    found, rest, kept,  \* filterByDistance: peaks handed over, still to look at, kept
    period,          \* the period that DetectPeriod found, 0 for none
    forecast,        \* the samples of the next period, 1 at a time; <<>> for none
    prediction       \* requests and limits

vars == <<input, stage, values, found, rest, kept, period, forecast, prediction>>

\* An input is a record of values: the samples; interval: seconds between them;
\* amplitude: of the components 0 to N-1; noise: the largest amplitude of the
\* shuffled series but for component 0; acf: the autocorrelations for lags 0 to
\* N/2-1; usage: P95 as requests, P99 as limits; method: "fft" or "maxValue";
\* outliers: the percentiles beyond which samples are removed, or <<>>;
\* detectPeaks.
ASSUME InputsAssumption ==
    \A in \in Inputs :
        /\ in.values \in Seq(Nat) /\ in.interval \in Nat \ {0}
        /\ in.noise \in Int
        /\ DOMAIN in.amplitude = 0..(Len(in.values) - 1)
        /\ \A k \in DOMAIN in.amplitude : in.amplitude[k] \in Int

ASSUME NoQuantityAssumption == NoQuantity \notin Int

\* What ValidateParameters asks of a margin.  A FitProfile that fails it is called
\* invalid and used all the same, and forecasts may then be below the past.
ASSUME MarginAssumption == MarginPercent \in Nat

Day == 86400
N == Len(values)

R == INSTANCE Recommender

-----------------------------------------------------------------------------
(* Detecting a period. *)

\* Mutant of calculateFFTThreshold: without component 0.
ThresholdOfOscillations == input.noise

\* The largest amplitude of a shuffled series: component 0, the sum of the
\* samples, is among them, and shuffling does not change it.
calculateFFTThreshold ==
    IF input.noise > input.amplitude[0] THEN input.noise ELSE input.amplitude[0]

findCandidatePeriods ==
    {k \in DOMAIN input.amplitude :
        k >= 2 /\ 2 * k <= N /\ input.amplitude[k] > calculateFFTThreshold}

\* The regression line through four autocorrelations from lag k on: its slope,
\* but for a positive factor.
calculateSlope(k) ==
    3 * (input.acf[k + 3] - input.acf[k]) + input.acf[k + 2] - input.acf[k + 1]

\* The confidence in a candidate.  k, the number of periods in the series, is
\* taken for a lag.
verifyPeak(k) ==
    IF k >= 3 /\ k < (N \div 2) - 3 /\ calculateSlope(k - 3) > 0 /\ calculateSlope(k) < 0
    THEN input.acf[k] ELSE 0

\* The first of the candidates of the highest confidence, if that is positive.
selectPeriodWithACF(candidates) ==
    LET best == {k \in candidates :
                    /\ verifyPeak(k) > 0
                    /\ \A j \in candidates : \/ verifyPeak(j) < verifyPeak(k)
                                             \/ verifyPeak(j) = verifyPeak(k) /\ j >= k}
    IN IF best = {} THEN 0 ELSE (N \div (CHOOSE k \in best : TRUE)) * input.interval

DetectPeriod == IF N < 4 THEN 0 ELSE selectPeriodWithACF(findCandidatePeriods)

\* predictResource takes a day where no period is detected.
PeriodOrDay == IF DetectPeriod = 0 THEN Day ELSE DetectPeriod

-----------------------------------------------------------------------------
(* Forecasting the next period. *)

SamplesPerPeriod(p) == p \div input.interval

WithMargin(v) == (v * (100 + MarginPercent)) \div 100

\* The samples at a position, counted from 0, of every period.
Group(p, position) ==
    {values[i] : i \in {j \in DOMAIN values : (j - 1) % SamplesPerPeriod(p) = position}}

\* Mutant of PredictMaxValue: the last period instead of all of them.
PredictLastValue(p) ==
    [position \in 1..SamplesPerPeriod(p) |->
        LET i == N - SamplesPerPeriod(p) + position
        IN IF i \in DOMAIN values THEN WithMargin(values[i]) ELSE 0]

\* The largest sample at each position and the margin; a position that the
\* series does not reach stays zero.
PredictMaxValue(p) ==
    IF N = 0 THEN <<>>
    ELSE [position \in 1..SamplesPerPeriod(p) |->
             LET group == Group(p, position - 1)
             IN IF group = {} THEN 0
                ELSE WithMargin(CHOOSE v \in group : \A w \in group : w <= v)]

\* Of equal amplitudes the first counts as the larger one.
getTopIndices(n) ==
    {i \in 0..(N - 1) :
        Cardinality({j \in 0..(N - 1) :
            \/ input.amplitude[j] > input.amplitude[i]
            \/ input.amplitude[j] = input.amplitude[i] /\ j < i}) < n}

\* The components that are left.  Where they are too few, still more are taken
\* away: those of the first half that are not among the largest ones.
filterFFT ==
    LET amplitudes == [i \in 1..N |-> input.amplitude[i - 1]]
        tenth      == Sorted(amplitudes, N \div 10)
        passing    == {i \in 0..(N - 1) :
                          /\ input.amplitude[i] >= LowAmplitudeThreshold
                          /\ input.amplitude[i] >= tenth
                          /\ i * Day * 1000 <= HighFrequencyThreshold * N * input.interval}
        first      == {i \in passing :
                          Cardinality({j \in passing : j <= i}) <= MaxNumOfSpectrumItems}
    IN IF Cardinality(passing) >= MinNumOfSpectrumItems THEN first
       ELSE {i \in first : i \in getTopIndices(MinNumOfSpectrumItems) \/ i = 0 \/ i >= N \div 2}

\* What ifft may make of the components left: nothing, the mean of the samples,
\* or an oscillation around it.
Inverted(components, length) ==
    LET mean == input.amplitude[0] \div N
    IN IF components = {} THEN {[i \in 1..length |-> 0]}
       ELSE IF components = {0} THEN {[i \in 1..length |-> WithMargin(mean)]}
       ELSE [1..length -> {0, WithMargin(mean), WithMargin(2 * mean)}]

\* The forecasts that are possible; none when the period is longer than the series.
PredictFFT(p) ==
    IF N = 0 \/ SamplesPerPeriod(p) \notin 1..N THEN {<<>>}
    ELSE Inverted(filterFFT, SamplesPerPeriod(p))

\* Limits are the largest sample, requests the one at 95% of the period.
predictResource(f) ==
    [s \in {"requests", "limits"} |->
        IF s = "limits" THEN CHOOSE v \in {f[i] : i \in DOMAIN f} : \A i \in DOMAIN f : f[i] <= v
        ELSE f[(Len(f) * 95) \div 100 + 1]]

-----------------------------------------------------------------------------
(* The steps of calculateForContainer. *)

\* percentile panics on a fraction above one, unless there is but one sample.
Process ==
    /\ stage = "extracted"
    /\ IF input.outliers # <<>> /\ values # <<>>
       THEN IF \E k \in {1, 2} : Panics(values, input.outliers[k])
            THEN stage' = "panic" /\ UNCHANGED values
            ELSE stage' = "processed" /\ values' = RemoveOutliers(values, input.outliers)
       ELSE stage' = "processed" /\ UNCHANGED values
    /\ UNCHANGED <<input, found, rest, kept, period, forecast, prediction>>

DetectPeaks ==
    /\ stage = "processed"
    /\ stage' = "filtering"
    /\ found' = IF input.detectPeaks THEN Detected(values) ELSE {}
    /\ rest' = found'
    /\ UNCHANGED <<input, values, kept, period, forecast, prediction>>

FarFrom(p, others) == \A q \in others : Distance(p, q) >= MinDistance

\* Mutant of Foremost: the order of the series instead of that of prominence.
FirstOf(peaks) == {p \in peaks : \A q \in peaks : q.index >= p.index}

\* What the sorted slice may begin with: of equally prominent peaks any, as the
\* exchange sort moves them past each other.
Foremost(peaks) == {p \in peaks : \A q \in peaks : q.prominence <= p.prominence}

\* A turn of filterByDistance.
FilterPeak ==
    /\ stage = "filtering"
    /\ \E p \in Foremost(rest) :
          /\ rest' = rest \ {p}
          /\ kept' = IF FarFrom(p, kept) THEN kept \cup {p} ELSE kept
    /\ UNCHANGED <<input, stage, values, found, period, forecast, prediction>>

\* predictResource; what it cannot predict is P95 and P99.
Predict ==
    /\ stage = "filtering" /\ rest = {} /\ values # <<>>
    /\ stage' = "predicted"
    /\ period' = DetectPeriod
    /\ \E f \in IF input.method = "maxValue" THEN {PredictMaxValue(PeriodOrDay)}
                ELSE PredictFFT(PeriodOrDay) :
          /\ forecast' = f
          /\ prediction' = IF f = <<>> THEN input.usage ELSE predictResource(f)
    /\ UNCHANGED <<input, values, found, rest, kept>>

Init ==
    /\ input \in Inputs
    /\ stage = "extracted"
    /\ values = input.values
    /\ found = {} /\ rest = {} /\ kept = {}
    /\ period = 0
    /\ forecast = <<>>
    /\ prediction = [s \in {"requests", "limits"} |-> NoQuantity]

Next == Process \/ DetectPeaks \/ FilterPeak \/ Predict

Spec == Init /\ [][Next]_vars

-----------------------------------------------------------------------------
(* Properties. *)

\* Nothing outside the thresholds comes out of RemoveOutliers, runs of outliers
\* included, unless the series begins with two outliers or more, and then only
\* in that first run.
OutliersGoAway ==
    stage \notin {"extracted", "panic"} /\ input.outliers # <<>> =>
        \A i \in DOMAIN values :
            IsOutlier(input.values, values[i], input.outliers) =>
                \A j \in DOMAIN values :
                    j <= i \/ j = 2 => IsOutlier(input.values, input.values[j], input.outliers)

KeptApart == \A p, q \in kept : p # q => Distance(p, q) >= MinDistance

LostToAnother ==
    \A p \in found \ (rest \cup kept) :
        \E q \in kept : Distance(p, q) < MinDistance /\ q.prominence >= p.prominence

\* Peaks are thinned out fairly: those kept are far enough apart, and one is
\* dropped only for a peak near by that is at least as prominent and is kept
\* itself, not for one that is dropped in its turn.
PeaksThinned == KeptApart /\ LostToAnother

\* With maxValue no sample of the past exceeds the forecast for its position, and
\* limits cover all of them.  A forecast, and a request, of zero is possible
\* only at a position that the series does not reach.
ForecastCovers ==
    stage = "predicted" /\ input.method = "maxValue" /\ forecast # <<>> =>
        /\ \A i \in DOMAIN values :
              LET position == ((i - 1) % Len(forecast)) + 1
              IN /\ values[i] <= forecast[position]
                 /\ WithMargin(values[i]) <= prediction["limits"]
        /\ \A position \in DOMAIN forecast :
              forecast[position] = 0 =>
                  position > N \/ \E i \in DOMAIN values : values[i] = 0

\* The amplitudes of samples that are all positive: none exceeds their sum.
OfUsage == \A k \in DOMAIN input.amplitude : input.amplitude[k] <= input.amplitude[0]

\* DetectPeriod finds no period in a usage: shuffling keeps component 0, so that
\* the threshold is not below it, nor below any other.
UsageHasNoPeriod == OfUsage => period = 0

\* What Recommender takes for granted: no period is ever detected in a usage,
\* and the series of a week that calculateForContainer builds of P95 leads to
\* what Recommender says.
RecommenderAgrees ==
    stage = "predicted" =>
        /\ UsageHasNoPeriod
        /\ /\ OfUsage /\ input.interval = 60
           /\ input.values = [i \in 1..R!SeriesLength |-> input.usage["requests"]]
           => prediction = R!dspPredict(input.usage, [method |-> input.method, margin |-> MarginPercent])

=============================================================================
