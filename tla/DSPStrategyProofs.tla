--------------------------- MODULE DSPStrategyProofs ---------------------------
(***************************************************************************)
(* Theorems about the outliers, the peaks, the period and the forecast of  *)
(* a series, whatever the samples, the spectrum, the percentiles, the      *)
(* window and the minimum distance.                                        *)
(***************************************************************************)
EXTENDS DSPStrategy, WellFoundedInduction, TLAPS

-----------------------------------------------------------------------------
(* The least and the greatest of a set of numbers. *)

LEMMA LeastNatural ==
    ASSUME NEW T \in SUBSET Nat, T # {}
    PROVE  \E x \in T : \A y \in T : x <= y
<1>1. PICK x \in T : \A y \in T : <<y, x>> \notin OpToRel(<, Nat)
  BY NatLessThanWellFounded, WFMin
<1>2. ASSUME NEW y \in T PROVE x <= y
  <2>1. x \in Nat /\ y \in Nat
    OBVIOUS
  <2>2. ~(y < x)
    BY <1>1, <2>1 DEF OpToRel
  <2>3. QED
    BY <2>1, <2>2
<1>3. QED
  BY <1>2

\* A sequence of numbers is bounded, and of numbers up to a bound one is the
\* greatest.
LEMMA SequenceBounded ==
    ASSUME NEW v \in Seq(Nat)
    PROVE  \E b \in Nat : \A i \in DOMAIN v : v[i] <= b
<1> DEFINE Bounded(n) == \E b \in Nat : \A i \in 1..Len(v) : i <= n => v[i] <= b
           T == {n \in Nat : n <= Len(v) /\ ~Bounded(n)}
<1>1. DOMAIN v = 1..Len(v) /\ Len(v) \in Nat /\ \A i \in 1..Len(v) : v[i] \in Nat
  OBVIOUS
<1>2. Bounded(0)
  BY <1>1
<1>3. ASSUME NEW n \in Nat, n # 0, n <= Len(v), Bounded(n - 1) PROVE Bounded(n)
  <2>1. PICK b \in Nat : \A i \in 1..Len(v) : i <= n - 1 => v[i] <= b
    BY <1>3
  <2>2. PICK w \in Nat : w = v[n]
    BY <1>1, <1>3
  <2>3. \A i \in 1..Len(v) : i <= n => v[i] <= b + w
    <3>1. ASSUME NEW i \in 1..Len(v), i <= n PROVE v[i] <= b + w
      <4>1. CASE i = n
        BY <4>1, <2>2
      <4>2. CASE i # n
        <5>1. i <= n - 1 /\ v[i] \in Nat
          BY <3>1, <4>2, <1>1
        <5>2. QED
          BY <5>1, <2>1
      <4>3. QED
        BY <4>1, <4>2
    <3>2. QED
      BY <3>1
  <2>4. b + w \in Nat
    OBVIOUS
  <2>5. QED
    BY <2>3, <2>4
<1>4. T \in SUBSET Nat
  OBVIOUS
<1> HIDE DEF Bounded
<1>5. T = {}
  <2>1. SUFFICES ASSUME T # {} PROVE FALSE
    OBVIOUS
  <2>2. PICK n \in T : \A m \in T : n <= m
    <3> HIDE DEF T
    <3>1. QED
      BY <2>1, <1>4, LeastNatural
  <2>3. n \in Nat /\ n # 0 /\ n <= Len(v) /\ ~Bounded(n)
    BY <2>2, <1>2
  <2>4. n - 1 \in Nat /\ n - 1 <= Len(v) /\ ~(n <= n - 1)
    BY <2>3, <1>1
  <2>5. Bounded(n - 1)
    BY <2>2, <2>4
  <2>6. QED
    BY <2>3, <2>5, <1>3
<1>6. Bounded(Len(v))
  BY <1>1, <1>5
<1>7. QED
  BY <1>1, <1>6 DEF Bounded

LEMMA GreatestNatural ==
    ASSUME NEW S \in SUBSET Nat, S # {}, NEW b \in Nat, \A s \in S : s <= b
    PROVE  \E m \in S : \A s \in S : s <= m
<1> DEFINE T == {n \in Nat : \E s \in S : n = b - s}
<1>1. \A s \in S : s \in Nat /\ s <= b /\ b - s \in Nat
  OBVIOUS
<1>2. T \in SUBSET Nat /\ T # {}
  BY <1>1
<1>3. PICK t \in T : \A u \in T : t <= u
  <2> HIDE DEF T
  <2>1. QED
    BY <1>2, LeastNatural
<1>4. PICK m \in S : t = b - m
  OBVIOUS
<1>5. ASSUME NEW s \in S PROVE s <= m
  <2>1. b - s \in T
    BY <1>1
  <2>2. b - m <= b - s
    BY <2>1, <1>3, <1>4
  <2>3. QED
    BY <2>2, <1>1
<1>6. QED
  BY <1>5

-----------------------------------------------------------------------------
(* Peaks. *)

LEMMA DetectedIndex ==
    ASSUME NEW v, NEW p \in Detected(v) PROVE p.index \in Int
  BY DEF Detected

LEMMA DistanceSymmetric ==
    ASSUME NEW p, NEW q, p.index \in Int, q.index \in Int
    PROVE  Distance(p, q) = Distance(q, p)
  BY DEF Distance

\* The loop has looked at the most prominent peaks first, and every one that it
\* has looked at is kept or near one that was kept by then.
PeaksInv ==
    /\ rest \subseteq found /\ kept \subseteq found \ rest
    /\ stage \in {"extracted", "processed"} => found = {}
    /\ \A p \in found : p.index \in Int
    /\ \A p \in found \ rest, q \in rest : q.prominence <= p.prominence
    /\ KeptApart
    /\ LostToAnother

LEMMA PeaksInit == Init => PeaksInv
  BY DEF Init, PeaksInv, KeptApart, LostToAnother

LEMMA DetectPeaksStep == PeaksInv /\ DetectPeaks => PeaksInv'
<1> SUFFICES ASSUME PeaksInv, DetectPeaks PROVE PeaksInv'
  OBVIOUS
<1>1. found = {} /\ kept = {} /\ kept' = {} /\ rest' = found' /\ stage' = "filtering"
  BY DEF PeaksInv, DetectPeaks
<1>2. \A p \in found' : p.index \in Int
  BY DetectedIndex DEF DetectPeaks
<1>3. QED
  BY <1>1, <1>2 DEF PeaksInv, KeptApart, LostToAnother

LEMMA FilterPeakStep == PeaksInv /\ FilterPeak => PeaksInv'
<1> SUFFICES ASSUME PeaksInv, FilterPeak PROVE PeaksInv'
  OBVIOUS
<1>1. PICK p \in Foremost(rest) :
          /\ rest' = rest \ {p}
          /\ kept' = IF FarFrom(p, kept) THEN kept \cup {p} ELSE kept
  BY DEF FilterPeak
<1>2. p \in rest /\ \A q \in rest : q.prominence <= p.prominence
  BY <1>1 DEF Foremost
<1>3. found' = found /\ stage' = "filtering" /\ stage = "filtering"
  BY DEF FilterPeak
<1>4. /\ rest' \subseteq found' /\ kept' \subseteq found' \ rest'
      /\ \A q \in found' : q.index \in Int
  BY <1>1, <1>2, <1>3 DEF PeaksInv
<1>5. \A q \in found' \ rest', r \in rest' : r.prominence <= q.prominence
  BY <1>1, <1>2, <1>3 DEF PeaksInv
<1>6. KeptApart'
  <2>1. CASE FarFrom(p, kept)
    <3>1. \A q \in kept : Distance(p, q) >= MinDistance /\ Distance(q, p) >= MinDistance
      BY <2>1, <1>2, DistanceSymmetric DEF FarFrom, PeaksInv
    <3>2. kept' = kept \cup {p}
      BY <1>1, <2>1
    <3>3. QED
      BY <3>1, <3>2 DEF PeaksInv, KeptApart
  <2>2. CASE ~FarFrom(p, kept)
    BY <1>1, <2>2 DEF PeaksInv, KeptApart
  <2>3. QED
    BY <2>1, <2>2
<1>7. LostToAnother'
  <2>1. SUFFICES ASSUME NEW x \in found \ (rest' \cup kept')
                 PROVE  \E q \in kept' : Distance(x, q) < MinDistance /\ q.prominence >= x.prominence
    BY <1>3 DEF LostToAnother
  <2>2. kept \subseteq kept'
    BY <1>1
  <2>3. CASE x # p
    BY <2>1, <2>2, <2>3, <1>1 DEF PeaksInv, LostToAnother
  <2>4. CASE x = p
    <3>1. ~FarFrom(p, kept)
      BY <2>1, <2>4, <1>1
    <3>2. PICK q \in kept : ~(Distance(p, q) >= MinDistance)
      BY <3>1 DEF FarFrom
    <3>3. p.index \in Int /\ q.index \in Int /\ q.prominence >= p.prominence
      BY <3>2, <1>2 DEF PeaksInv
    <3>4. Distance(p, q) \in Int /\ MinDistance \in Int
      BY <3>3, PreprocessingAssumption DEF Distance
    <3>5. Distance(p, q) < MinDistance
      BY <3>2, <3>4
    <3>6. QED
      BY <2>2, <2>4, <3>2, <3>3, <3>5
  <2>5. QED
    BY <2>3, <2>4
<1>8. QED
  BY <1>3, <1>4, <1>5, <1>6, <1>7 DEF PeaksInv

LEMMA PeaksStep == PeaksInv /\ [Next]_vars => PeaksInv'
<1> SUFFICES ASSUME PeaksInv, [Next]_vars PROVE PeaksInv'
  OBVIOUS
<1>1. CASE Process
  BY <1>1 DEF Process, PeaksInv, KeptApart, LostToAnother
<1>2. CASE DetectPeaks
  BY <1>2, DetectPeaksStep
<1>3. CASE FilterPeak
  BY <1>3, FilterPeakStep
<1>4. CASE Predict
  <2>1. stage' = "predicted" /\ found' = found /\ rest' = rest /\ kept' = kept
    BY <1>4 DEF Predict
  <2>2. QED
    BY <2>1 DEF PeaksInv, KeptApart, LostToAnother
<1>5. CASE UNCHANGED vars
  BY <1>5 DEF vars, PeaksInv, KeptApart, LostToAnother
<1>6. QED
  BY <1>1, <1>2, <1>3, <1>4, <1>5 DEF Next

\* filterByDistance keeps peaks far enough apart and drops each of the others
\* for one near by that is at least as prominent and is kept.
THEOREM PeaksAreThinned == Spec => []PeaksThinned
<1>1. PeaksInv => PeaksThinned
  BY DEF PeaksInv, PeaksThinned
<1>2. QED
  BY PeaksInit, PeaksStep, <1>1, PTL DEF Spec

-----------------------------------------------------------------------------
(* The period. *)

LEMMA NoCandidate ==
    ASSUME input \in Inputs, OfUsage PROVE findCandidatePeriods = {}
<1> SUFFICES ASSUME NEW k \in findCandidatePeriods PROVE FALSE
  OBVIOUS
<1>1. k \in DOMAIN input.amplitude /\ k >= 2 /\ input.amplitude[k] > calculateFFTThreshold
  BY DEF findCandidatePeriods
<1>2. 0 \in DOMAIN input.amplitude
  BY <1>1, InputsAssumption
<1>3. /\ input.amplitude[k] \in Int /\ input.amplitude[0] \in Int /\ input.noise \in Int
      /\ input.amplitude[k] <= input.amplitude[0]
  BY <1>1, <1>2, InputsAssumption DEF OfUsage
<1>4. QED
  BY <1>1, <1>3 DEF calculateFFTThreshold

LEMMA NothingSelected ==
    ASSUME input \in Inputs, OfUsage PROVE DetectPeriod = 0
  BY NoCandidate DEF DetectPeriod, selectPeriodWithACF

\* In a series whose amplitudes do not exceed that of component 0, the sum of the
\* samples, DetectPeriod never finds a period: the search is without effect for
\* every usage, since no usage is negative.
THEOREM PeriodIsNeverFound == Spec => [](input \in Inputs /\ UsageHasNoPeriod)
<1> DEFINE Inv == input \in Inputs /\ UsageHasNoPeriod
<1>1. Init => Inv
  BY DEF Init, UsageHasNoPeriod
<1>2. Inv /\ [Next]_vars => Inv'
  <2> SUFFICES ASSUME Inv, [Next]_vars PROVE Inv'
    OBVIOUS
  <2>1. input' = input
    BY DEF Next, Process, DetectPeaks, FilterPeak, Predict, vars
  <2>2. OfUsage' <=> OfUsage
    BY <2>1 DEF OfUsage
  <2>3. OfUsage => period' = 0
    <3>1. CASE Predict
      BY <3>1, NothingSelected DEF Predict
    <3>2. CASE ~Predict
      BY <3>2 DEF UsageHasNoPeriod, Next, Process, DetectPeaks, FilterPeak, vars
    <3>3. QED
      BY <3>1, <3>2
  <2>4. QED
    BY <2>1, <2>2, <2>3 DEF UsageHasNoPeriod
<1>3. QED
  BY <1>1, <1>2, PTL DEF Spec

-----------------------------------------------------------------------------
(* Outliers. *)

\* The recursion of RemoveOutliers has a solution, so that its result, chosen to
\* be one, is one.  The witness goes back to the last sample that is no outlier.
LEMMA RemovalRecurs ==
    ASSUME NEW v \in Seq(Nat), NEW o
    PROVE  RemoveOutliers(v, o) =
              [i \in DOMAIN v |->
                  IF ~IsOutlier(v, v[i], o) THEN v[i]
                  ELSE IF i > 1 THEN RemoveOutliers(v, o)[i - 1]
                  ELSE IF Len(v) > 1 THEN v[2] ELSE v[1]]
<1> DEFINE Out(i) == IsOutlier(v, v[i], o)
           Base   == IF Len(v) > 1 THEN v[2] ELSE v[1]
           Last(i, j) == j \in 1..i /\ ~Out(j) /\ \A k \in 1..i : ~Out(k) => k <= j
           w == [i \in DOMAIN v |-> IF \E j \in 1..i : ~Out(j)
                                    THEN v[CHOOSE j : Last(i, j)] ELSE Base]
           Recurs(f) == f = [i \in DOMAIN v |->
                                IF ~Out(i) THEN v[i]
                                ELSE IF i > 1 THEN f[i - 1] ELSE Base]
<1>1. DOMAIN v = 1..Len(v) /\ Len(v) \in Nat
  OBVIOUS
<1> HIDE DEF Out
<1>2. ASSUME NEW i \in Nat, NEW j, NEW k, Last(i, j), Last(i, k) PROVE j = k
  <2>1. j \in Int /\ k \in Int /\ j <= k /\ k <= j
    BY <1>2
  <2>2. QED
    BY <2>1
<1>3. ASSUME NEW i \in DOMAIN v, ~Out(i) PROVE w[i] = v[i]
  <2>1. Last(i, i) /\ i \in Nat
    BY <1>1, <1>3
  <2>2. (CHOOSE j : Last(i, j)) = i
    <3> HIDE DEF Last
    <3>1. Last(i, CHOOSE j : Last(i, j))
      BY <2>1
    <3>2. QED
      BY <2>1, <3>1, <1>2
  <2>3. \E j \in 1..i : ~Out(j)
    BY <2>1
  <2> HIDE DEF Last
  <2>4. QED
    BY <2>2, <2>3
<1>4. ASSUME NEW i \in DOMAIN v, Out(i), i > 1 PROVE i - 1 \in DOMAIN v /\ w[i] = w[i - 1]
  <2>1. i - 1 \in DOMAIN v /\ i \in Nat /\ i - 1 \in Nat
    BY <1>1, <1>4
  <2>2. \A j : Last(i, j) <=> Last(i - 1, j)
    BY <1>1, <1>4
  <2>3. (\E j \in 1..i : ~Out(j)) <=> (\E j \in 1..(i - 1) : ~Out(j))
    BY <1>1, <1>4
  <2>4. ASSUME \E j \in 1..i : ~Out(j) PROVE \E j : Last(i, j)
    <3> DEFINE S == {j \in 1..i : ~Out(j)}
    <3>1. S \in SUBSET Nat /\ S # {} /\ \A s \in S : s <= i
      BY <2>4
    <3> HIDE DEF S
    <3>2. PICK m \in S : \A s \in S : s <= m
      BY <3>1, <2>1, GreatestNatural
    <3>3. Last(i, m)
      BY <3>2 DEF S
    <3>4. QED
      BY <3>3
  <2> HIDE DEF Last
  <2>5. CASE \E j \in 1..i : ~Out(j)
    <3>1. Last(i, CHOOSE j : Last(i, j)) /\ Last(i - 1, CHOOSE j : Last(i - 1, j))
      BY <2>2, <2>4, <2>5
    <3>2. (CHOOSE j : Last(i, j)) = (CHOOSE j : Last(i - 1, j))
      BY <3>1, <2>1, <2>2, <1>2
    <3>3. w[i] = v[CHOOSE j : Last(i, j)]
      BY <2>5
    <3>4. w[i - 1] = v[CHOOSE j : Last(i - 1, j)]
      BY <2>1, <2>3, <2>5
    <3> HIDE DEF w
    <3>5. QED
      BY <3>2, <3>3, <3>4, <2>1
  <2>6. CASE ~\E j \in 1..i : ~Out(j)
    <3> HIDE DEF Base
    <3>1. w[i] = Base /\ w[i - 1] = Base
      BY <2>1, <2>3, <2>6
    <3>2. QED
      BY <3>1, <2>1
  <2> HIDE DEF w
  <2>7. QED
    BY <2>1, <2>5, <2>6
<1>5. ASSUME NEW i \in DOMAIN v, Out(i), ~(i > 1) PROVE w[i] = Base
  <2>1. i = 1
    BY <1>1, <1>5
  <2>2. ~\E j \in 1..i : ~Out(j)
    BY <1>5, <2>1
  <2> HIDE DEF Last, Base
  <2>3. QED
    BY <2>2
<1>6. Recurs(w)
  <2> DEFINE u == [i \in DOMAIN v |-> IF ~Out(i) THEN v[i]
                                      ELSE IF i > 1 THEN w[i - 1] ELSE Base]
  <2>1. ASSUME NEW i \in DOMAIN v PROVE w[i] = u[i]
    <3> HIDE DEF w, Base
    <3>1. QED
      BY <1>3, <1>4, <1>5
  <2>2. w = u
    BY <2>1
  <2>3. QED
    BY <2>2
<1>7. Recurs(CHOOSE f : Recurs(f))
  <2> HIDE DEF Recurs, w
  <2>1. QED
    BY <1>6
<1>8. RemoveOutliers(v, o) = CHOOSE f : Recurs(f)
  BY DEF RemoveOutliers, Out
<1>9. QED
  BY <1>7, <1>8 DEF Out

\* Every sample of the result is one of the series, and an outlier among them
\* means that the series begins with outliers: that far, and at least two of them.
LEMMA RemovalReplaces ==
    ASSUME NEW v \in Seq(Nat), NEW o
    PROVE  /\ DOMAIN RemoveOutliers(v, o) = DOMAIN v
           /\ \A i \in DOMAIN v :
                 /\ \E j \in DOMAIN v : RemoveOutliers(v, o)[i] = v[j]
                 /\ IsOutlier(v, RemoveOutliers(v, o)[i], o) =>
                       \A j \in DOMAIN v : j <= i \/ j = 2 => IsOutlier(v, v[j], o)
<1> DEFINE f == RemoveOutliers(v, o)
           Out(x) == IsOutlier(v, x, o)
           Base == IF Len(v) > 1 THEN v[2] ELSE v[1]
           Good(i) == /\ \E j \in DOMAIN v : f[i] = v[j]
                      /\ \/ ~Out(f[i])
                         \/ f[i] = Base /\ \A j \in 1..i : Out(v[j])
           T == {n \in Nat : n \in DOMAIN v /\ ~Good(n)}
<1>1. DOMAIN v = 1..Len(v) /\ Len(v) \in Nat
  OBVIOUS
<1>2. f = [i \in DOMAIN v |-> IF ~Out(v[i]) THEN v[i] ELSE IF i > 1 THEN f[i - 1] ELSE Base]
  BY RemovalRecurs
<1> HIDE DEF f, Out
<1>3. DOMAIN f = DOMAIN v
  BY <1>2
<1>4. ASSUME NEW i \in DOMAIN v
      PROVE  f[i] = IF ~Out(v[i]) THEN v[i] ELSE IF i > 1 THEN f[i - 1] ELSE Base
  BY <1>2
<1>5. T \in SUBSET Nat
  OBVIOUS
<1>6. T = {}
  <2>1. SUFFICES ASSUME T # {} PROVE FALSE
    OBVIOUS
  <2>2. PICK n \in T : \A m \in T : n <= m
    <3> HIDE DEF T
    <3>1. QED
      BY <2>1, <1>5, LeastNatural
  <2>3. n \in Nat /\ n \in DOMAIN v /\ ~Good(n)
    BY <2>2
  <2>4. CASE ~Out(v[n])
    <3>1. f[n] = v[n]
      BY <2>3, <2>4, <1>4
    <3>2. QED
      BY <2>3, <2>4, <3>1
  <2>5. CASE Out(v[n]) /\ n > 1
    <3>1. f[n] = f[n - 1]
      BY <2>3, <2>5, <1>4
    <3>2. n - 1 \in Nat /\ n - 1 \in DOMAIN v /\ ~(n <= n - 1)
      BY <2>3, <2>5, <1>1
    <3>3. Good(n - 1)
      <4> HIDE DEF Good
      <4>1. QED
        BY <2>2, <3>2
    <3>4. \A j \in 1..n : j = n \/ j \in 1..(n - 1)
      BY <2>3
    <3> HIDE DEF Base
    <3>5. QED
      BY <2>3, <2>5, <3>1, <3>3, <3>4
  <2>6. CASE Out(v[n]) /\ ~(n > 1)
    <3>1. n = 1
      BY <2>3, <2>6, <1>1
    <3>2. f[n] = Base
      BY <2>3, <2>6, <1>4
    <3>3. \E j \in DOMAIN v : Base = v[j]
      <4>1. CASE Len(v) > 1
        BY <4>1, <1>1
      <4>2. CASE ~(Len(v) > 1)
        BY <4>2, <2>3, <3>1
      <4>3. QED
        BY <4>1, <4>2
    <3>4. \A j \in 1..n : Out(v[j])
      BY <3>1, <2>6
    <3> HIDE DEF Base
    <3>5. QED
      BY <2>3, <3>2, <3>3, <3>4
  <2>7. QED
    BY <2>4, <2>5, <2>6
<1>7. ASSUME NEW i \in DOMAIN v PROVE Good(i)
  <2>1. i \in Nat
    BY <1>1
  <2> HIDE DEF Good
  <2>2. QED
    BY <2>1, <1>6
<1>8. ASSUME NEW i \in DOMAIN v, Out(f[i]), NEW j \in DOMAIN v, j <= i \/ j = 2
      PROVE  Out(v[j])
  <2>1. f[i] = Base /\ \A k \in 1..i : Out(v[k])
    BY <1>7, <1>8
  <2>2. CASE j <= i
    BY <2>1, <2>2, <1>1
  <2>3. CASE j = 2
    <3>1. Base = v[2]
      BY <1>1, <2>3
    <3> HIDE DEF Base
    <3>2. QED
      BY <2>1, <2>3, <3>1, <1>8
  <2>4. QED
    BY <1>8, <2>2, <2>3
<1>9. \A i \in DOMAIN v : \E j \in DOMAIN v : f[i] = v[j]
  BY <1>7
<1>10. QED
  BY <1>3, <1>8, <1>9 DEF f, Out

\* Until it is processed the series is the one that was handed over, and its
\* samples always come from that one.
SeriesInv ==
    /\ input \in Inputs
    /\ stage = "extracted" => values = input.values
    /\ values \in Seq(Nat)
    /\ DOMAIN values = DOMAIN input.values
    /\ \A i \in DOMAIN values : \E j \in DOMAIN values : values[i] = input.values[j]

LEMMA RemovalHelps ==
    /\ values \in Seq(Nat) /\ values = input.values /\ input' = input
    /\ values' = RemoveOutliers(values, input.outliers)
    => OutliersGoAway'
<1> SUFFICES ASSUME values \in Seq(Nat), values = input.values, input' = input,
                    values' = RemoveOutliers(values, input.outliers)
             PROVE  OutliersGoAway'
  OBVIOUS
<1> DEFINE v == input.values  o == input.outliers  f == RemoveOutliers(v, o)
<1>1. /\ DOMAIN f = DOMAIN v
      /\ \A i \in DOMAIN v : IsOutlier(v, f[i], o) =>
            \A j \in DOMAIN v : j <= i \/ j = 2 => IsOutlier(v, v[j], o)
  BY RemovalReplaces
<1>2. values' = f
  OBVIOUS
<1> HIDE DEF f
<1>3. \A i \in DOMAIN values' : IsOutlier(v, values'[i], o) =>
         \A j \in DOMAIN values' : j <= i \/ j = 2 => IsOutlier(v, v[j], o)
  BY <1>1, <1>2
<1>4. QED
  BY <1>3 DEF OutliersGoAway

LEMMA SeriesProcessed ==
    ASSUME SeriesInv, Process
    PROVE  SeriesInv' /\ OutliersGoAway'
<1>1. /\ input \in Inputs /\ input' = input /\ stage' # "extracted"
      /\ values = input.values /\ values \in Seq(Nat)
  BY DEF SeriesInv, Process
<1>2. CASE values' = values
  <2>1. SeriesInv'
    BY <1>1, <1>2 DEF SeriesInv
  <2>2. CASE values = <<>>
    BY <1>2, <2>1, <2>2 DEF OutliersGoAway
  <2>3. CASE values # <<>> /\ (stage' = "panic" \/ input.outliers = <<>>)
    BY <1>1, <2>1, <2>3 DEF OutliersGoAway
  <2>4. CASE values' = RemoveOutliers(values, input.outliers)
    <3>1. OutliersGoAway'
      BY <1>1, <2>4, RemovalHelps
    <3>2. QED
      BY <2>1, <3>1
  <2>5. QED
    BY <1>2, <2>1, <2>2, <2>3, <2>4 DEF Process
<1>3. CASE values' = RemoveOutliers(values, input.outliers)
  <2> DEFINE f == RemoveOutliers(values, input.outliers)
  <2>1. DOMAIN f = DOMAIN values /\ \A i \in DOMAIN values : \E j \in DOMAIN values : f[i] = values[j]
    BY <1>1, RemovalReplaces
  <2>2. f \in Seq(Nat)
    <3>1. f = [i \in DOMAIN values |-> f[i]]
      BY <1>1, RemovalRecurs
    <3>2. DOMAIN values = 1..Len(values) /\ Len(values) \in Nat
      BY <1>1
    <3>3. \A i \in DOMAIN values : f[i] \in Nat
      <4>1. \A i \in DOMAIN values : values[i] \in Nat
        BY <1>1
      <4> HIDE DEF f
      <4>2. QED
        BY <2>1, <4>1
    <3> HIDE DEF f
    <3>4. QED
      BY <3>1, <3>2, <3>3
  <2>3. OutliersGoAway'
    BY <1>1, <1>3, RemovalHelps
  <2> HIDE DEF f
  <2>4. values' = f
    BY <1>3 DEF f
  <2>5. SeriesInv'
    BY <1>1, <2>1, <2>2, <2>4 DEF SeriesInv
  <2>6. QED
    BY <2>3, <2>5
<1>4. QED
  BY <1>2, <1>3 DEF Process

LEMMA SeriesInit == Init => SeriesInv /\ OutliersGoAway
  BY InputsAssumption DEF Init, SeriesInv, OutliersGoAway

LEMMA SeriesKept ==
    ASSUME SeriesInv, OutliersGoAway, input' = input, values' = values,
           stage = "extracted" <=> stage' = "extracted",
           stage = "panic" <=> stage' = "panic"
    PROVE  SeriesInv' /\ OutliersGoAway'
  BY DEF SeriesInv, OutliersGoAway

LEMMA SeriesStep == SeriesInv /\ OutliersGoAway /\ [Next]_vars => SeriesInv' /\ OutliersGoAway'
<1> SUFFICES ASSUME SeriesInv, OutliersGoAway, [Next]_vars
             PROVE  SeriesInv' /\ OutliersGoAway'
  OBVIOUS
<1>1. CASE Process
  BY <1>1, SeriesProcessed
<1>2. CASE ~Process
  <2>1. /\ input' = input /\ values' = values
        /\ stage = "extracted" <=> stage' = "extracted"
        /\ stage = "panic" <=> stage' = "panic"
    BY <1>2 DEF Next, DetectPeaks, FilterPeak, Predict, vars
  <2>2. QED
    BY <2>1, SeriesKept
<1>3. QED
  BY <1>1, <1>2

\* Whatever the series and the thresholds, removeOutliers leaves no outlier but in
\* a run of two or more at the very beginning: its recursion reads the result,
\* not the series, and its first value is taken from the series as it is.
THEOREM OutliersAreRemoved == Spec => []OutliersGoAway
  BY SeriesInit, SeriesStep, PTL DEF Spec

-----------------------------------------------------------------------------
(* The forecast. *)

LEMMA MarginRises ==
    ASSUME NEW a \in Nat, NEW b \in Nat, a <= b
    PROVE  WithMargin(a) \in Nat /\ a <= WithMargin(a) /\ WithMargin(a) <= WithMargin(b)
<1> DEFINE m == 100 + MarginPercent
<1>1. m \in Nat /\ m >= 100
  BY MarginAssumption
<1> HIDE DEF m
<1>2. a * m \in Nat /\ b * m \in Nat
  BY <1>1
<1>3. a * 100 <= a * m
  BY <1>1
<1>4. a * m <= b * m
  BY <1>1
<1>5. \A x \in Nat, y \in Nat : x <= y => x \div 100 \in Nat /\ x \div 100 <= y \div 100
  OBVIOUS
<1>6. (a * 100) \div 100 = a
  OBVIOUS
<1>7. WithMargin(a) = (a * m) \div 100 /\ WithMargin(b) = (b * m) \div 100
  BY DEF WithMargin, m
<1>8. a * 100 \in Nat
  OBVIOUS
<1>9. a <= (a * m) \div 100
  BY <1>2, <1>3, <1>5, <1>6, <1>8
<1>10. (a * m) \div 100 \in Nat /\ (a * m) \div 100 <= (b * m) \div 100
  BY <1>2, <1>4, <1>5
<1>11. QED
  BY <1>7, <1>9, <1>10

\* The position of a sample within its period.
LEMMA PositionInPeriod ==
    ASSUME NEW s \in Nat, NEW i \in Nat, s # 0
    PROVE  i % s \in 0..(s - 1) /\ (i < s => i % s = i)
  OBVIOUS

LEMMA PeriodIsNatural ==
    ASSUME input \in Inputs, values \in Seq(Nat)
    PROVE  PeriodOrDay \in Nat /\ SamplesPerPeriod(PeriodOrDay) \in Nat
<1>1. N \in Nat /\ input.interval \in Nat /\ input.interval # 0
  BY InputsAssumption DEF N
<1>2. \A x \in Nat, y \in Nat : y # 0 => x \div y \in Nat
  OBVIOUS
<1>3. DetectPeriod \in Nat
  <2>1. \A candidates : candidates \subseteq findCandidatePeriods
           => selectPeriodWithACF(candidates) \in Nat
    <3>1. SUFFICES ASSUME NEW candidates, candidates \subseteq findCandidatePeriods
                   PROVE  selectPeriodWithACF(candidates) \in Nat
      OBVIOUS
    <3>2. \A k \in candidates : k \in Nat /\ k # 0
      <4>1. SUFFICES ASSUME NEW k \in candidates
                     PROVE  k \in Nat /\ k # 0
        OBVIOUS
      <4>2. k \in DOMAIN input.amplitude /\ k >= 2
        BY <3>1 DEF findCandidatePeriods
      <4>3. DOMAIN input.amplitude = 0..(Len(input.values) - 1)
        BY InputsAssumption
      <4>4. Len(input.values) \in Nat
        BY <1>1 DEF N
      <4>5. \A n \in Nat : \A j \in 0..(n - 1) : j >= 2 => j \in Nat /\ j # 0
        OBVIOUS
      <4>6. QED
        BY <4>2, <4>3, <4>4, <4>5
    <3>3. \A k \in candidates : (N \div k) * input.interval \in Nat
      BY <3>2, <1>1, <1>2
    <3>4. \A S : S \subseteq candidates /\ S # {} => (CHOOSE k \in S : TRUE) \in candidates
      OBVIOUS
    <3>5. QED
      BY <3>3, <3>4 DEF selectPeriodWithACF
  <2>2. QED
    BY <2>1 DEF DetectPeriod
<1>4. PeriodOrDay \in Nat
  BY <1>3 DEF PeriodOrDay, Day
<1>5. QED
  BY <1>1, <1>2, <1>4 DEF SamplesPerPeriod

\* What PredictMaxValue makes of a position: no less than the margin on top of
\* every sample there, and one of them with it; or zero.
LEMMA PositionForecast ==
    ASSUME values \in Seq(Nat), values # <<>>, NEW p, SamplesPerPeriod(p) \in Nat,
           NEW position \in 1..SamplesPerPeriod(p)
    PROVE  LET group == Group(p, position - 1)
               f     == PredictMaxValue(p)[position]
           IN /\ f \in Nat
              /\ \A v \in group : v \in Nat /\ WithMargin(v) <= f
              /\ group = {} => f = 0
              /\ group # {} => \E v \in group : f = WithMargin(v)
<1> DEFINE group == Group(p, position - 1)
           f     == PredictMaxValue(p)[position]
           Max   == CHOOSE v \in group : \A x \in group : x <= v
<1>1. f = IF group = {} THEN 0 ELSE WithMargin(Max)
  <2>1. N # 0
    BY DEF N
  <2>2. QED
    BY <2>1 DEF PredictMaxValue
<1>2. \A v \in group : \E i \in DOMAIN values : v = values[i]
  BY DEF Group
<1>3. group \in SUBSET Nat
  BY <1>2
<1>4. CASE group # {}
  <2>1. PICK b \in Nat : \A i \in DOMAIN values : values[i] <= b
    BY SequenceBounded
  <2>2. \A v \in group : v <= b
    BY <1>2, <2>1
  <2> HIDE DEF group, f
  <2>3. \E m \in group : \A x \in group : x <= m
    BY <1>3, <1>4, <2>2, GreatestNatural
  <2>4. Max \in group /\ \A x \in group : x <= Max
    BY <2>3
  <2>5. f = WithMargin(Max)
    BY <1>1, <1>4
  <2> HIDE DEF Max
  <2>6. WithMargin(Max) \in Nat
    BY <1>3, <2>4, MarginRises
  <2>7. \A v \in group : v \in Nat /\ WithMargin(v) <= WithMargin(Max)
    BY <1>3, <2>4, MarginRises
  <2>8. QED
    BY <2>4, <2>5, <2>6, <2>7, <1>4 DEF group, f
<1>5. CASE group = {}
  BY <1>1, <1>5
<1>6. QED
  BY <1>4, <1>5

LEMMA ForecastIsSequence ==
    ASSUME values \in Seq(Nat), values # <<>>, NEW p, SamplesPerPeriod(p) \in Nat
    PROVE  /\ PredictMaxValue(p) \in Seq(Nat)
           /\ Len(PredictMaxValue(p)) = SamplesPerPeriod(p)
           /\ DOMAIN PredictMaxValue(p) = 1..SamplesPerPeriod(p)
<1> DEFINE f == PredictMaxValue(p)  s == SamplesPerPeriod(p)
<1>1. N # 0
  BY DEF N
<1>2. f = [position \in 1..s |-> f[position]]
  BY <1>1 DEF PredictMaxValue
<1>3. \A position \in 1..s : f[position] \in Nat
  BY PositionForecast
<1>4. s \in Nat
  OBVIOUS
<1> HIDE DEF f, s
<1>5. f \in Seq(Nat) /\ Len(f) = s /\ DOMAIN f = 1..s
  <2>1. f \in [1..s -> Nat] /\ DOMAIN f = 1..s
    BY <1>2, <1>3
  <2>2. QED
    BY <1>4, <2>1
<1>6. QED
  BY <1>5 DEF f, s

\* Limits are the largest sample of a forecast.
LEMMA LimitsAreLargest ==
    ASSUME NEW f \in Seq(Nat), f # <<>>
    PROVE  /\ \A i \in DOMAIN f : f[i] <= predictResource(f)["limits"]
           /\ \E i \in DOMAIN f : f[i] = predictResource(f)["limits"]
<1> DEFINE S == {f[i] : i \in DOMAIN f}
           Largest(v) == \A i \in DOMAIN f : f[i] <= v
<1>1. PICK b \in Nat : \A i \in DOMAIN f : f[i] <= b
  BY SequenceBounded
<1>2. S \in SUBSET Nat /\ S # {} /\ \A x \in S : x <= b
  BY <1>1
<1>3. \E m \in S : \A x \in S : x <= m
  <2> HIDE DEF S
  <2>1. QED
    BY <1>2, GreatestNatural
<1>4. \E m \in S : Largest(m)
  BY <1>3
<1>5. predictResource(f)["limits"] = CHOOSE v \in S : Largest(v)
  BY DEF predictResource
<1> HIDE DEF Largest
<1>6. predictResource(f)["limits"] \in S /\ Largest(predictResource(f)["limits"])
  BY <1>4, <1>5
<1>7. QED
  BY <1>6 DEF Largest

LEMMA MaxValueCovers ==
    ASSUME values \in Seq(Nat), values # <<>>, NEW p, SamplesPerPeriod(p) \in Nat,
           PredictMaxValue(p) # <<>>
    PROVE  LET f == PredictMaxValue(p)
           IN /\ \A i \in DOMAIN values :
                    LET position == ((i - 1) % Len(f)) + 1
                    IN /\ values[i] <= f[position]
                       /\ WithMargin(values[i]) <= predictResource(f)["limits"]
              /\ \A position \in DOMAIN f :
                    f[position] = 0 =>
                        position > N \/ \E i \in DOMAIN values : values[i] = 0
<1> DEFINE f == PredictMaxValue(p)  s == SamplesPerPeriod(p)
           limits == predictResource(f)["limits"]
<1>1. f \in Seq(Nat) /\ Len(f) = s /\ DOMAIN f = 1..s
  BY ForecastIsSequence
<1>2. \A i \in DOMAIN f : f[i] <= limits
  BY <1>1, LimitsAreLargest
<1>3. limits \in Nat
  BY <1>1, LimitsAreLargest
<1>4. DOMAIN values = 1..N /\ N \in Nat /\ \A i \in 1..N : values[i] \in Nat
  BY DEF N
<1>5. ASSUME NEW position \in 1..s, NEW v \in Group(p, position - 1)
      PROVE  v \in Nat /\ v <= f[position] /\ WithMargin(v) <= f[position] /\ f[position] \in Nat
  <2>1. v \in Nat /\ WithMargin(v) <= f[position] /\ f[position] \in Nat
    BY <1>5, PositionForecast
  <2>2. v <= WithMargin(v) /\ WithMargin(v) \in Nat
    BY <2>1, MarginRises
  <2> HIDE DEF f
  <2>3. QED
    BY <2>1, <2>2
<1> HIDE DEF f, limits
<1>6. s \in Nat /\ s # 0
  <2>1. f # <<>>
    BY DEF f
  <2>2. QED
    BY <1>1, <2>1
<1>7. ASSUME NEW i \in DOMAIN values
      PROVE  /\ ((i - 1) % s) + 1 \in 1..s
             /\ values[i] \in Group(p, (((i - 1) % s) + 1) - 1)
             /\ i <= s => (i - 1) % s = i - 1
  <2>1. i - 1 \in Nat
    BY <1>4
  <2>2. (i - 1) % s \in 0..(s - 1) /\ (i - 1 < s => (i - 1) % s = i - 1)
    BY <2>1, <1>6, PositionInPeriod
  <2>3. ((i - 1) % s) + 1 \in 1..s /\ (((i - 1) % s) + 1) - 1 = (i - 1) % s
    BY <2>2, <1>6
  <2>4. values[i] \in Group(p, (i - 1) % s)
    BY DEF Group
  <2>5. i <= s => (i - 1) % s = i - 1
    BY <2>1, <2>2, <1>6
  <2> HIDE DEF s
  <2>6. QED
    BY <2>3, <2>4, <2>5
<1> HIDE DEF s
<1>8. ASSUME NEW i \in DOMAIN values
      PROVE  /\ values[i] <= f[((i - 1) % Len(f)) + 1]
             /\ WithMargin(values[i]) <= limits
  <2>1. PICK position \in 1..s : position = ((i - 1) % s) + 1
    BY <1>7
  <2>2. /\ values[i] \in Nat /\ values[i] <= f[position] /\ f[position] \in Nat
        /\ WithMargin(values[i]) <= f[position]
    BY <1>5, <1>7, <2>1
  <2>3. f[position] <= limits /\ WithMargin(values[i]) \in Nat
    BY <1>1, <1>2, <2>2, MarginRises
  <2>4. WithMargin(values[i]) <= limits
    BY <1>3, <2>2, <2>3
  <2>5. QED
    BY <1>1, <2>1, <2>2, <2>4
<1>9. ASSUME NEW position \in DOMAIN f, f[position] = 0
      PROVE  position > N \/ \E i \in DOMAIN values : values[i] = 0
  <2>1. position \in 1..s
    BY <1>1
  <2>2. SUFFICES ASSUME ~(position > N) PROVE values[position] = 0 /\ position \in DOMAIN values
    OBVIOUS
  <2>3. position \in DOMAIN values
    BY <1>4, <1>6, <2>1, <2>2
  <2>4. values[position] \in Group(p, position - 1)
    <3>1. (position - 1) % s = position - 1
      BY <1>7, <2>1, <2>3, <1>6
    <3>2. QED
      BY <2>3, <3>1 DEF Group, s
  <2>5. values[position] \in Nat /\ values[position] <= f[position]
    BY <1>5, <2>1, <2>4
  <2>6. QED
    BY <1>9, <2>3, <2>5
<1>10. QED
  BY <1>8, <1>9 DEF f, limits

LEMMA ForecastStep ==
    SeriesInv /\ ForecastCovers /\ [Next]_vars => ForecastCovers'
<1> SUFFICES ASSUME SeriesInv, ForecastCovers, [Next]_vars,
                    stage' = "predicted", input'.method = "maxValue", forecast' # <<>>
             PROVE  ForecastCovers'
  BY DEF ForecastCovers
<1>1. CASE Predict
  <2>1. /\ values # <<>> /\ values' = values /\ input' = input
        /\ forecast' = PredictMaxValue(PeriodOrDay)
        /\ prediction' = predictResource(forecast')
    BY <1>1 DEF Predict
  <2>2. values \in Seq(Nat) /\ SamplesPerPeriod(PeriodOrDay) \in Nat
    BY PeriodIsNatural DEF SeriesInv
  <2>3. /\ \A i \in DOMAIN values :
              /\ values[i] <= forecast'[((i - 1) % Len(forecast')) + 1]
              /\ WithMargin(values[i]) <= prediction'["limits"]
        /\ \A position \in DOMAIN forecast' :
              forecast'[position] = 0 =>
                  position > N \/ \E i \in DOMAIN values : values[i] = 0
    BY <2>1, <2>2, MaxValueCovers
  <2>4. QED
    BY <2>1, <2>3 DEF ForecastCovers, N, WithMargin
<1>2. CASE ~Predict
  <2>1. /\ stage = "predicted" /\ values' = values /\ input' = input
        /\ forecast' = forecast /\ prediction' = prediction
    BY <1>2 DEF Next, Process, DetectPeaks, FilterPeak, vars
  <2>2. QED
    BY <2>1 DEF ForecastCovers, N, WithMargin
<1>3. QED
  BY <1>1, <1>2

\* For every series, margin and period the forecast of maxValue covers what has
\* been seen, limits cover it with the margin on top, and a request of zero needs
\* a zero in the series or a position beyond its end.
THEOREM ForecastsCover == Spec => []ForecastCovers
<1>1. Init => ForecastCovers
  BY DEF Init, ForecastCovers
<1>2. QED
  BY <1>1, SeriesInit, SeriesStep, ForecastStep, PTL DEF Spec

-----------------------------------------------------------------------------
(* What Recommender takes for granted. *)

\* The week of hourly samples that calculateForContainer builds, of one value.
Week(c) == [i \in 1..R!SeriesLength |-> c]

HoldsWeek(c) ==
    values \in Seq(Nat) /\ DOMAIN values = 1..168 /\ \A i \in DOMAIN values : values[i] = c

LEMMA WeekForecast ==
    ASSUME NEW c \in Nat, HoldsWeek(c), input.interval = 60
    PROVE  /\ PredictMaxValue(Day) # <<>>
           /\ predictResource(PredictMaxValue(Day))["limits"] = WithMargin(c)
           /\ predictResource(PredictMaxValue(Day))["requests"] = 0
<1> DEFINE f == PredictMaxValue(Day)
           group(position) == Group(Day, position - 1)
<1>1. values \in Seq(Nat) /\ values # <<>>
  <2>1. 1 \in DOMAIN values
    BY DEF HoldsWeek
  <2>2. values \in Seq(Nat)
    BY DEF HoldsWeek
  <2>3. QED
    BY <2>1, <2>2
<1> DEFINE s == SamplesPerPeriod(Day)
<1>2. s = 1440
  BY DEF SamplesPerPeriod, Day
<1>3. s \in Nat /\ s # 0
  BY <1>2
<1>4. f \in Seq(Nat) /\ DOMAIN f = 1..s /\ Len(f) = s
  BY <1>1, <1>3, ForecastIsSequence
<1> HIDE DEF s
<1>5. f # <<>>
  <2> HIDE DEF f
  <2>1. QED
    BY <1>3, <1>4
<1>6. ASSUME NEW position \in 1..s
      PROVE  /\ f[position] \in {0, WithMargin(c)}
             /\ group(position) = {} => f[position] = 0
             /\ group(position) # {} => f[position] = WithMargin(c)
  <2>1. \A v \in group(position) : \E i \in DOMAIN values : v = values[i]
    BY DEF Group
  <2>2. \A i \in DOMAIN values : values[i] = c
    BY DEF HoldsWeek
  <2>3. /\ group(position) = {} => f[position] = 0
        /\ group(position) # {} => \E v \in group(position) : f[position] = WithMargin(v)
    BY <1>1, <1>3, PositionForecast DEF s
  <2> HIDE DEF f, group
  <2>4. QED
    BY <2>1, <2>2, <2>3
<1>7. WithMargin(c) \in Nat /\ 0 <= WithMargin(c)
  BY MarginRises
<1>8. f[1] = WithMargin(c) /\ 1 \in 1..s
  <2>1. 1 \in DOMAIN values
    BY DEF HoldsWeek
  <2>2. (1 - 1) % s = 1 - 1 /\ 1 \in 1..s
    BY <1>2
  <2>3. values[1] \in group(1)
    BY <2>1, <2>2 DEF Group, s
  <2> HIDE DEF f, group
  <2>4. QED
    BY <2>2, <2>3, <1>6
<1>9. f[1369] = 0
  <2>1. \A j \in 1..168 : (j - 1) % s # 1369 - 1
    BY <1>2
  <2>2. DOMAIN values = 1..168
    BY DEF HoldsWeek
  <2>3. group(1369) = {}
    BY <2>1, <2>2 DEF Group, s
  <2>4. 1369 \in 1..s
    BY <1>2
  <2> HIDE DEF f, group
  <2>5. QED
    BY <2>3, <2>4, <1>6
<1>10. predictResource(f)["limits"] = WithMargin(c)
  <2> DEFINE limits == predictResource(f)["limits"]
  <2>1. f \in Seq(Nat)
    BY <1>4
  <2>2. /\ \E i \in DOMAIN f : f[i] = limits
        /\ \A i \in DOMAIN f : f[i] <= limits
    BY <2>1, <1>5, LimitsAreLargest
  <2> HIDE DEF f, limits
  <2>3. DOMAIN f = 1..s
    BY <1>4
  <2>4. PICK i \in 1..s : f[i] = limits
    BY <2>2, <2>3
  <2>5. f[1] <= limits
    BY <2>2, <2>3, <1>8
  <2>6. f[i] \in {0, WithMargin(c)}
    BY <1>6
  <2>7. QED
    BY <2>4, <2>5, <2>6, <1>7, <1>8 DEF limits
<1>11. predictResource(f)["requests"] = 0
  <2>1. predictResource(f)["requests"] = f[(Len(f) * 95) \div 100 + 1]
    BY DEF predictResource
  <2> HIDE DEF f
  <2>2. (s * 95) \div 100 + 1 = 1369
    BY <1>2
  <2>3. Len(f) = s
    BY <1>4
  <2>4. QED
    BY <1>9, <2>1, <2>2, <2>3
<1>12. QED
  BY <1>5, <1>10, <1>11

\* The result of removeOutliers for samples that are all the same is as long and
\* of the same sample.
LEMMA WeekStays ==
    ASSUME SeriesInv, NEW c, input.values = Week(c)
    PROVE  HoldsWeek(c) /\ c \in Nat
<1>1. R!SeriesLength = 168
  BY DEF R!SeriesLength
<1>2. input.values = [i \in 1..168 |-> c]
  BY <1>1 DEF Week
<1>3. DOMAIN values = 1..168 /\ \A i \in 1..168 : values[i] = c
  BY <1>2 DEF SeriesInv
<1>4. \A i \in DOMAIN values : values[i] \in Nat
  BY DEF SeriesInv
<1>5. 1 \in 1..168
  OBVIOUS
<1>6. QED
  BY <1>3, <1>4, <1>5 DEF HoldsWeek, SeriesInv

LEMMA WeekPredicted ==
    ASSUME SeriesInv, Predict, OfUsage, input.interval = 60,
           input.values = Week(input.usage["requests"])
    PROVE  prediction' = R!dspPredict(input.usage, [method |-> input.method, margin |-> MarginPercent])
<1> DEFINE c == input.usage["requests"]
           profile == [method |-> input.method, margin |-> MarginPercent]
<1>1. HoldsWeek(c) /\ c \in Nat /\ c # NoQuantity
  BY WeekStays, NoQuantityAssumption
<1>2. N = 168
  <2>1. DOMAIN values = 1..N /\ N \in Nat
    BY DEF SeriesInv, N
  <2>2. DOMAIN values = 1..168
    BY <1>1 DEF HoldsWeek
  <2>3. 1..N = 1..168
    BY <2>1, <2>2
  <2>4. 168 \in 1..N
    BY <2>3
  <2>5. N \in 1..168
    <3>1. N \in 1..N
      BY <2>1, <2>4
    <3>2. QED
      BY <2>3, <3>1
  <2>6. QED
    BY <2>1, <2>4, <2>5
<1>3. PeriodOrDay = Day /\ SamplesPerPeriod(Day) = 1440
  <2>1. DetectPeriod = 0
    BY NothingSelected DEF SeriesInv
  <2>2. QED
    BY <2>1 DEF PeriodOrDay, SamplesPerPeriod, Day
<1>4. CASE input.method = "maxValue"
  <2>1. /\ forecast' = PredictMaxValue(Day)
        /\ prediction' = IF forecast' = <<>> THEN input.usage ELSE predictResource(forecast')
    BY <1>3, <1>4 DEF Predict
  <2>3. /\ PredictMaxValue(Day) # <<>>
        /\ predictResource(PredictMaxValue(Day))["limits"] = WithMargin(c)
        /\ predictResource(PredictMaxValue(Day))["requests"] = 0
    BY <1>1, <1>3, WeekForecast
  <2>4. prediction' = predictResource(PredictMaxValue(Day))
    BY <2>1, <2>3
  <2>5. R!dspPredict(input.usage, profile) =
           [s \in {"requests", "limits"} |-> IF s = "requests" THEN 0 ELSE WithMargin(c)]
    BY <1>1, <1>4 DEF R!SeriesLength, R!dspPredict, R!PredictMaxValue, R!Sections, R!SamplesPerPeriod, WithMargin
  <2>6. predictResource(PredictMaxValue(Day)) =
           [s \in {"requests", "limits"} |-> predictResource(PredictMaxValue(Day))[s]]
    BY DEF predictResource
  <2>7. QED
    BY <2>3, <2>4, <2>5, <2>6
<1>5. CASE input.method # "maxValue"
  <2>1. prediction' = input.usage
    BY <1>2, <1>3, <1>5 DEF Predict, PredictFFT
  <2>2. QED
    BY <2>1, <1>1, <1>5 DEF R!dspPredict
<1>6. QED
  BY <1>4, <1>5

LEMMA AgreementStep ==
    SeriesInv /\ RecommenderAgrees /\ [Next]_vars => RecommenderAgrees'
<1> SUFFICES ASSUME SeriesInv, RecommenderAgrees, [Next]_vars, stage' = "predicted"
             PROVE  RecommenderAgrees'
  BY DEF RecommenderAgrees
<1> DEFINE Agrees == OfUsage /\ input.interval = 60 /\ input.values = Week(input.usage["requests"])
           Said == R!dspPredict(input.usage, [method |-> input.method, margin |-> MarginPercent])
<1>1. input' = input
  BY DEF Next, Process, DetectPeaks, FilterPeak, Predict, vars
<1>2. OfUsage' <=> OfUsage
  BY <1>1 DEF OfUsage
<1>3. (OfUsage => period' = 0) /\ (Agrees => prediction' = Said)
  <2>1. CASE Predict
    <3>1. OfUsage => period' = 0
      BY <2>1, NothingSelected DEF Predict, SeriesInv
    <3>2. QED
      BY <2>1, <3>1, WeekPredicted
  <2>2. CASE ~Predict
    <3>1. stage = "predicted" /\ period' = period /\ prediction' = prediction
      BY <2>2 DEF Next, Process, DetectPeaks, FilterPeak, vars
    <3>2. QED
      BY <3>1 DEF RecommenderAgrees, UsageHasNoPeriod, Week
  <2>3. QED
    BY <2>1, <2>2
<1>4. QED
  BY <1>1, <1>2, <1>3 DEF RecommenderAgrees, UsageHasNoPeriod, Week

\* For every usage and margin: what Recommender's dspPredict says without series,
\* spectrum and search for a period is what the steps of this module lead to.
THEOREM RecommenderIsRight == Spec => []RecommenderAgrees
<1>1. Init => RecommenderAgrees
  BY DEF Init, RecommenderAgrees
<1>2. QED
  BY <1>1, SeriesInit, SeriesStep, AgreementStep, PTL DEF Spec

=============================================================================
