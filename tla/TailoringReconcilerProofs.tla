---------------------- MODULE TailoringReconcilerProofs ----------------------
(***************************************************************************)
(* Theorems about the recommendation engine (Recommender), for all usages, *)
(* resources, parameters, rails and quotas, and about the Tailoring        *)
(* controller that extends it, whatever the users do.                      *)
(***************************************************************************)
EXTENDS TailoringReconciler, SequenceTheorems, TLAPS

-----------------------------------------------------------------------------
(* An object as the sequence of its versions that the informer has still to
   deliver: what a write, a delivery and a restart do to it. *)

LEMMA VersionsEnds ==
    ASSUME NEW S, NEW v \in Seq(S), v # <<>>
    PROVE  Head(v) \in S /\ v[Len(v)] \in S /\ Len(v) \in Nat \ {0}
  OBVIOUS

LEMMA VersionsAppend ==
    ASSUME NEW S, NEW v \in Seq(S), NEW t \in S
    PROVE  /\ Append(v, t) \in Seq(S) /\ Append(v, t) # <<>>
           /\ Append(v, t)[Len(Append(v, t))] = t
           /\ Len(Append(v, t)) = Len(v) + 1
           /\ \A i \in 1 .. Len(Append(v, t)) :
                 Append(v, t)[i] = t \/ \E j \in 1 .. Len(v) : Append(v, t)[i] = v[j]
  OBVIOUS

LEMMA VersionsTail ==
    ASSUME NEW S, NEW v \in Seq(S), Len(v) > 1
    PROVE  /\ Tail(v) \in Seq(S) /\ Tail(v) # <<>>
           /\ Tail(v)[Len(Tail(v))] = v[Len(v)]
           /\ \A i \in 1 .. Len(Tail(v)) : Tail(v)[i] = v[i + 1] /\ i + 1 \in 1 .. Len(v)
<1> DEFINE t == Tail(v) n == Len(v)
<1>1. /\ t \in Seq(S) /\ Len(t) = n - 1
      /\ \A i \in 1 .. Len(t) : t[i] = v[i + 1]
  BY HeadTailProperties
<1>2. n \in Nat /\ n > 1 /\ Len(<<>>) = 0
  OBVIOUS
<1> HIDE DEF t
<1>3. t # <<>> /\ Len(t) \in 1 .. Len(t)
  BY <1>1, <1>2
<1>4. t[Len(t)] = v[n]
  BY <1>1, <1>2, <1>3
<1>5. \A i \in 1 .. Len(t) : t[i] = v[i + 1] /\ i + 1 \in 1 .. n
  BY <1>1, <1>2
<1>6. QED
  BY <1>1, <1>3, <1>4, <1>5 DEF t

LEMMA VersionsOne ==
    ASSUME NEW S, NEW t \in S
    PROVE  <<t>> \in Seq(S) /\ <<t>> # <<>> /\ Len(<<t>>) = 1 /\ <<t>>[1] = t
  OBVIOUS
-----------------------------------------------------------------------------
(* The recommendation engine: arithmetic. *)

LEMMA ProductType == ASSUME NEW a \in Nat, NEW b \in Nat PROVE a * b \in Nat
  OBVIOUS

LEMMA ProductMonotone ==
    ASSUME NEW a \in Nat, NEW b \in Nat, NEW c \in Nat, a <= b
    PROVE  a * c <= b * c
<1>1. PICK d \in Nat : b = a + d
  <2>1. b - a \in Nat /\ b = a + (b - a)
    OBVIOUS
  <2>2. QED
    BY <2>1
<1>2. b * c = a * c + d * c
  BY <1>1
<1>3. d * c \in Nat /\ a * c \in Nat
  BY ProductType
<1>4. QED
  BY <1>2, <1>3

LEMMA PercentType ==
    ASSUME NEW n \in Nat PROVE n \div 100 \in Nat /\ (n \div 100) * 100 <= n
                               /\ n < (n \div 100) * 100 + 100
  OBVIOUS

LEMMA PercentMonotone ==
    ASSUME NEW m \in Nat, NEW n \in Nat, m <= n PROVE m \div 100 <= n \div 100
  OBVIOUS

-----------------------------------------------------------------------------
(* The types of its operators. *)

LEMMA BufferType ==
    ASSUME NEW q \in Quantity, NEW b \in Nat
    PROVE  /\ applyBuffer(q, b) \in Quantity
           /\ applyBuffer(q, b) = NoQuantity <=> q = NoQuantity
<1>1. CASE q = NoQuantity
  BY <1>1 DEF applyBuffer, Quantity
<1>2. CASE q # NoQuantity
  <2>1. q \in Nat /\ 100 + b \in Nat
    BY <1>2 DEF Quantity
  <2>2. q * (100 + b) \in Nat
    BY <2>1, ProductType
  <2>3. (q * (100 + b)) \div 100 \in Nat
    BY <2>2, PercentType
  <2>4. QED
    BY <1>2, <2>3, NoQuantityAssumption DEF applyBuffer, Quantity
<1>3. QED
  BY <1>1, <1>2

\* The change that applyGradualChange lets through: at most m percent of what
\* the container has now, rounded down.
LEMMA GradualFacts ==
    ASSUME NEW r \in Nat, NEW c \in Nat \ {0}, NEW m \in Nat, m < 100
    PROVE  LET g == applyGradualChange(r, c, m)
           IN  /\ g \in Nat
               /\ g * 100 <= c * (100 + m)
               /\ g * 100 + 100 > c * (100 - m)
<1> DEFINE g == applyGradualChange(r, c, m)
<1>1. c * m \in Nat /\ c * (100 + m) = 100 * c + c * m
      /\ c * (100 - m) = 100 * c - c * m
  BY ProductType
<1>2. c * (100 + m) \in Nat /\ c * (100 - m) \in Nat
  <2>1. 100 + m \in Nat /\ 100 - m \in Nat
    OBVIOUS
  <2>2. QED
    BY <2>1, ProductType
<1>3. CASE (r - c) * 100 > c * m
  <2>1. g = (c * (100 + m)) \div 100
    BY <1>3, NoQuantityAssumption DEF applyGradualChange
  <2>2. QED
    BY <1>1, <1>2, <2>1, PercentType
<1>4. CASE ~((r - c) * 100 > c * m) /\ (c - r) * 100 > c * m
  <2>1. g = (c * (100 - m)) \div 100
    BY <1>4, NoQuantityAssumption DEF applyGradualChange
  <2>2. QED
    BY <1>1, <1>2, <2>1, PercentType
<1>5. CASE ~((r - c) * 100 > c * m) /\ ~((c - r) * 100 > c * m)
  <2>1. g = r
    BY <1>5, NoQuantityAssumption DEF applyGradualChange
  <2>2. QED
    BY <1>1, <1>5, <2>1
<1>6. QED
  BY <1>3, <1>4, <1>5

LEMMA GradualType ==
    ASSUME NEW r \in Quantity, NEW c \in Quantity, NEW m \in Nat
    PROVE  /\ applyGradualChange(r, c, m) \in Quantity
           /\ applyGradualChange(r, c, m) = NoQuantity <=> r = NoQuantity
<1>1. CASE r = NoQuantity \/ c = NoQuantity \/ c = 0 \/ m >= 100
  BY <1>1 DEF applyGradualChange
<1>2. CASE r \in Nat /\ c \in Nat \ {0} /\ m < 100
  BY <1>2, GradualFacts, NoQuantityAssumption DEF Quantity
<1>3. QED
  BY <1>1, <1>2 DEF Quantity

LEMMA ClampType ==
    ASSUME NEW q \in Quantity, NEW l \in Quantity
    PROVE  /\ AtLeast(q, l) \in Quantity /\ (AtLeast(q, l) = NoQuantity <=> q = NoQuantity)
           /\ AtMost(q, l) \in Quantity /\ (AtMost(q, l) = NoQuantity <=> q = NoQuantity)
  BY DEF AtLeast, AtMost

LEMMA RailsType ==
    ASSUME NEW q \in Quantity, NEW rail \in Rail
    PROVE  /\ applySafetyRails(q, rail) \in Quantity
           /\ applySafetyRails(q, rail) = NoQuantity <=> q = NoQuantity
  BY ClampType DEF applySafetyRails, Rail

-----------------------------------------------------------------------------
(* What the percentile strategy returns. *)

Intent == [buffer : [Sections -> Nat], maxChange : Nat]

LEMMA IntentType ==
    ASSUME NEW profile \in FitProfile
    PROVE  getIntentConfigFromParameters(profile) \in Intent
<1>1. profile.buffer \in [Sections -> Quantity] /\ profile.maxChange \in Quantity
  BY DEF FitProfile, Values
<1>2. \A s \in Sections :
         OrElse(profile.buffer[s], IF s = "requests" THEN 20 ELSE 30) \in Nat
  BY <1>1 DEF OrElse, Quantity
<1>3. OrElse(profile.maxChange, 50) \in Nat
  BY <1>1 DEF OrElse, Quantity
<1>4. QED
  BY <1>2, <1>3 DEF getIntentConfigFromParameters, Intent

\* A section of the result, before the quota.
LEMMA RailedType ==
    ASSUME NEW q \in Quantity, NEW b \in Nat, NEW c \in Quantity, NEW m \in Nat,
           NEW rail \in Rail
    PROVE  applySafetyRails(applyGradualChange(applyBuffer(q, b), c, m), rail) \in Quantity
  BY BufferType, GradualType, RailsType

LEMMA PercentileSection ==
    ASSUME NEW used, NEW current, NEW intent, NEW rail, NEW quota, NEW s \in Sections
    PROVE  percentileCalculate(used, current, intent, rail, quota)[s]
             = AtMost(applySafetyRails(
                          applyGradualChange(applyBuffer(used[s], intent.buffer[s]),
                                             current[s], intent.maxChange), rail),
                      quota)
  BY DEF percentileCalculate, applyQuotaLimits

LEMMA PercentileType ==
    ASSUME NEW used \in Values, NEW current \in Values, NEW intent \in Intent,
           NEW rail \in Rail, NEW quota \in Quantity
    PROVE  percentileCalculate(used, current, intent, rail, quota) \in Values
<1> DEFINE rec == percentileCalculate(used, current, intent, rail, quota)
<1>1. rec = [s \in Sections |-> rec[s]]
  BY DEF percentileCalculate, applyQuotaLimits
<1>2. ASSUME NEW s \in Sections PROVE rec[s] \in Quantity
  <2>1. /\ used[s] \in Quantity /\ current[s] \in Quantity
        /\ intent.buffer[s] \in Nat /\ intent.maxChange \in Nat
    BY DEF Values, Intent
  <2>2. applySafetyRails(applyGradualChange(applyBuffer(used[s], intent.buffer[s]),
                                            current[s], intent.maxChange), rail) \in Quantity
    BY <2>1, RailedType
  <2>3. QED
    BY <2>2, ClampType, PercentileSection
<1> HIDE DEF rec
<1>3. QED
  BY <1>1, <1>2 DEF Values, rec

LEMMA PredictType ==
    ASSUME NEW used \in Values, NEW profile \in FitProfile
    PROVE  dspPredict(used, profile) \in Values
<1>1. CASE used["requests"] = NoQuantity
  BY <1>1 DEF dspPredict, NoValues, Values, Quantity
<1>2. CASE used["requests"] # NoQuantity /\ profile.method = "maxValue"
  <2>1. used["requests"] \in Nat /\ profile.margin \in Nat /\ 100 + profile.margin \in Nat
    BY <1>2 DEF Values, Sections, Quantity, FitProfile
  <2>2. (used["requests"] * (100 + profile.margin)) \div 100 \in Nat
    BY <2>1, ProductType, PercentType
  <2>3. ASSUME NEW i \in Int
        PROVE  PredictMaxValue(used["requests"], profile.margin, i) \in Quantity
    BY <2>2 DEF PredictMaxValue, Quantity
  <2>4. (SamplesPerPeriod * 95) \div 100 \in Int
    BY DEF SamplesPerPeriod
  <2>5. QED
    BY <1>2, <2>3, <2>4 DEF dspPredict, Values
<1>3. CASE used["requests"] # NoQuantity /\ profile.method # "maxValue"
  BY <1>3 DEF dspPredict
<1>4. QED
  BY <1>1, <1>2, <1>3

LEMMA CalculateType ==
    ASSUME NEW used \in Values, NEW current \in Values, NEW profile \in FitProfile,
           NEW rail \in Rail, NEW quota \in Quantity
    PROVE  Calculate(used, current, profile, rail, quota) \in Values
<1>1. CASE profile.strategy = "dsp"
  <2> DEFINE predicted == dspPredict(used, profile)
  <2>1. predicted \in Values /\ rail.min \in Quantity /\ rail.max \in Quantity
    BY PredictType DEF Rail
  <2> HIDE DEF predicted
  <2>2. ASSUME NEW s \in Sections
        PROVE  dspApplySafetyRails(predicted, rail)[s] \in Quantity
    BY <2>1, ClampType DEF dspApplySafetyRails, Values
  <2>3. ASSUME NEW s \in Sections
        PROVE  AtMost(dspApplySafetyRails(predicted, rail)[s], quota) \in Quantity
    BY <2>2, ClampType
  <2>4. applyQuotaLimits(dspApplySafetyRails(predicted, rail), quota) \in Values
    BY <2>3 DEF applyQuotaLimits, Values
  <2>5. QED
    BY <1>1, <2>4 DEF Calculate, dspCalculate, predicted
<1>2. CASE profile.strategy # "dsp"
  BY <1>2, IntentType, PercentileType DEF Calculate
<1>3. QED
  BY <1>1, <1>2

\* Whatever the usage, the parameters, the present resources and a minimum
\* above the maximum: no recommendation of the percentile strategy exceeds the
\* maximum of its rails or the limit of the quota (percentile.go, in the order
\* its steps are applied).
THEOREM PercentileWithinMaximum ==
    ASSUME NEW used \in Values, NEW current \in Values, NEW intent \in Intent,
           NEW rail \in Rail, NEW quota \in Quantity, NEW s \in Sections
    PROVE  LET q == percentileCalculate(used, current, intent, rail, quota)[s]
           IN  q # NoQuantity => /\ rail.max # NoQuantity => q <= rail.max
                                 /\ quota # NoQuantity => q <= quota
<1> DEFINE railed == applySafetyRails(
                         applyGradualChange(applyBuffer(used[s], intent.buffer[s]),
                                            current[s], intent.maxChange), rail)
<1>1. /\ used[s] \in Quantity /\ current[s] \in Quantity
      /\ intent.buffer[s] \in Nat /\ intent.maxChange \in Nat
      /\ rail.min \in Quantity /\ rail.max \in Quantity
  BY DEF Values, Intent, Rail
<1>2. railed \in Quantity
  BY <1>1, RailedType
<1>3. railed # NoQuantity /\ rail.max # NoQuantity => railed <= rail.max
  <2> DEFINE g == applyGradualChange(applyBuffer(used[s], intent.buffer[s]),
                                     current[s], intent.maxChange)
  <2>1. g \in Quantity
    BY <1>1, BufferType, GradualType
  <2>2. AtLeast(g, rail.min) \in Quantity
    BY <1>1, <2>1, ClampType
  <2>3. ASSUME NEW q \in Quantity, NEW max \in Quantity
        PROVE  AtMost(q, max) # NoQuantity /\ max # NoQuantity => AtMost(q, max) <= max
    BY NoQuantityAssumption DEF AtMost, Quantity
  <2>4. QED
    BY <1>1, <2>2, <2>3 DEF applySafetyRails
<1> HIDE DEF railed
<1>4. AtMost(railed, quota) # NoQuantity =>
         /\ rail.max # NoQuantity => AtMost(railed, quota) <= rail.max
         /\ quota # NoQuantity => AtMost(railed, quota) <= quota
  BY <1>1, <1>2, <1>3, NoQuantityAssumption DEF AtMost, Quantity
<1>5. QED
  BY <1>4, PercentileSection DEF railed

-----------------------------------------------------------------------------
(* A request is never recommended above the limit beside it. *)

Least(c, m)    == (c * (100 - m)) \div 100
Greatest(c, m) == (c * (100 + m)) \div 100

\* The gradual change clamps the recommendation between two bounds.
LEMMA GradualClamps ==
    ASSUME NEW r \in Nat, NEW c \in Nat \ {0}, NEW m \in Nat, m < 100
    PROVE  /\ Least(c, m) \in Nat /\ Greatest(c, m) \in Nat
           /\ Least(c, m) <= Greatest(c, m)
           /\ applyGradualChange(r, c, m) = IF r > Greatest(c, m) THEN Greatest(c, m)
                                            ELSE IF r < Least(c, m) THEN Least(c, m)
                                            ELSE r
<1>1. c * m \in Nat /\ c * (100 + m) = 100 * c + c * m
      /\ c * (100 - m) = 100 * c - c * m
  BY ProductType
<1>2. c * (100 + m) \in Nat /\ c * (100 - m) \in Nat
  <2>1. 100 + m \in Nat /\ 100 - m \in Nat
    OBVIOUS
  <2>2. QED
    BY <2>1, ProductType
<1>3. /\ Least(c, m) \in Nat /\ Greatest(c, m) \in Nat
      /\ Least(c, m) * 100 <= c * (100 - m) /\ c * (100 - m) < Least(c, m) * 100 + 100
      /\ Greatest(c, m) * 100 <= c * (100 + m) /\ c * (100 + m) < Greatest(c, m) * 100 + 100
  BY <1>2, PercentType DEF Least, Greatest
<1>4. Least(c, m) <= Greatest(c, m)
  BY <1>1, <1>2, PercentMonotone DEF Least, Greatest
<1>5. applyGradualChange(r, c, m) = IF (r - c) * 100 > c * m THEN Greatest(c, m)
                                    ELSE IF (c - r) * 100 > c * m THEN Least(c, m)
                                    ELSE r
  BY NoQuantityAssumption DEF applyGradualChange, Least, Greatest
<1>6. CASE (r - c) * 100 > c * m
  <2>1. r > Greatest(c, m) /\ applyGradualChange(r, c, m) = Greatest(c, m)
    BY <1>1, <1>3, <1>5, <1>6
  <2>2. QED
    BY <1>3, <1>4, <2>1
<1>7. CASE ~((r - c) * 100 > c * m) /\ (c - r) * 100 > c * m
  <2>1. applyGradualChange(r, c, m) = Least(c, m)
    BY <1>5, <1>7
  <2>2. r <= Least(c, m)
    BY <1>1, <1>3, <1>7
  <2>3. QED
    BY <1>3, <1>4, <2>1, <2>2
<1>8. CASE ~((r - c) * 100 > c * m) /\ ~((c - r) * 100 > c * m)
  <2>1. applyGradualChange(r, c, m) = r
    BY <1>5, <1>8
  <2>2. r <= Greatest(c, m) /\ r >= Least(c, m)
    BY <1>1, <1>3, <1>8
  <2>3. QED
    BY <1>3, <1>4, <2>1, <2>2
<1>9. QED
  BY <1>6, <1>7, <1>8

LEMMA GradualMonotone ==
    ASSUME NEW r1 \in Nat, NEW r2 \in Nat, r1 <= r2,
           NEW c1 \in Nat \ {0}, NEW c2 \in Nat \ {0}, c1 <= c2, NEW m \in Nat
    PROVE  /\ applyGradualChange(r1, c1, m) \in Nat
           /\ applyGradualChange(r2, c2, m) \in Nat
           /\ applyGradualChange(r1, c1, m) <= applyGradualChange(r2, c2, m)
<1>1. CASE m >= 100
  BY <1>1 DEF applyGradualChange
<1>2. CASE m < 100
  <2>1. /\ c1 * (100 + m) <= c2 * (100 + m) /\ c1 * (100 - m) <= c2 * (100 - m)
        /\ c1 * (100 + m) \in Nat /\ c1 * (100 - m) \in Nat
        /\ c2 * (100 + m) \in Nat /\ c2 * (100 - m) \in Nat
    <3>1. 100 + m \in Nat /\ 100 - m \in Nat
      BY <1>2
    <3>2. QED
      BY <3>1, ProductType, ProductMonotone
  <2>2. Least(c1, m) <= Least(c2, m) /\ Greatest(c1, m) <= Greatest(c2, m)
    BY <2>1, PercentMonotone DEF Least, Greatest
  <2>3. ASSUME NEW r \in Nat, NEW c \in Nat \ {0}
        PROVE  applyGradualChange(r, c, m) = IF r > Greatest(c, m) THEN Greatest(c, m)
                                             ELSE IF r < Least(c, m) THEN Least(c, m)
                                             ELSE r
    BY <1>2, GradualClamps
  <2>4. /\ Least(c1, m) \in Nat /\ Greatest(c1, m) \in Nat
        /\ Least(c2, m) \in Nat /\ Greatest(c2, m) \in Nat
        /\ Least(c1, m) <= Greatest(c1, m) /\ Least(c2, m) <= Greatest(c2, m)
    BY <1>2, GradualClamps
  <2>5. /\ applyGradualChange(r1, c1, m) = IF r1 > Greatest(c1, m) THEN Greatest(c1, m)
                                           ELSE IF r1 < Least(c1, m) THEN Least(c1, m)
                                           ELSE r1
        /\ applyGradualChange(r2, c2, m) = IF r2 > Greatest(c2, m) THEN Greatest(c2, m)
                                           ELSE IF r2 < Least(c2, m) THEN Least(c2, m)
                                           ELSE r2
    BY <2>3
  <2>6. QED
    BY <2>2, <2>4, <2>5
<1>3. QED
  BY <1>1, <1>2

LEMMA BufferMonotone ==
    ASSUME NEW q1 \in Nat, NEW q2 \in Nat, q1 <= q2, NEW b1 \in Nat, NEW b2 \in Nat, b1 <= b2
    PROVE  applyBuffer(q1, b1) \in Nat /\ applyBuffer(q2, b2) \in Nat
           /\ applyBuffer(q1, b1) <= applyBuffer(q2, b2)
<1>1. /\ q1 * (100 + b1) \in Nat /\ q2 * (100 + b2) \in Nat
      /\ q1 * (100 + b1) <= q2 * (100 + b2)
  <2>1. 100 + b1 \in Nat /\ 100 + b2 \in Nat /\ 100 + b1 <= 100 + b2
    OBVIOUS
  <2>2. /\ q1 * (100 + b1) \in Nat /\ q2 * (100 + b2) \in Nat /\ q2 * (100 + b1) \in Nat
        /\ q1 * (100 + b1) <= q2 * (100 + b1)
    BY <2>1, ProductType, ProductMonotone
  <2>3. (100 + b1) * q2 <= (100 + b2) * q2
    BY <2>1, ProductMonotone
  <2>4. q2 * (100 + b1) <= q2 * (100 + b2)
    BY <2>3
  <2>5. QED
    BY <2>2, <2>4
<1>2. /\ (q1 * (100 + b1)) \div 100 \in Nat /\ (q2 * (100 + b2)) \div 100 \in Nat
      /\ (q1 * (100 + b1)) \div 100 <= (q2 * (100 + b2)) \div 100
  BY <1>1, PercentType, PercentMonotone
<1>3. QED
  BY <1>2, NoQuantityAssumption DEF applyBuffer

LEMMA ClampMonotone ==
    ASSUME NEW q1 \in Nat, NEW q2 \in Nat, q1 <= q2, NEW l \in Quantity
    PROVE  /\ AtLeast(q1, l) \in Nat /\ AtLeast(q2, l) \in Nat
           /\ AtLeast(q1, l) <= AtLeast(q2, l)
           /\ AtMost(q1, l) \in Nat /\ AtMost(q2, l) \in Nat
           /\ AtMost(q1, l) <= AtMost(q2, l)
  BY NoQuantityAssumption DEF AtLeast, AtMost, Quantity

\* A container whose request and limit are both set and in order gets both in
\* order, as the API server demands, whatever the rails and the quota: P95 is
\* not above P99, nor the requests' buffer above that of the limits.
THEOREM RequestsWithinLimits ==
    ASSUME NEW used \in [Sections -> Nat], used["requests"] <= used["limits"],
           NEW current \in [Sections -> Nat \ {0}],
           current["requests"] <= current["limits"],
           NEW intent \in Intent, intent.buffer["requests"] <= intent.buffer["limits"],
           NEW rail \in Rail, NEW quota \in Quantity
    PROVE  LET rec == percentileCalculate(used, current, intent, rail, quota)
           IN  rec["requests"] <= rec["limits"]
<1> DEFINE b(s) == applyBuffer(used[s], intent.buffer[s])
           g(s) == applyGradualChange(b(s), current[s], intent.maxChange)
           l(s) == AtLeast(g(s), rail.min)
           u(s) == AtMost(l(s), rail.max)
<1>1. /\ used["requests"] \in Nat /\ used["limits"] \in Nat
      /\ current["requests"] \in Nat \ {0} /\ current["limits"] \in Nat \ {0}
      /\ intent.buffer["requests"] \in Nat /\ intent.buffer["limits"] \in Nat
      /\ intent.maxChange \in Nat /\ rail.min \in Quantity /\ rail.max \in Quantity
  BY DEF Sections, Intent, Rail
<1>2. b("requests") \in Nat /\ b("limits") \in Nat /\ b("requests") <= b("limits")
  BY <1>1, BufferMonotone
<1> HIDE DEF b
<1>3. g("requests") \in Nat /\ g("limits") \in Nat /\ g("requests") <= g("limits")
  BY <1>1, <1>2, GradualMonotone
<1> HIDE DEF g
<1>4. l("requests") \in Nat /\ l("limits") \in Nat /\ l("requests") <= l("limits")
  BY <1>1, <1>3, ClampMonotone
<1> HIDE DEF l
<1>5. u("requests") \in Nat /\ u("limits") \in Nat /\ u("requests") <= u("limits")
  BY <1>1, <1>4, ClampMonotone
<1> HIDE DEF u
<1>6. AtMost(u("requests"), quota) <= AtMost(u("limits"), quota)
  BY <1>5, ClampMonotone
<1>7. ASSUME NEW s \in Sections
      PROVE  percentileCalculate(used, current, intent, rail, quota)[s] = AtMost(u(s), quota)
  BY PercentileSection DEF u, l, g, b, applySafetyRails
<1>8. QED
  BY <1>6, <1>7 DEF Sections

-----------------------------------------------------------------------------
(* The rails of the DSP strategy. *)

\* The DSP strategy compares the maximum with limits only (dsp.go:347), so that a
\* workload that uses more than the maximum is recommended a request above the
\* maximum, and above the limit beside it, whatever the other rails are.
THEOREM DspRequestAboveMaximum ==
    ASSUME NEW used \in [Sections -> Nat], NEW profile \in FitProfile,
           profile.method # "maxValue",
           NEW rail \in Rail, rail.max # NoQuantity, rail.max < used["requests"]
    PROVE  LET rec == dspCalculate(used, profile, rail, NoQuantity)
           IN  rec["requests"] > rail.max /\ rec["limits"] <= rail.max
<1> DEFINE railed == dspApplySafetyRails(used, rail)
<1>1. /\ used["requests"] \in Nat /\ used["limits"] \in Nat
      /\ rail.max \in Nat /\ rail.min \in Quantity
  BY DEF Rail, Quantity, Sections
<1>2. dspPredict(used, profile) = used
  BY <1>1, NoQuantityAssumption DEF dspPredict
<1>3. railed["requests"] = AtLeast(used["requests"], rail.min)
      /\ railed["limits"] = AtMost(used["limits"], rail.max)
  BY DEF dspApplySafetyRails, Sections
<1>4. railed["requests"] \in Nat /\ railed["requests"] > rail.max
  BY <1>1, <1>3, NoQuantityAssumption DEF AtLeast, Quantity
<1>5. railed["limits"] \in Nat /\ railed["limits"] <= rail.max
  BY <1>1, <1>3, NoQuantityAssumption DEF AtMost, Quantity
<1> HIDE DEF railed
<1>6. ASSUME NEW s \in Sections
      PROVE  applyQuotaLimits(railed, NoQuantity)[s] = railed[s]
  BY DEF applyQuotaLimits, AtMost
<1>7. QED
  BY <1>2, <1>4, <1>5, <1>6 DEF dspCalculate, Sections, railed

-----------------------------------------------------------------------------
(* The controller: type correctness. *)

LEMMA AbsentType == Absent \in Tailoring /\ ~Absent.exists
  BY DEF Absent, New, Tailoring

LEMMA NewType == \A p \in BOOLEAN : New(p) \in Tailoring /\ New(p).exists
  BY DEF New, Tailoring, ReadyReasons, AnalysisErrors

LEMMA ProfilesType == resolveFitProfile \in {Profile, Defaults} /\ {Profile, Defaults} \subseteq FitProfile
<1>1. Defaults \in FitProfile
  BY DEF Defaults, FitProfile, NoOverride, NoValues, Rail, Values, Quantity
<1>2. QED
  BY <1>1, ProfileAssumption DEF resolveFitProfile

LEMMA RailsWithType ==
    ASSUME NEW profile \in FitProfile, NEW r \in Resources
    PROVE  RailsWith(profile)[r] \in Rail
  BY RailsAssumption DEF RailsWith, FitProfile, Rail, OrElse

LEMMA RecommendationsType ==
    ASSUME NEW measured \in Measurements, NEW current \in Analyzed,
           NEW profile \in FitProfile, NEW quota \in [Resources -> Quantity]
    PROVE  Recommendations(measured, current, profile, quota)
             \in [Analyzable -> [Resources -> Values]]
<1>1. ASSUME NEW c \in Analyzable, NEW r \in Resources
      PROVE  Calculate(measured[c][r], current[c][r], profile, RailsWith(profile)[r], quota[r])
               \in Values
  <2>1. measured[c][r] \in Values /\ current[c][r] \in Values /\ quota[r] \in Quantity
    BY DEF Measurements, Analyzed, Analyzable
  <2>2. QED
    BY <2>1, RailsWithType, CalculateType
<1>2. QED
  BY <1>1 DEF Recommendations

LEMMA CurrentOfType ==
    ASSUME NEW t, Resourceful(t) PROVE CurrentOf(t) \in Analyzed
<1>1. Unset \in [Resources -> Values]
  BY DEF Unset, NoValues, Values, Quantity
<1>2. QED
  BY <1>1 DEF CurrentOf, Analyzed, Resourceful

LEMMA InitType == Init => TypeOK
<1> SUFFICES ASSUME Init PROVE TypeOK
  OBVIOUS
<1>1. versions \in Seq(Tailoring) \ {<<>>}
  <2>1. New(FALSE) \in Tailoring
    BY NewType
  <2>2. QED
    BY <2>1, VersionsOne DEF Init
<1>2. QED
  BY <1>1, AbsentType, TargetsAssumption, UsagesAssumption DEF Init, TypeOK

LEMMA FailType ==
    ASSUME TypeOK,
           NEW condition, NEW reason,
           \/ condition = "ready" /\ reason = "AtelierNotFound"
           \/ condition = "found" /\ reason = "TargetNotFound"
           \/ condition = "analyzed" /\ reason \in AnalysisErrors,
           Fail(condition, reason)
    PROVE  draft' \in Tailoring /\ failed' \in BOOLEAN /\ pc' = "update"
  BY DEF TypeOK, Fail, Tailoring

LEMMA DoneType ==
    ASSUME Done
    PROVE  /\ pc' = "idle" /\ draft' \in Tailoring /\ fresh' \in BOOLEAN
           /\ resources' = NoTarget /\ failed' \in BOOLEAN
  BY AbsentType DEF Done

LEMMA StatusWriteType ==
    ASSUME TypeOK, NEW t \in Tailoring, versions' = Append(versions, t)
    PROVE  versions' \in Seq(Tailoring) \ {<<>>} /\ Current' = t
<1>1. versions \in Seq(Tailoring)
  BY DEF TypeOK
<1>2. QED
  BY <1>1, VersionsAppend DEF Current

LEMMA CurrentType == TypeOK => Current \in Tailoring /\ Cached \in Tailoring
  BY VersionsEnds DEF TypeOK, Current, Cached

LEMMA AnalyzeType ==
    ASSUME TypeOK, NEW quota \in [Resources -> Quantity], Analyze(quota),
           Resourceful(resources)
    PROVE  TypeOK'
<1> DEFINE current == CurrentOf(resources)
           recommended == Recommendations(usage, current, resolveFitProfile, quota)
           analysis == [current |-> current, recommended |-> recommended]
           ready == Decision(draft.paused, recommended, resources)
<1>1. current \in Analyzed /\ recommended \in Analyzed
  BY CurrentOfType, ProfilesType, RecommendationsType DEF TypeOK, Analyzed
<1>2. analysis \in Analysis
  BY <1>1 DEF Analysis
<1>3. ready \in ReadyReasons
  BY DEF Decision, ReadyReasons
<1>4. draft' = [draft EXCEPT !.analysis = analysis, !.analyzed = "AnalysisComplete",
                             !.ready = ready]
  BY DEF Analyze
<1> HIDE DEF current, recommended, analysis, ready
<1>5. draft' = [exists |-> draft.exists, paused |-> draft.paused, ready |-> ready,
                found |-> draft.found, analyzed |-> "AnalysisComplete", analysis |-> analysis]
  BY <1>4 DEF TypeOK, Tailoring
<1>6. draft' \in Tailoring
  BY <1>2, <1>3, <1>5 DEF TypeOK, Tailoring
<1>7. QED
  BY <1>6 DEF Analyze, TypeOK, cluster
\* The worker has the target's resources when it asks for the metrics.
Typed == TypeOK /\ (pc = "metrics" => Resourceful(resources))

LEMMA NoQuotaType == NoQuota \in [Resources -> Quantity]
  BY DEF NoQuota, Quantity

LEMMA TypedInvariant == Typed /\ [Next]_vars => Typed'
<1> SUFFICES ASSUME Typed, [Next]_vars PROVE Typed'
  OBVIOUS
<1> USE DEF Typed
<1>1. CASE Start
  <2>1. Cached \in Tailoring
    BY CurrentType
  <2>2. QED
    BY <1>1, <2>1 DEF Start, TypeOK, cluster
<1>2. CASE GetAtelier
  <2>1. CASE ~atelier /\ Fail("ready", "AtelierNotFound")
    BY <1>2, <2>1, FailType DEF GetAtelier, TypeOK, cluster
  <2>2. CASE atelier /\ pc' = "target" /\ UNCHANGED <<draft, failed>>
    BY <1>2, <2>2 DEF GetAtelier, TypeOK, cluster
  <2>3. QED
    BY <1>2, <2>1, <2>2 DEF GetAtelier
<1>3. CASE getTargetResources
  <2>1. CASE target = NoTarget /\ Fail("found", "TargetNotFound") /\ UNCHANGED resources
    BY <1>3, <2>1, FailType DEF getTargetResources, TypeOK, cluster
  <2>2. CASE /\ target # NoTarget
             /\ resources' = target
             /\ draft' = [draft EXCEPT !.found = "TargetFound"]
             /\ pc' = "metrics" /\ UNCHANGED failed
    <3>1. draft' \in Tailoring
      BY <2>2 DEF TypeOK, Tailoring
    <3>2. QED
      BY <1>3, <2>2, <3>1 DEF getTargetResources, TypeOK, cluster
  <2>3. QED
    BY <1>3, <2>1, <2>2 DEF getTargetResources
<1>4. CASE AnalysisFails
  <2>1. PICK reason \in AnalysisErrors : Fail("analyzed", reason)
    BY <1>4 DEF AnalysisFails, AnalysisErrors
  <2>2. QED
    BY <1>4, <2>1, FailType DEF AnalysisFails, TypeOK, cluster
<1>5. ASSUME NEW quota \in [Resources -> Quantity], Analyze(quota) PROVE Typed'
  BY <1>5, AnalyzeType DEF Analyze
<1>6. CASE UpdateCommits
  <2>1. versions' \in Seq(Tailoring) \ {<<>>}
    BY <1>6, StatusWriteType DEF UpdateCommits, TypeOK
  <2>2. QED
    BY <1>6, <2>1, DoneType DEF UpdateCommits, TypeOK, cluster
<1>7. CASE UpdateFails
  BY <1>7, DoneType DEF UpdateFails, TypeOK, cluster
<1>8. CASE Informer
  <2>1. versions' \in Seq(Tailoring) \ {<<>>}
    BY <1>8, VersionsTail DEF Informer, TypeOK
  <2>2. QED
    BY <1>8, <2>1 DEF Informer, TypeOK, cluster, worker
<1>9. CASE TimerExpires
  BY <1>9 DEF TimerExpires, TypeOK, cluster, worker
<1>10. CASE Restart
  <2>1. versions' \in Seq(Tailoring) \ {<<>>} /\ Current.exists \in BOOLEAN
    BY <1>10, CurrentType, VersionsOne DEF Restart, Tailoring
  <2>2. QED
    BY <1>10, <2>1, DoneType DEF Restart, TypeOK, cluster
<1>11. CASE Apply
  <2>1. Current \in Tailoring
    BY CurrentType
  <2>2. Current.analysis \in Analysis
    BY <1>11, <2>1 DEF Apply, Tailoring
  <2>3. Resourceful(WithRecommendations(target, Current.analysis))
    <3> DEFINE rec == Current.analysis.recommended
    <3>1. rec \in [Analyzable -> [Resources -> Values]] /\ Resourceful(target)
      BY <1>11, <2>2 DEF Analysis, Analyzed, Apply, TypeOK
    <3> HIDE DEF rec
    <3>2. ASSUME NEW c \in DOMAIN target, NEW r \in Resources, NEW s \in Sections
          PROVE  /\ target[c][r][s] \in Quantity
                 /\ c \in Analyzable => OrElse(rec[c][r][s], target[c][r][s]) \in Quantity
      BY <3>1 DEF Resourceful, Values, OrElse
    <3> DEFINE values(c, r, s) == IF c \in Analyzable THEN OrElse(rec[c][r][s], target[c][r][s])
                                                     ELSE target[c][r][s]
    <3>3. \A c \in DOMAIN target, r \in Resources, s \in Sections : values(c, r, s) \in Quantity
      BY <3>2
    <3>4. WithRecommendations(target, Current.analysis)
             = [c \in DOMAIN target |-> [r \in Resources |-> [s \in Sections |-> values(c, r, s)]]]
      BY DEF WithRecommendations, rec
    <3> HIDE DEF values
    <3> DEFINE t == [c \in DOMAIN target |-> [r \in Resources |-> [s \in Sections |-> values(c, r, s)]]]
    <3>5. DOMAIN t = DOMAIN target /\ t \in [DOMAIN target -> [Resources -> Values]]
      BY <3>3 DEF Values
    <3>6. DOMAIN target \subseteq Containers
      BY <3>1 DEF Resourceful
    <3>7. QED
      BY <3>4, <3>5, <3>6 DEF Resourceful
  <2>4. QED
    BY <1>11, <2>3 DEF Apply, TypeOK, worker
<1>12. ASSUME NEW t \in Tailoring, SpecWrite(t) PROVE Typed'
  <2>1. versions' \in Seq(Tailoring) \ {<<>>}
    BY <1>12, StatusWriteType DEF SpecWrite
  <2>2. QED
    BY <1>12, <2>1 DEF SpecWrite, TypeOK, cluster, worker
<1>13. CASE Environment
  <2>1. CASE Pause
    <3>1. [Current EXCEPT !.paused = ~@] \in Tailoring
      BY CurrentType DEF Tailoring
    <3>2. QED
      BY <2>1, <3>1, <1>12 DEF Pause
  <2>2. CASE Delete
    BY <2>2, <1>12, AbsentType DEF Delete
  <2>3. CASE Create
    BY <2>3, <1>12, NewType DEF Create
  <2>4. CASE ClusterChange
    <3>1. /\ atelier' \in BOOLEAN /\ fitProfile' \in BOOLEAN
          /\ target' = NoTarget \/ Resourceful(target')
          /\ prometheus' \in {"ok", "error", "empty"} /\ usage' \in Measurements
      BY <2>4, TargetsAssumption, UsagesAssumption
         DEF ClusterChange, ChangeAtelier, ChangeFitProfile, ChangeTarget,
             ChangePrometheus, ChangeUsage, TypeOK
    <3>2. QED
      BY <2>4, <3>1 DEF ClusterChange, TypeOK, worker
  <2>5. QED
    BY <1>13, <2>1, <2>2, <2>3, <2>4 DEF Environment
<1>14. CASE UNCHANGED vars
  BY <1>14 DEF TypeOK, vars, cluster, worker
<1>15. QED
  BY <1>1, <1>2, <1>3, <1>4, <1>5, <1>6, <1>7, <1>8, <1>9, <1>10, <1>11, <1>13, <1>14,
     QuotaAssumption, NoQuotaType
     DEF Next, Worker, Analyzes, AnalyzesWithoutQuota

\* The state is of its type, the recommendations and conditions that the status
\* holds included.
THEOREM TypeCorrect == Spec => []TypeOK
<1>1. Init => Typed
  BY InitType DEF Typed, Init
<1>2. Typed => TypeOK
  BY DEF Typed
<1>3. QED
  BY <1>1, <1>2, TypedInvariant, PTL DEF Spec

-----------------------------------------------------------------------------
(* Recommendations that lead nowhere. *)

LEMMA SmallGradualChange ==
    ASSUME NEW r \in Nat, NEW c \in Nat, c >= 100, NEW m \in Nat, m < 100,
           NEW minChange \in Nat, m < minChange
    PROVE  LET g == applyGradualChange(r, c, m)
           IN  g \in Nat /\ (g - c) * 100 < minChange * c /\ (c - g) * 100 < minChange * c
<1> DEFINE g == applyGradualChange(r, c, m)
<1>1. c * m \in Nat /\ c * (100 + m) = 100 * c + c * m
      /\ c * (100 - m) = 100 * c - c * m /\ minChange * c \in Nat
      /\ c * m + 100 <= minChange * c
  <2>1. (m + 1) * c <= minChange * c /\ (m + 1) * c = c * m + c
    BY ProductMonotone
  <2>2. c * m \in Nat /\ minChange * c \in Nat
    BY ProductType
  <2>3. c * (100 + m) = 100 * c + c * m /\ c * (100 - m) = 100 * c - c * m
    OBVIOUS
  <2>4. QED
    BY <2>1, <2>2, <2>3
<1>2. g \in Nat /\ g * 100 <= c * (100 + m) /\ g * 100 + 100 > c * (100 - m)
  <2>1. c \in Nat \ {0}
    OBVIOUS
  <2>2. QED
    BY <2>1, GradualFacts
<1> HIDE DEF g
<1>3. (g - c) * 100 < minChange * c /\ (c - g) * 100 < minChange * c
  BY <1>1, <1>2
<1>4. QED
  BY <1>2, <1>3 DEF g

\* Rails and a quota that leave c as it is take nothing further away from it.
LEMMA ClampsApproach ==
    ASSUME NEW g \in Nat, NEW c \in Nat, NEW rail \in Rail, NEW quota \in Quantity,
           AtMost(applySafetyRails(c, rail), quota) = c
    PROVE  LET q == AtMost(applySafetyRails(g, rail), quota)
           IN  q \in Nat /\ \/ g <= q /\ q <= c
                            \/ c <= q /\ q <= g
<1>1. ASSUME NEW a \in Nat, NEW l \in Quantity
      PROVE  /\ AtLeast(a, l) = IF l # NoQuantity /\ a < l THEN l ELSE a
             /\ AtMost(a, l) = IF l # NoQuantity /\ a > l THEN l ELSE a
             /\ AtLeast(a, l) \in Nat /\ AtMost(a, l) \in Nat
  BY NoQuantityAssumption DEF AtLeast, AtMost, Quantity
<1>2. rail.min \in Quantity /\ rail.max \in Quantity
  BY DEF Rail
<1> DEFINE g1 == AtLeast(g, rail.min) g2 == AtMost(g1, rail.max) g3 == AtMost(g2, quota)
           c1 == AtLeast(c, rail.min) c2 == AtMost(c1, rail.max) c3 == AtMost(c2, quota)
<1>3. /\ g1 = (IF rail.min # NoQuantity /\ g < rail.min THEN rail.min ELSE g) /\ g1 \in Nat
      /\ c1 = (IF rail.min # NoQuantity /\ c < rail.min THEN rail.min ELSE c) /\ c1 \in Nat
  BY <1>1, <1>2
<1> HIDE DEF g1, c1
<1>4. /\ g2 = (IF rail.max # NoQuantity /\ g1 > rail.max THEN rail.max ELSE g1) /\ g2 \in Nat
      /\ c2 = (IF rail.max # NoQuantity /\ c1 > rail.max THEN rail.max ELSE c1) /\ c2 \in Nat
  BY <1>1, <1>2, <1>3
<1> HIDE DEF g2, c2
<1>5. /\ g3 = (IF quota # NoQuantity /\ g2 > quota THEN quota ELSE g2) /\ g3 \in Nat
      /\ c3 = (IF quota # NoQuantity /\ c2 > quota THEN quota ELSE c2) /\ c3 \in Nat
  BY <1>1, <1>4
<1>6. c3 = c /\ g3 = AtMost(applySafetyRails(g, rail), quota)
  BY DEF applySafetyRails, g1, g2, c1, c2
<1> HIDE DEF g3, c3
<1>7. \/ g <= g3 /\ g3 <= c
      \/ c <= g3 /\ g3 <= g
  BY <1>2, <1>3, <1>4, <1>5, <1>6, NoQuantityAssumption DEF Quantity
<1>8. QED
  BY <1>5, <1>6, <1>7

\* No container's present request is below 100 units or one that the rails or the
\* quota would change.
Settled(t, profile, quota) ==
    \A c \in Analyzable, r \in Resources :
        LET now == t[c][r]["requests"]
        IN  now # NoQuantity =>
               now >= 100 /\ AtMost(applySafetyRails(now, RailsWith(profile)[r]), quota[r]) = now

\* Where the greatest gradual change is smaller than the change that makes a
\* Cut, no usage, however far from the present requests, ever makes one
\* (percentile.go's applyGradualChange against calculator.go's threshold), as
\* long as the rails and the quota allow the present requests and every measured
\* container is the target's or excluded.  (Of a request of less than 100 units
\* the rounding may be more than a percent.)
THEOREM GradualChangeTooSmall ==
    ASSUME NEW measured \in Measurements, NEW t, Resourceful(t), Foreign(t) = {},
           NEW profile \in FitProfile, profile.strategy # "dsp",
           NEW quota \in [Resources -> Quantity], Settled(t, profile, quota),
           getIntentConfigFromParameters(profile).maxChange < 100,
           getIntentConfigFromParameters(profile).maxChange < MinChangePercent
    PROVE  ~ShouldCreateCut(Recommendations(measured, CurrentOf(t), profile, quota), t,
                            MinChangePercent)
<1> DEFINE intent == getIntentConfigFromParameters(profile)
           recommended == Recommendations(measured, CurrentOf(t), profile, quota)
<1>1. /\ intent \in Intent /\ intent.maxChange \in Nat
      /\ intent.buffer["requests"] \in Nat /\ "requests" \in Sections
  BY IntentType DEF Intent, Sections
<1>2. ASSUME NEW c \in Analyzable, NEW r \in Resources,
             recommended[c][r]["requests"] # NoQuantity, t[c][r]["requests"] # NoQuantity
      PROVE  ~hasSignificantChange(t[c][r]["requests"], recommended[c][r]["requests"],
                                   MinChangePercent)
  <2> DEFINE now == t[c][r]["requests"]
             rail == RailsWith(profile)[r]
             b == applyBuffer(measured[c][r]["requests"], intent.buffer["requests"])
             g == applyGradualChange(b, now, intent.maxChange)
             then == recommended[c][r]["requests"]
  <2>1. c \in DOMAIN t /\ CurrentOf(t)[c] = t[c]
    BY DEF Foreign, CurrentOf
  <2>2. /\ now \in Nat /\ now >= 100 /\ AtMost(applySafetyRails(now, rail), quota[r]) = now
        /\ rail \in Rail /\ quota[r] \in Quantity
        /\ measured[c][r]["requests"] \in Quantity
    <3>1. now \in Quantity /\ measured[c][r]["requests"] \in Quantity
      BY <1>1, <2>1 DEF Resourceful, Measurements, Analyzable, Values
    <3>2. QED
      BY <1>2, <3>1, RailsWithType DEF Settled, Quantity
  <2>3. then = AtMost(applySafetyRails(g, rail), quota[r])
    <3>1. recommended[c][r] = percentileCalculate(measured[c][r], t[c][r], intent, rail, quota[r])
      BY <2>1 DEF Recommendations, Calculate
    <3>2. QED
      BY <1>1, <3>1, PercentileSection
  <2>4. b \in Quantity
    BY <1>1, <2>2, BufferType
  <2>5. b \in Nat
    <3>1. CASE b = NoQuantity
      <4>1. g = NoQuantity
        BY <3>1 DEF applyGradualChange
      <4>2. then = NoQuantity
        BY <2>3, <4>1 DEF applySafetyRails, AtLeast, AtMost
      <4>3. QED
        BY <1>2, <4>2
    <3>2. QED
      BY <2>4, <3>1 DEF Quantity
  <2> HIDE DEF b
  <2>6. /\ g \in Nat /\ (g - now) * 100 < MinChangePercent * now
        /\ (now - g) * 100 < MinChangePercent * now
    BY <1>1, <2>2, <2>5, SmallGradualChange, MinChangeAssumption
  <2> HIDE DEF g, rail
  <2>7. then \in Nat /\ ((g <= then /\ then <= now) \/ (now <= then /\ then <= g))
    BY <2>2, <2>3, <2>6, ClampsApproach
  <2> HIDE DEF now, then
  <2>8. MinChangePercent * now \in Nat
    BY <2>2, MinChangeAssumption, ProductType
  <2>9. (then - now) * 100 < MinChangePercent * now /\ (now - then) * 100 < MinChangePercent * now
    BY <2>2, <2>6, <2>7, <2>8
  <2>10. Magnitude(then - now) * 100 < MinChangePercent * now
    BY <2>2, <2>7, <2>9 DEF Magnitude
  <2>11. ~hasSignificantChange(now, then, MinChangePercent)
    BY <2>2, <2>7, <2>8, <2>10 DEF hasSignificantChange, Magnitude
  <2>12. QED
    BY <2>11 DEF now, then
<1>3. DOMAIN recommended = Analyzable /\ \A c \in Analyzable : c \in DOMAIN t
  BY DEF Recommendations, Foreign, Resourceful
<1> HIDE DEF recommended
<1>4. ~ShouldCreateCut(recommended, t, MinChangePercent)
  BY <1>2, <1>3 DEF ShouldCreateCut
<1>5. QED
  BY <1>4 DEF recommended

-----------------------------------------------------------------------------
(* Nothing ends the reconciliation of a Tailoring that exists. *)

LEMMA ScheduledInvariant ==
    Typed /\ TailoringStaysScheduled /\ [Next]_vars => TailoringStaysScheduled'
<1> SUFFICES ASSUME Typed, TailoringStaysScheduled, [Next]_vars
             PROVE  TailoringStaysScheduled'
  OBVIOUS
<1>0. TypeOK /\ versions \in Seq(Tailoring) /\ versions # <<>> /\ Len(versions) \in Nat \ {0}
  BY VersionsEnds DEF Typed, TypeOK
<1> USE DEF TailoringStaysScheduled
<1>1. CASE Start
  <2>1. CASE Cached.exists
    BY <1>1, <2>1 DEF Start
  <2>2. CASE ~Cached.exists
    <3>1. Len(versions) = 1 => Current = Cached
      BY <1>0 DEF Current, Cached
    <3>2. Len(versions') = Len(versions) /\ Current' = Current
      BY <1>1 DEF Start, Current
    <3>3. QED
      BY <1>0, <2>2, <3>1, <3>2
  <2>3. QED
    BY <2>1, <2>2
<1>2. CASE GetAtelier
  BY <1>2 DEF GetAtelier, Fail
<1>3. CASE getTargetResources
  BY <1>3 DEF getTargetResources, Fail
<1>4. CASE AnalysisFails
  BY <1>4 DEF AnalysisFails, Fail
<1>5. ASSUME NEW quota, Analyze(quota) PROVE TailoringStaysScheduled'
  BY <1>5 DEF Analyze
<1>6. CASE UpdateCommits
  BY <1>6 DEF UpdateCommits
<1>7. CASE UpdateFails
  BY <1>7 DEF UpdateFails
<1>8. CASE Informer
  BY <1>8 DEF Informer
<1>9. CASE TimerExpires
  BY <1>9 DEF TimerExpires
<1>10. CASE Restart
  <2>1. Current' = Current
    BY <1>10 DEF Restart, Current
  <2>2. QED
    BY <1>10, <2>1 DEF Restart
<1>11. CASE Apply
  BY <1>11 DEF Apply, worker, Current
<1>12. ASSUME NEW t \in Tailoring, SpecWrite(t) PROVE TailoringStaysScheduled'
  <2>1. Len(versions') = Len(versions) + 1
    BY <1>0, <1>12, VersionsAppend DEF SpecWrite
  <2>2. QED
    BY <1>0, <2>1
<1>13. CASE Environment
  <2>1. [Current EXCEPT !.paused = ~@] \in Tailoring
    BY <1>0, CurrentType DEF Tailoring
  <2>2. CASE ClusterChange
    BY <2>2 DEF ClusterChange, worker, Current
  <2>3. QED
    BY <1>12, <1>13, <2>1, <2>2, AbsentType, NewType DEF Environment, Pause, Delete, Create
<1>14. CASE UNCHANGED vars
  BY <1>14 DEF vars, worker, Current
<1>15. QED
  BY <1>1, <1>2, <1>3, <1>4, <1>5, <1>6, <1>7, <1>8, <1>9, <1>10, <1>11, <1>13, <1>14
     DEF Next, Worker, Analyzes, AnalyzesWithoutQuota

\* Every path of Reconcile, of the retries and of a restart leaves an existing
\* Tailoring queued, on a timer, under reconciliation or with an event to come.
THEOREM NoTailoringForgotten == Spec => []TailoringStaysScheduled
<1>1. Init => Typed /\ TailoringStaysScheduled
  BY InitType DEF Typed, Init, TailoringStaysScheduled
<1>2. QED
  BY <1>1, TypedInvariant, ScheduledInvariant, PTL DEF Spec

-----------------------------------------------------------------------------
(* What is published has been computed in one reconcile. *)

Computed(a) ==
    /\ a.current \in Analyzed
    /\ \E measured \in Measurements, p \in {Profile, Defaults}, q \in {Quota, NoQuota} :
          a.recommended = Recommendations(measured, a.current, p, q)

Stored(t) == t.analysis # NoAnalysis => Computed(t.analysis)

AllComputed == Stored(draft) /\ \A i \in 1 .. Len(versions) : Stored(versions[i])

LEMMA StoredAppend ==
    ASSUME TypeOK, AllComputed, NEW t \in Tailoring, Stored(t), versions' = Append(versions, t)
    PROVE  \A i \in 1 .. Len(versions') : Stored(versions'[i])
<1>1. versions \in Seq(Tailoring)
  BY DEF TypeOK
<1>2. QED
  BY <1>1, VersionsAppend DEF AllComputed

LEMMA ComputedInvariant == Typed /\ AllComputed /\ [Next]_vars => AllComputed'
<1> SUFFICES ASSUME Typed, AllComputed, [Next]_vars PROVE AllComputed'
  OBVIOUS
<1>0. TypeOK /\ versions \in Seq(Tailoring) /\ versions # <<>> /\ Len(versions) \in Nat \ {0}
      /\ draft \in Tailoring
  BY VersionsEnds DEF Typed, TypeOK
<1>a. Stored(Current) /\ Stored(Cached)
  BY <1>0 DEF AllComputed, Current, Cached
<1>b. Stored(Absent) /\ \A p \in BOOLEAN : Stored(New(p))
  BY DEF Stored, Absent, New
<1>c. ASSUME versions' = versions, Stored(draft)' PROVE AllComputed'
  BY <1>c DEF AllComputed, Stored, Computed
<1>d. ASSUME NEW condition \in {"ready", "found", "analyzed"}, NEW reason,
             Fail(condition, reason)
      PROVE  Stored(draft)'
  <2>1. draft'.analysis = draft.analysis
    BY <1>0, <1>d DEF Fail, Tailoring
  <2>2. QED
    BY <2>1 DEF AllComputed, Stored, Computed
<1>e. Done => Stored(draft)'
  BY <1>b DEF Done, Stored, Computed, Absent, New
<1>f. draft' = draft => Stored(draft)'
  BY DEF AllComputed, Stored, Computed
<1>g. ASSUME NEW t \in Tailoring, Stored(t), versions' = Append(versions, t), Stored(draft)'
      PROVE  AllComputed'
  BY <1>0, <1>g, StoredAppend DEF AllComputed, Stored, Computed
<1>1. CASE Start
  <2>1. Stored(draft)'
    BY <1>1, <1>a, <1>f DEF Start, Stored, Computed
  <2>2. QED
    BY <1>1, <1>c, <2>1 DEF Start
<1>2. CASE GetAtelier
  BY <1>2, <1>c, <1>d, <1>f DEF GetAtelier
<1>3. CASE getTargetResources
  <2>1. Stored(draft)'
    <3>1. CASE Fail("found", "TargetNotFound")
      BY <3>1, <1>d
    <3>2. CASE draft' = [draft EXCEPT !.found = "TargetFound"]
      <4>1. draft'.analysis = draft.analysis
        BY <1>0, <3>2 DEF Tailoring
      <4>2. QED
        BY <4>1 DEF AllComputed, Stored, Computed
    <3>3. QED
      BY <1>3, <3>1, <3>2 DEF getTargetResources
  <2>2. QED
    BY <1>3, <1>c, <2>1 DEF getTargetResources
<1>4. CASE AnalysisFails
  BY <1>4, <1>c, <1>d DEF AnalysisFails
<1>5. ASSUME NEW quota \in {Quota, NoQuota}, Analyze(quota) PROVE AllComputed'
  <2> DEFINE current == CurrentOf(resources)
             recommended == Recommendations(usage, current, resolveFitProfile, quota)
             a == [current |-> current, recommended |-> recommended]
             ready == Decision(draft.paused, recommended, resources)
  <2>1. /\ draft' = [draft EXCEPT !.analysis = a, !.analyzed = "AnalysisComplete",
                                  !.ready = ready]
        /\ versions' = versions
    BY <1>5 DEF Analyze
  <2>2. Computed(a)
    BY <1>5, ProfilesType, CurrentOfType DEF Typed, TypeOK, Analyze, Computed
  <2> HIDE DEF current, recommended, a, ready
  <2>3. draft'.analysis = a
    BY <1>0, <2>1 DEF Tailoring
  <2>4. Stored(draft)'
    BY <2>2, <2>3 DEF Stored, Computed
  <2>5. QED
    BY <1>c, <2>1, <2>4
<1>6. CASE UpdateCommits
  <2>1. Stored(draft)' /\ Stored(draft)
    BY <1>6, <1>e DEF UpdateCommits, AllComputed
  <2>2. CASE versions' = Append(versions, draft)
    BY <1>0, <2>1, <2>2, <1>g
  <2>3. CASE versions' = versions
    BY <2>1, <2>3, <1>c
  <2>4. QED
    BY <1>6, <2>2, <2>3 DEF UpdateCommits
<1>7. CASE UpdateFails
  BY <1>7, <1>c, <1>e DEF UpdateFails
<1>8. CASE Informer
  <2>1. \A i \in 1 .. Len(versions') : Stored(versions'[i])
    BY <1>0, <1>8, VersionsTail DEF Informer, AllComputed
  <2>2. Stored(draft)'
    BY <1>8, <1>f DEF Informer, worker
  <2>3. QED
    BY <2>1, <2>2 DEF AllComputed, Stored, Computed
<1>9. CASE TimerExpires
  BY <1>9, <1>c, <1>f DEF TimerExpires, worker
<1>10. CASE Restart
  <2>1. Stored(draft)'
    BY <1>10, <1>e DEF Restart
  <2>2. \A i \in 1 .. Len(versions') : Stored(versions'[i])
    BY <1>10, <1>a DEF Restart
  <2>3. QED
    BY <2>1, <2>2 DEF AllComputed, Stored, Computed
<1>11. CASE Apply
  BY <1>11, <1>c, <1>f DEF Apply, worker
<1>12. ASSUME NEW t \in Tailoring, Stored(t), SpecWrite(t) PROVE AllComputed'
  <2>1. Stored(draft)'
    BY <1>12, <1>f DEF SpecWrite, worker
  <2>2. QED
    BY <1>12, <1>g, <2>1 DEF SpecWrite
<1>13. CASE Environment
  <2>1. CASE Pause
    <3> DEFINE t == [Current EXCEPT !.paused = ~@]
    <3>1. t \in Tailoring /\ t.analysis = Current.analysis
      BY <1>0, CurrentType DEF Tailoring
    <3>2. Stored(t)
      BY <3>1, <1>a DEF Stored
    <3>3. QED
      BY <2>1, <3>1, <3>2, <1>12 DEF Pause
  <2>2. CASE Delete
    BY <2>2, <1>12, <1>b, AbsentType DEF Delete
  <2>3. CASE Create
    BY <2>3, <1>12, <1>b, NewType DEF Create
  <2>4. CASE ClusterChange
    BY <2>4, <1>c, <1>f DEF ClusterChange, worker
  <2>5. QED
    BY <1>13, <2>1, <2>2, <2>3, <2>4 DEF Environment
<1>14. CASE UNCHANGED vars
  BY <1>14, <1>c, <1>f DEF vars, worker
<1>15. QED
  BY <1>1, <1>2, <1>3, <1>4, <1>5, <1>6, <1>7, <1>8, <1>9, <1>10, <1>11, <1>13, <1>14
     DEF Next, Worker, Analyzes, AnalyzesWithoutQuota

LEMMA ComputedAlways == Spec => [](Typed /\ AllComputed)
<1>1. Init => Typed
  BY InitType DEF Typed, Init
<1>2. Init => AllComputed
  <2> SUFFICES ASSUME Init PROVE AllComputed
    OBVIOUS
  <2>1. Stored(Absent) /\ Stored(New(FALSE))
    BY DEF Stored, Absent, New
  <2>2. Len(versions) = 1 /\ versions[1] = New(FALSE)
    BY NewType, VersionsOne DEF Init
  <2>3. draft = Absent
    BY DEF Init
  <2>4. \A i \in 1 .. Len(versions) : i = 1
    BY <2>2
  <2>5. QED
    BY <2>1, <2>2, <2>3, <2>4 DEF AllComputed
<1>3. QED
  BY <1>1, <1>2, TypedInvariant, ComputedInvariant, PTL DEF Spec

\* A section of a computed recommendation of a percentile strategy.
LEMMA ComputedSection ==
    ASSUME Profile.strategy # "dsp", NEW a, Computed(a),
           NEW c \in Analyzable, NEW r \in Resources, NEW s \in Sections
    PROVE  \E p \in {Profile, Defaults}, q \in {Quota, NoQuota}, u \in Values :
              a.recommended[c][r][s]
                = percentileCalculate(u, a.current[c][r], getIntentConfigFromParameters(p),
                                      RailsWith(p)[r], q[r])[s]
<1>1. PICK m \in Measurements, p \in {Profile, Defaults}, q \in {Quota, NoQuota} :
         a.recommended = Recommendations(m, a.current, p, q)
  BY DEF Computed
<1>2. p.strategy # "dsp"
  BY DEF Defaults
<1>3. m[c][r] \in Values
  BY DEF Measurements, Analyzable
<1>4. a.recommended[c][r] = Calculate(m[c][r], a.current[c][r], p, RailsWith(p)[r], q[r])
  BY <1>1 DEF Recommendations
<1>5. QED
  BY <1>2, <1>3, <1>4 DEF Calculate

\* No recommendation that the status ever holds is above the maximum in force:
\* neither the target as it was read, nor the FitProfile's coming and going, nor
\* an unreadable ResourceQuota gets one past the rails.
THEOREM RailsAlwaysRespected ==
    ASSUME Profile.strategy # "dsp"
    PROVE  Spec => []RailsRespected
<1>1. ASSUME AllComputed PROVE RailsRespected
  <2> SUFFICES ASSUME NEW a \in Published, NEW c \in Analyzable, NEW r \in Resources,
                      NEW s \in Sections, a.recommended[c][r][s] # NoQuantity
               PROVE  \E max \in {Rails[r].max, RailsWith(Profile)[r].max} :
                         max # NoQuantity => a.recommended[c][r][s] <= max
    BY DEF RailsRespected
  <2>1. Computed(a)
    BY <1>1 DEF AllComputed, Stored, Published
  <2>2. PICK p \in {Profile, Defaults}, q \in {Quota, NoQuota}, u \in Values :
           a.recommended[c][r][s]
             = percentileCalculate(u, a.current[c][r], getIntentConfigFromParameters(p),
                                   RailsWith(p)[r], q[r])[s]
    BY <2>1, ComputedSection
  <2>3. /\ a.current[c][r] \in Values /\ getIntentConfigFromParameters(p) \in Intent
        /\ RailsWith(p)[r] \in Rail /\ q[r] \in Quantity
    BY <2>1, ProfilesType, IntentType, RailsWithType, QuotaAssumption, NoQuotaType
       DEF Computed, Analyzed
  <2>4. RailsWith(p)[r].max # NoQuantity => a.recommended[c][r][s] <= RailsWith(p)[r].max
    BY <2>2, <2>3, PercentileWithinMaximum
  <2>5. RailsWith(Defaults)[r].max = Rails[r].max
    BY DEF RailsWith, Defaults, NoOverride, OrElse
  <2>6. QED
    BY <2>4, <2>5
<1>2. QED
  BY <1>1, ComputedAlways, PTL

\* Every recommendation that the status ever holds fits the resources that the
\* status holds beside it: the two come from one reconcile, in which the target
\* was read before Prometheus.
THEOREM GradualAlwaysFromPublished ==
    ASSUME Profile.strategy # "dsp"
    PROVE  Spec => []GradualFromPublished
<1>1. ASSUME AllComputed PROVE GradualFromPublished
  <2> SUFFICES ASSUME NEW a \in Published, NEW c \in Analyzable, NEW r \in Resources,
                      NEW s \in Sections,
                      a.current[c][r][s] \notin {NoQuantity, 0},
                      a.recommended[c][r][s] # NoQuantity
               PROVE  \/ \E p \in {Profile, Defaults} :
                            LET m == getIntentConfigFromParameters(p).maxChange
                            IN  \/ m >= 100
                                \/ /\ a.recommended[c][r][s] * 100
                                        <= a.current[c][r][s] * (100 + m)
                                   /\ a.recommended[c][r][s] * 100 + 100
                                        > a.current[c][r][s] * (100 - m)
                      \/ a.recommended[c][r][s] \in
                            {Quota[r]} \cup {Rails[r].min, Rails[r].max}
                               \cup {RailsWith(Profile)[r].min, RailsWith(Profile)[r].max}
    BY DEF GradualFromPublished
  <2>1. Computed(a)
    BY <1>1 DEF AllComputed, Stored, Published
  <2>2. PICK p \in {Profile, Defaults}, q \in {Quota, NoQuota}, u \in Values :
           a.recommended[c][r][s]
             = percentileCalculate(u, a.current[c][r], getIntentConfigFromParameters(p),
                                   RailsWith(p)[r], q[r])[s]
    BY <2>1, ComputedSection
  <2> DEFINE intent == getIntentConfigFromParameters(p)
             m == intent.maxChange
             rail == RailsWith(p)[r]
             b == applyBuffer(u[s], intent.buffer[s])
             now == a.current[c][r][s]
             then == a.recommended[c][r][s]
             g == applyGradualChange(b, now, m)
  <2>3. /\ now \in Quantity /\ intent \in Intent /\ m \in Nat /\ intent.buffer[s] \in Nat
        /\ u[s] \in Quantity /\ rail \in Rail /\ q[r] \in Quantity
    BY <2>1, ProfilesType, IntentType, RailsWithType, QuotaAssumption, NoQuotaType
       DEF Computed, Analyzed, Values, Intent
  <2>4. b \in Quantity /\ g \in Quantity
    BY <2>3, BufferType, GradualType
  <2>5. then = AtMost(AtMost(AtLeast(g, rail.min), rail.max), q[r])
    BY <2>2, PercentileSection DEF applySafetyRails
  <2> HIDE DEF b
  <2>6. CASE then = g
    <3>1. b \in Nat
      BY <2>3, <2>4, <2>6, GradualType DEF Quantity
    <3>2. now \in Nat \ {0}
      BY <2>3 DEF Quantity
    <3>3. m < 100 => then * 100 <= now * (100 + m) /\ then * 100 + 100 > now * (100 - m)
      BY <2>3, <2>6, <3>1, <3>2, GradualFacts
    <3>4. QED
      BY <2>3, <3>3
  <2>7. CASE then # g
    <3>1. then \in {rail.min, rail.max, q[r]}
      BY <2>5, <2>7 DEF AtLeast, AtMost
    <3>2. q[r] \in {Quota[r], NoQuantity}
      BY DEF NoQuota
    <3>3. rail.min \in {Rails[r].min, RailsWith(Profile)[r].min}
          /\ rail.max \in {Rails[r].max, RailsWith(Profile)[r].max}
      BY DEF RailsWith, Defaults, NoOverride, OrElse
    <3>4. QED
      BY <3>1, <3>2, <3>3
  <2>8. QED
    BY <2>6, <2>7
<1>2. QED
  BY <1>1, ComputedAlways, PTL

-----------------------------------------------------------------------------
(* Pausing. *)

\* While nobody writes the spec the worker's copy shows whether the Tailoring is
\* paused, and a decision about to be written is that of the copy.
Decided ==
    /\ fresh => draft.paused = Current.paused
    /\ pc = "update" /\ ~failed => (draft.ready = "Paused" <=> draft.paused)

LEMMA DecidedInvariant == Typed /\ Decided /\ [Next]_vars => Decided'
<1> SUFFICES ASSUME Typed, Decided, [Next]_vars PROVE Decided'
  OBVIOUS
<1>0. TypeOK /\ versions \in Seq(Tailoring) /\ versions # <<>> /\ Len(versions) \in Nat \ {0}
      /\ draft \in Tailoring
  BY VersionsEnds DEF Typed, TypeOK
<1>a. versions' = versions => Current' = Current
  BY DEF Current
<1>b. ASSUME NEW condition \in {"ready", "found", "analyzed"}, NEW reason,
             Fail(condition, reason)
      PROVE  draft'.paused = draft.paused /\ failed' = TRUE
  BY <1>0, <1>b DEF Fail, Tailoring
<1>c. Done => Decided'
  BY DEF Done, Decided
<1>1. CASE Start
  <2>1. Len(versions) = 1 => Current = Cached
    BY <1>0 DEF Current, Cached
  <2>2. CASE Cached.exists
    BY <1>1, <1>a, <2>1, <2>2 DEF Start, Decided
  <2>3. CASE ~Cached.exists
    BY <1>1, <1>a, <2>3 DEF Start, Decided
  <2>4. QED
    BY <2>2, <2>3
<1>2. CASE GetAtelier
  BY <1>2, <1>a, <1>b DEF GetAtelier, Decided
<1>3. CASE getTargetResources
  <2>1. CASE Fail("found", "TargetNotFound")
    BY <1>3, <1>a, <1>b, <2>1 DEF getTargetResources, Decided
  <2>2. CASE /\ draft' = [draft EXCEPT !.found = "TargetFound"]
             /\ pc' = "metrics"
    <3>1. draft'.paused = draft.paused
      BY <1>0, <2>2 DEF Tailoring
    <3>2. QED
      BY <1>3, <1>a, <2>2, <3>1 DEF getTargetResources, Decided
  <2>3. QED
    BY <1>3, <2>1, <2>2 DEF getTargetResources
<1>4. CASE AnalysisFails
  BY <1>4, <1>a, <1>b DEF AnalysisFails, Decided
<1>5. ASSUME NEW quota, Analyze(quota) PROVE Decided'
  <2> DEFINE current == CurrentOf(resources)
             recommended == Recommendations(usage, current, resolveFitProfile, quota)
             a == [current |-> current, recommended |-> recommended]
             ready == Decision(draft.paused, recommended, resources)
  <2>1. /\ draft' = [draft EXCEPT !.analysis = a, !.analyzed = "AnalysisComplete",
                                  !.ready = ready]
        /\ versions' = versions /\ fresh' = fresh
    BY <1>5 DEF Analyze
  <2>2. ready = "Paused" <=> draft.paused
    BY <1>0 DEF Decision, Tailoring
  <2> HIDE DEF current, recommended, a, ready
  <2>3. draft'.paused = draft.paused /\ draft'.ready = ready
    BY <1>0, <2>1 DEF Tailoring
  <2>4. QED
    BY <1>a, <2>1, <2>2, <2>3 DEF Decided
<1>6. CASE UpdateCommits
  BY <1>6, <1>c DEF UpdateCommits
<1>7. CASE UpdateFails
  BY <1>7, <1>c DEF UpdateFails
<1>8. CASE Informer
  <2>1. Current' = Current
    BY <1>0, <1>8, VersionsTail DEF Informer, Current
  <2>2. QED
    BY <1>8, <2>1 DEF Informer, worker, Decided
<1>9. CASE TimerExpires
  BY <1>9, <1>a DEF TimerExpires, worker, Decided
<1>10. CASE Restart
  BY <1>10, <1>c DEF Restart
<1>11. CASE Apply
  BY <1>11, <1>a DEF Apply, worker, Decided
<1>12. ASSUME NEW t, SpecWrite(t) PROVE Decided'
  BY <1>12 DEF SpecWrite, worker, Decided
<1>13. CASE Environment
  <2>1. CASE ClusterChange
    BY <2>1, <1>a DEF ClusterChange, worker, Decided
  <2>2. QED
    BY <1>12, <1>13, <2>1 DEF Environment, Pause, Delete, Create
<1>14. CASE UNCHANGED vars
  BY <1>14, <1>a DEF vars, worker, Decided
<1>15. QED
  BY <1>1, <1>2, <1>3, <1>4, <1>5, <1>6, <1>7, <1>8, <1>9, <1>10, <1>11, <1>13, <1>14
     DEF Next, Worker, Analyzes, AnalyzesWithoutQuota

\* A user who pauses a Tailoring while it is reconciled never sees that
\* reconcile announce recommendations afterwards: its Update conflicts.
THEOREM PauseAlwaysWins == Spec => PauseWins
<1> DEFINE Announced == UpdateCommits /\ versions' # versions /\ ~failed
                           => (Current'.ready = "Paused" <=> Current.paused)
<1>1. Init => Typed /\ Decided
  BY InitType DEF Typed, Init, Decided
<1>2. ASSUME Typed, Decided PROVE Announced
  <2> SUFFICES ASSUME UpdateCommits, versions' # versions, ~failed
               PROVE  Current'.ready = "Paused" <=> Current.paused
    OBVIOUS
  <2>1. versions' = Append(versions, draft) /\ fresh /\ pc = "update"
    BY DEF UpdateCommits
  <2>2. Current' = draft
    BY <1>2, <2>1, StatusWriteType DEF Typed, TypeOK
  <2>3. QED
    BY <1>2, <2>1, <2>2 DEF Decided
<1>3. Typed /\ Decided /\ [Next]_vars => [Announced]_vars
  BY <1>2
<1>4. Spec => [][Announced]_vars
  BY <1>1, <1>3, TypedInvariant, DecidedInvariant, PTL DEF Spec
<1>5. QED
  BY <1>4 DEF PauseWins
=============================================================================
