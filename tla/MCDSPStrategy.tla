----------------------------- MODULE MCDSPStrategy -----------------------------
(* Three families of inputs: any short series, for what looks at the samples;
   a series of four days with any spectrum and autocorrelation of a few values,
   for the period; and the week that the program builds of P95. *)
EXTENDS DSPStrategy

\* What percentile understands, and the default, of which it panics.
Fractions == <<100, 900>>
Default == <<100, 99900>>

Usage == [s \in {"requests", "limits"} |-> IF s = "requests" THEN 3 ELSE 4]

\* The amplitudes of a constant series.
Flat(n, v) == [k \in 0..(n - 1) |-> IF k = 0 THEN n * v ELSE 0]

\* Below 14 samples no period is found, whatever the amplitudes.
Samples ==
    {[values |-> v, interval |-> 21600, amplitude |-> Flat(Len(v), 1), noise |-> 0,
      acf |-> [k \in 0..0 |-> 0], usage |-> Usage, method |-> m,
      outliers |-> p, detectPeaks |-> TRUE] :
        v \in UNION {[1..n -> 1..3] : n \in 0..7}, m \in {"maxValue"}, p \in {<<>>, Fractions}}

Longer ==
    {[values |-> v, interval |-> 21600, amplitude |-> Flat(11, 1), noise |-> 0,
      acf |-> [k \in 0..0 |-> 0], usage |-> Usage, method |-> "maxValue",
      outliers |-> <<>>, detectPeaks |-> TRUE] : v \in [1..11 -> 1..2] }

FourDays == [i \in 1..16 |-> IF i % 4 = 0 THEN 3 ELSE 1]

\* Component 0 is the sum of the samples, or 0 as after the mean is taken away.
Spectra ==
    {[values |-> FourDays, interval |-> 21600,
      amplitude |-> [k \in 0..15 |-> IF k = 0 THEN dc ELSE IF k \in high THEN 24 ELSE 2],
      noise |-> 4, acf |-> [k \in 0..7 |-> IF k = 0 THEN 2 ELSE IF k = 7 THEN 0 ELSE acf[k]],
      usage |-> Usage, method |-> m, outliers |-> <<>>, detectPeaks |-> FALSE] :
        dc \in {0, 24}, high \in SUBSET {3, 4, 8}, acf \in [1..6 -> 0..2],
        m \in {"fft", "maxValue"}}

Week ==
    {[values |-> [i \in 1..168 |-> 3], interval |-> 60, amplitude |-> Flat(168, 3), noise |-> 0,
      acf |-> [k \in 0..83 |-> 1], usage |-> Usage, method |-> m,
      outliers |-> p, detectPeaks |-> TRUE] :
        m \in {"fft", "maxValue"}, p \in {<<>>, Default}}

MCInputs == Samples \cup Longer \cup Spectra \cup Week
=============================================================================
