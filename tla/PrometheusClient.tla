--------------------------- MODULE PrometheusClient ---------------------------
(***************************************************************************)
(* internal/metrics/prometheus/client.go: the metrics of a workload's      *)
(* containers, merged from four queries.  What Prometheus knows is a set   *)
(* of samples [pod, container, query, value]; the answer to a query is a   *)
(* vector of those with its name, in any order.                            *)
(* Abstracted: PromQL.  The pattern "prefix.*" matches the pods of every   *)
(* workload whose name starts with the prefix; the samples are those of    *)
(* the pods that match.  TLS, authentication and units are left out.       *)
(***************************************************************************)
EXTENDS Integers, Sequences
LOCAL INSTANCE SequencesExt

\* GetContainerMetrics asks for one after the other; any error ends it.
Queries == <<"P95CPU", "P99CPU", "P95Memory", "P99Memory">>

Vector(samples, query) == {s \in samples : s.query = query}

Containers(vector) == {s.container : s \in vector}

\* Of several pods the container of each overwrites the other: one of them
\* wins, in every query another one.
Winners(vector) ==
    {last \in [Containers(vector) -> {s.value : s \in vector}] :
        \A c \in Containers(vector) : \E s \in vector : s.container = c /\ s.value = last[c]}

\* Mutant of queryAndExtract: every sample makes a new entry.
queryAndExtractAnew(metrics, samples, query) ==
    {[c \in DOMAIN metrics \cup DOMAIN last |->
        IF c \in DOMAIN last THEN [q \in {query} |-> last[c]] ELSE metrics[c]] :
        last \in Winners(Vector(samples, query))}

\* The results that one query may have on the entries of those before it.
queryAndExtract(metrics, samples, query) ==
    LET known(c) == IF c \in DOMAIN metrics THEN metrics[c] ELSE [q \in {} |-> 0]
        set(c, value) == [q \in DOMAIN known(c) \cup {query} |->
                             IF q = query THEN value ELSE known(c)[q]]
    IN  {[c \in DOMAIN metrics \cup DOMAIN last |->
            IF c \in DOMAIN last THEN set(c, last[c]) ELSE metrics[c]] :
            last \in Winners(Vector(samples, query))}

\* The points of all pods that match, one pod after the other, in any order.
GetTimeSeriesMetrics(series) == {FlattenSeq(order) : order \in SetToSeqs(series)}

\* The length of the range that stands in the query: whole days, hours or
\* minutes, whichever is the largest unit that fits.
formatDuration(seconds) ==
    LET unit == IF seconds < 60 THEN 1
                ELSE IF seconds < 3600 THEN 60
                ELSE IF seconds < 86400 THEN 3600 ELSE 86400
    IN  (seconds \div unit) * unit
=============================================================================
