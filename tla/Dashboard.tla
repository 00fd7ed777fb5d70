------------------------------ MODULE Dashboard ------------------------------
(***************************************************************************)
(* internal/server/api/handlers.go and cmd/server/main.go: the dashboard's *)
(* API server.  A request passes the middleware and then the steps of its  *)
(* handler, of which some wait for the Kubernetes API, Prometheus,         *)
(* OpenCost or ArgoCD.  Time passes, clients leave, the server shuts down. *)
(* The cluster is not a variable: users change it while a request is under *)
(* way, and every read returns anything.                                   *)
(* Abstracted: the fields that a handler copies into its answer, except    *)
(* what PrometheusClient and OpenCostClient compute; the steps of a sync   *)
(* or refresh, which ArgoCDClient models; the 30 s that one HTTP request   *)
(* to ArgoCD's own API server may take, so that the model's requests for   *)
(* ArgoCD may wait for longer than the program's in that mode; reading     *)
(* requests; the half second in which Shutdown looks whether connections   *)
(* are idle.                                                               *)
(***************************************************************************)
EXTENDS Integers, Sequences, FiniteSets

CONSTANTS
    Clients,        \* browsers; each makes one request
    Asks,           \* [Clients -> sets of requests]
    Ateliers,       \* what a read of the Atelier may return, besides an error
    Windows,        \* the analysis windows that Tailorings ask for, in seconds
    SampleSets,     \* what Prometheus may answer to the four queries
    Matrices,       \* what it may answer to a range query: sets of the pods' series
    Texts,          \* what OpenCost's metrics exporter may say
    DataSets,       \* what OpenCost's allocation API may answer
    apiKeys,        \* the keys that were loaded at the start; {} when none could be
    enableCORS,     \* the flag of this name
    TopN,           \* how many top consumers are shown
    Null            \* nothing

P == INSTANCE PrometheusClient
O == INSTANCE OpenCostClient

ASSUME ClientsAssumption == Asks \in [Clients -> SUBSET UNION {Asks[c] : c \in Clients}]

\* A duration is any, also 0 or negative.
ASSUME WindowsAssumption == Windows \subseteq Int

\* What is asked for is answered, and of one container of one pod a higher
\* percentile is not below a lower one.
ASSUME SamplesAssumption ==
    \A samples \in SampleSets :
        /\ IsFiniteSet(samples)
        /\ \A s \in samples : s.query \in {P!Queries[i] : i \in DOMAIN P!Queries}
        /\ \A s, t \in samples :
              s.pod = t.pod /\ s.container = t.container /\ s.query = "P95CPU" /\ t.query = "P99CPU"
                  => s.value <= t.value

\* What OpenCost says of a node.
NodeMetrics ==
    {"capacity_cpu", "capacity_memory", "allocatable_cpu", "allocatable_memory",
     "node_total_cost"}

\* The exporter says nothing negative, and each thing of a node once.
ASSUME TextsAssumption ==
    \A text \in Texts :
        /\ Len(text) \in Nat /\ DOMAIN text = 1 .. Len(text)
        /\ \A i \in DOMAIN text : text[i].value \in Nat \cup {Null}
        /\ \A i, j \in DOMAIN text :
              /\ text[i].name \in NodeMetrics
              /\ text[i].name = text[j].name /\ text[i].node = text[j].node
              => i = j

\* An answer of the allocation API is finite; adjusted costs may be negative.
ASSUME DataSetsAssumption ==
    \A data \in DataSets :
        /\ Len(data) \in Nat /\ DOMAIN data = 1 .. Len(data)
        /\ \A i \in DOMAIN data :
              /\ IsFiniteSet(DOMAIN data[i])
              /\ \A n \in DOMAIN data[i] : data[i][n] # Null => data[i][n].cost \in Int

VARIABLES
    request,        \* each client's request
    server,         \* "serving", "draining", "stopped" (exit 0) or "killed" (exit 1)
    drained,        \* seconds since the signal
    operations      \* what was done in ArgoCD: records [client, kind, app]

vars == <<request, server, drained, operations>>

\* All waiting is measured in steps of ten seconds; 15 s lie between two of them.
TenSeconds == 10
WriteTimeout == 15

\* Mutant of ShutdownTimeout: less than what a handler may take.
ShutdownTimeoutShort == 20

ShutdownTimeout == 30

-----------------------------------------------------------------------------
(* Handlers: a timeout in seconds, 0 for none, and steps, each with the    *)
(* status of the answer when it fails.                                     *)

Handler(timeout, steps) == [timeout |-> timeout, steps |-> steps]

ListTailorings == Handler(10, << <<"list-tailorings", 500>> >>)
GetTailoring == Handler(10, << <<"pair", 400>>, <<"tailoring", 404>> >>)
GetAtelier == Handler(10, << <<"atelier-or-error", 500>>, <<"atelier-exists", 404>> >>)
GetDashboardStats == Handler(10, << <<"list-tailorings", 500>>, <<"list-profiles", 500>> >>)
GetRecommendations == Handler(10, << <<"pair", 400>>, <<"tailoring", 404>> >>)
ListFitProfiles == Handler(10, << <<"list-profiles", 500>> >>)
GetFitProfile == Handler(10, << <<"pair", 400>>, <<"profile", 404>> >>)
ListStrategies == Handler(10, << <<"GET", 405>> >>)
GetStrategy == Handler(10, << <<"GET", 405>>, <<"named", 400>>, <<"strategy", 404>> >>)

\* getAtelier fails with an error also when there is none.
getAtelier == << <<"atelier-or-error", 500>>, <<"atelier-exists", 500>> >>

\* No deadline of the handlers' own: through the Kubernetes API nothing ends the
\* wait; through ArgoCD's API server its client gives up after 30 s, which
\* WaitFails may do at any moment.
ArgoCD == getAtelier \o << <<"argo-enabled", 400>>, <<"argo-secret", 500>> >>

ListArgoCDApps == Handler(0, ArgoCD \o << <<"list-apps", 500>> >>)
GetArgoCDApp == Handler(0, << <<"pair", 400>> >> \o ArgoCD \o << <<"get-app", 404>> >>)

\* Mutant of SyncArgoCDApp: the method is not looked at.
SyncArgoCDAppAnyMethod ==
    Handler(0, << <<"pair-or-more", 400>> >> \o ArgoCD \o << <<"sync", 500>> >>)

SyncArgoCDApp ==
    Handler(0, << <<"POST", 405>>, <<"pair-or-more", 400>> >> \o ArgoCD \o << <<"sync", 500>> >>)

RefreshArgoCDApp ==
    Handler(0, << <<"POST", 405>>, <<"pair-or-more", 400>> >> \o ArgoCD \o << <<"refresh", 500>> >>)

\* Whatever goes wrong in detection is answered as "No ArgoCD application found".
DetectArgoCDApp ==
    Handler(0, << <<"parameters", 400>> >> \o ArgoCD \o << <<"detect-app", 200>> >>)

createPrometheusClient == << <<"prometheus-secret", 500>> >>

\* Mutant of GetMetrics: no deadline for the queries.
GetMetricsUntimed ==
    Handler(0, << <<"pair", 400>>, <<"tailoring", 404>> >> \o getAtelier \o createPrometheusClient
                   \o [i \in DOMAIN P!Queries |-> <<P!Queries[i], 500>>])

GetMetrics ==
    Handler(30, << <<"pair", 400>>, <<"tailoring", 404>> >> \o getAtelier \o createPrometheusClient
                    \o [i \in DOMAIN P!Queries |-> <<P!Queries[i], 500>>])

GetPrometheusMetrics ==
    Handler(30, << <<"parameters", 400>> >> \o getAtelier \o createPrometheusClient
                    \o << <<"time-series", 500>> >>)

createOpenCostClient == << <<"cost-enabled", 400>> >>
OpenCost(view) == Handler(30, getAtelier \o createOpenCostClient \o << <<view, 500>> >>)

GetOpenCostAllocations == OpenCost("allocations")
GetOpenCostSummary == OpenCost("summary")
GetOpenCostNamespaceCosts == OpenCost("namespace-costs")
GetOpenCostControllerCosts == OpenCost("controller-costs")
GetOpenCostResourceAnalytics == OpenCost("resource-analytics")
GetOpenCostCostAnalytics == OpenCost("cost-analytics")
GetOpenCostClusterSummary == OpenCost("cluster-summary")
GetOpenCostMetrics == OpenCost("metrics")
GetOpenCostNamespaceBreakdown ==
    Handler(30, << <<"named", 400>> >> \o OpenCost("namespace-breakdown").steps)

\* OpenCost that is disabled or does not answer is no error, but not connected.
CheckOpenCostHealth ==
    Handler(10, getAtelier \o << <<"cost-enabled", 200>>, <<"health", 200>> >>)

\* Of the paths under argocd/apps/ the last part decides, also when it is the
\* name of the application.
ArgoCDApp(parts) ==
    CASE parts[Len(parts)] = "sync" -> SyncArgoCDApp
      [] parts[Len(parts)] = "refresh" -> RefreshArgoCDApp
      [] OTHER -> GetArgoCDApp

\* The handler of a path: "x/" is the pattern with a path behind it.
RegisterRoutes(path, parts) ==
    CASE path = "tailorings" -> ListTailorings
      [] path = "tailorings/" -> GetTailoring
      [] path = "atelier" -> GetAtelier
      [] path = "dashboard/stats" -> GetDashboardStats
      [] path = "recommendations/" -> GetRecommendations
      [] path = "fitprofiles" -> ListFitProfiles
      [] path = "fitprofiles/" -> GetFitProfile
      [] path = "argocd/apps" -> ListArgoCDApps
      [] path = "argocd/apps/" -> ArgoCDApp(parts)
      [] path = "argocd/detect" -> DetectArgoCDApp
      [] path = "strategies" -> ListStrategies
      [] path = "strategies/" -> GetStrategy
      [] path = "metrics/" -> GetMetrics
      [] path = "prometheus/metrics" -> GetPrometheusMetrics
      [] path = "opencost/allocations" -> GetOpenCostAllocations
      [] path = "opencost/summary" -> GetOpenCostSummary
      [] path = "opencost/namespaces" -> GetOpenCostNamespaceCosts
      [] path = "opencost/controllers" -> GetOpenCostControllerCosts
      [] path = "opencost/health" -> CheckOpenCostHealth
      [] path = "opencost/analytics/resources" -> GetOpenCostResourceAnalytics
      [] path = "opencost/analytics/costs" -> GetOpenCostCostAnalytics
      [] path = "opencost/analytics/cluster" -> GetOpenCostClusterSummary
      [] path = "opencost/namespace/" -> GetOpenCostNamespaceBreakdown
      [] path = "opencost/metrics" -> GetOpenCostMetrics
      [] OTHER -> Null

-----------------------------------------------------------------------------
(* Middleware. *)

\* The request goes on; everything else is the status that it gets.
next == 0

AuthMiddleware(ask) ==
    IF apiKeys = {} \/ ask.path \in {"healthz", "readyz"} \/ ask.key \in apiKeys THEN next
    ELSE IF ask.key = Null THEN 401 ELSE 403

CORSMiddleware(ask) == IF enableCORS /\ ask.method = "OPTIONS" THEN 200 ELSE next

\* Paths outside the API: the health endpoints and the placeholder of the MCP server.
Other(ask) ==
    IF ask.path \in {"healthz", "readyz"} THEN 200
    ELSE IF ask.path = "mcp" THEN 501
    ELSE IF RegisterRoutes(ask.path, ask.parts) = Null THEN 404 ELSE next

Middleware(ask) ==
    IF AuthMiddleware(ask) # next THEN AuthMiddleware(ask)
    ELSE IF CORSMiddleware(ask) # next THEN CORSMiddleware(ask) ELSE Other(ask)

-----------------------------------------------------------------------------
(* The request of a client. *)

Idle == [pc |-> "idle", ask |-> Null, step |-> 0, age |-> 0, gone |-> FALSE, got |-> 0,
         atelier |-> Null, window |-> Null, source |-> Null, data |-> Null]

Running(c) == request[c].pc = "running"
Ask(c) == request[c].ask
HandlerOf(c) == RegisterRoutes(Ask(c).path, Ask(c).parts)
Step(c) == HandlerOf(c).steps[request[c].step][1]

\* The context of the handler is done: its deadline is over or the client left.
Expired(c) == Running(c) /\ HandlerOf(c).timeout > 0 /\ request[c].age >= HandlerOf(c).timeout
Due(c) == Running(c) /\ (Expired(c) \/ request[c].gone)

\* writeJSON and writeError: nobody notices that the answer comes too late.
Answer(c, status) ==
    IF request[c].gone \/ request[c].age > WriteTimeout THEN 0 ELSE status

\* The step is done, the record of the request being r, and the next one begins.
Passed(c, r) ==
    request' = [request EXCEPT ![c] =
        IF r.step < Len(HandlerOf(c).steps)
        THEN [r EXCEPT !.step = @ + 1]
        ELSE [r EXCEPT !.pc = "done", !.got = Answer(c, 200), !.atelier = Null]]

Failed(c) ==
    request' = [request EXCEPT ![c].pc = "done",
                               ![c].got = Answer(c, HandlerOf(c).steps[request[c].step][2]),
                               ![c].atelier = Null, ![c].data = Null, ![c].source = Null]

\* Steps that wait for nothing, and whether they let the request go on.
Local(c) ==
    \/ Step(c) \in {"GET", "POST", "pair", "pair-or-more", "named", "parameters", "strategy",
                    "atelier-exists", "argo-enabled", "cost-enabled"}
    \/ Step(c) = "argo-secret" /\ request[c].atelier.argo # "server-with-secret"
    \/ Step(c) = "prometheus-secret" /\ ~request[c].atelier.prometheusSecret

Holds(c) ==
    CASE Step(c) \in {"GET", "POST"} -> Ask(c).method = Step(c)
      [] Step(c) = "pair" -> Len(Ask(c).parts) = 2
      [] Step(c) = "pair-or-more" -> Len(Ask(c).parts) >= 2
      [] Step(c) = "named" -> Ask(c).parts[1] # ""
      [] Step(c) = "parameters" -> Ask(c).complete
      [] Step(c) = "strategy" -> Ask(c).parts[1] \in {"percentile", "dsp"}
      [] Step(c) = "atelier-exists" -> request[c].atelier # Null
      [] Step(c) = "argo-enabled" -> request[c].atelier.argo # "off"
      [] Step(c) = "cost-enabled" -> request[c].atelier.cost = "on"
      [] OTHER -> TRUE

-----------------------------------------------------------------------------
(* Actions of the server. *)

Arrive(c, ask) ==
    /\ server = "serving" /\ request[c].pc = "idle"
    /\ LET status == Middleware(ask) IN
       request' = [request EXCEPT ![c] =
                      IF status = next
                      THEN [Idle EXCEPT !.pc = "running", !.ask = ask, !.step = 1]
                      ELSE [Idle EXCEPT !.pc = "done", !.ask = ask, !.got = status]]
    /\ UNCHANGED <<server, drained, operations>>

Decide(c) ==
    /\ Running(c) /\ Local(c)
    /\ IF Holds(c) THEN Passed(c, request[c]) ELSE Failed(c)
    /\ UNCHANGED <<server, drained, operations>>

Read(c) ==
    /\ Running(c) /\ ~Local(c)
    /\ Step(c) \in {"list-tailorings", "list-profiles", "profile", "argo-secret",
                    "prometheus-secret", "list-apps", "get-app", "detect-app", "health", "metrics"}
    /\ Passed(c, request[c])
    /\ UNCHANGED <<server, drained, operations>>

ReadTailoring(c) ==
    /\ Running(c) /\ Step(c) = "tailoring"
    /\ \E window \in Windows \cup {Null} : Passed(c, [request[c] EXCEPT !.window = window])
    /\ UNCHANGED <<server, drained, operations>>

ReadAtelier(c) ==
    /\ Running(c) /\ Step(c) = "atelier-or-error"
    /\ \E atelier \in Ateliers \cup {Null} : Passed(c, [request[c] EXCEPT !.atelier = atelier])
    /\ UNCHANGED <<server, drained, operations>>

\* The Tailoring's window, else the Atelier's, else seven days.
analysisWindow(r) ==
    IF r.window # Null THEN r.window
    ELSE IF r.atelier.window # Null THEN r.atelier.window ELSE 7 * 86400

Query(c) ==
    /\ Running(c) /\ Step(c) \in {P!Queries[i] : i \in DOMAIN P!Queries}
    /\ \E samples \in IF Step(c) = P!Queries[1] THEN SampleSets ELSE {request[c].source} :
       \E containers \in P!queryAndExtract(
             IF Step(c) = P!Queries[1] THEN [container \in {} |-> Null]
             ELSE request[c].data.containers,
             samples, Step(c)) :
           Passed(c, [request[c] EXCEPT
                         !.source = samples,
                         !.data = [range |-> P!formatDuration(analysisWindow(request[c])),
                                   containers |-> containers]])
    /\ UNCHANGED <<server, drained, operations>>

QueryRange(c) ==
    /\ Running(c) /\ Step(c) = "time-series"
    /\ \E matrix \in Matrices : \E points \in P!GetTimeSeriesMetrics(matrix) :
           Passed(c, [request[c] EXCEPT !.source = matrix, !.data = points])
    /\ UNCHANGED <<server, drained, operations>>

\* The view of a scrape that a step asks for; views of the text are of the
\* lines in the order of the text.
View(c, text) ==
    LET metrics == O!parsePrometheusMetrics(text) IN
    CASE Step(c) = "resource-analytics" -> O!GetResourceAnalytics(metrics, TopN)
      [] Step(c) = "cost-analytics" -> O!GetCostAnalytics(metrics)
      [] Step(c) = "cluster-summary" -> O!GetClusterResourceSummary(metrics)
      [] Step(c) = "namespace-breakdown" -> O!GetNamespaceBreakdown(metrics, Ask(c).parts[1])

GetMetricsOfOpenCost(c) ==
    /\ Running(c)
    /\ Step(c) \in {"resource-analytics", "cost-analytics", "cluster-summary",
                    "namespace-breakdown"}
    /\ \E text \in Texts :
           Passed(c, [request[c] EXCEPT !.source = text, !.data = View(c, text)])
    /\ UNCHANGED <<server, drained, operations>>

\* The allocations that a step asks for; only the costs of controllers are filtered.
AllocationView(c, data) ==
    CASE Step(c) = "summary" -> O!GetCostSummary(data)
      [] Step(c) = "controller-costs" /\ Ask(c).parts # <<>> -> O!Allocations(data, Ask(c).parts[1])
      [] OTHER -> O!Allocations(data, Null)

GetAllocations(c) ==
    /\ Running(c)
    /\ Step(c) \in {"allocations", "summary", "namespace-costs", "controller-costs"}
    /\ \E data \in DataSets :
           Passed(c, [request[c] EXCEPT !.source = data, !.data = AllocationView(c, data)])
    /\ UNCHANGED <<server, drained, operations>>

Operation(c) == [client |-> c, kind |-> Step(c), app |-> Ask(c).parts[2]]

Operate(c) ==
    /\ Running(c) /\ Step(c) \in {"sync", "refresh"}
    /\ operations' = operations \cup {Operation(c)}
    /\ Passed(c, request[c])
    /\ UNCHANGED <<server, drained>>

\* Whatever is waited for answers with an error, or not in time.
WaitFails(c) ==
    /\ Running(c) /\ ~Local(c)
    /\ Failed(c)
    /\ UNCHANGED <<server, drained, operations>>

\* The same, but what was asked for is done.
AnswerIsLost(c) ==
    /\ Running(c) /\ Step(c) \in {"sync", "refresh"}
    /\ operations' = operations \cup {Operation(c)}
    /\ Failed(c)
    /\ UNCHANGED <<server, drained>>

Signal ==
    /\ server = "serving"
    /\ server' = "draining"
    /\ UNCHANGED <<request, drained, operations>>

\* Shutdown returns when no request is under way any more.
ShutdownReturns ==
    /\ server = "draining" /\ \A c \in Clients : ~Running(c)
    /\ server' = "stopped"
    /\ UNCHANGED <<request, drained, operations>>

\* Shutdown's own deadline: the process exits with what is under way.
ShutdownTimesOut ==
    /\ server = "draining" /\ drained >= ShutdownTimeout
    /\ \A c \in Clients : ~Expired(c)
    /\ server' = "killed"
    /\ request' = [c \in Clients |->
                      IF Running(c) THEN [request[c] EXCEPT !.pc = "cut"] ELSE request[c]]
    /\ UNCHANGED <<drained, operations>>

Handle(c) ==
    \/ Decide(c) \/ Read(c) \/ ReadTailoring(c) \/ ReadAtelier(c) \/ Query(c) \/ QueryRange(c)
    \/ GetMetricsOfOpenCost(c) \/ GetAllocations(c) \/ Operate(c)
    \/ WaitFails(c) \/ AnswerIsLost(c)

-----------------------------------------------------------------------------
(* Clients and the clock. *)

Disconnect(c) ==
    /\ Running(c) /\ ~request[c].gone
    /\ request' = [request EXCEPT ![c].gone = TRUE]
    /\ UNCHANGED <<server, drained, operations>>

\* What is due is done before time goes on.  Ages end at 30 s, where nothing
\* changes any more.
Tick ==
    /\ \A c \in Clients : ~Expired(c)
    /\ server = "draining" => drained < ShutdownTimeout
    /\ server = "draining" \/ \E c \in Clients : Running(c) /\ request[c].age < 30
    /\ request' = [c \in Clients |->
                      IF Running(c) /\ request[c].age < 30
                      THEN [request[c] EXCEPT !.age = @ + TenSeconds]
                      ELSE request[c]]
    /\ drained' = IF server = "draining" THEN drained + TenSeconds ELSE drained
    /\ UNCHANGED <<server, operations>>

Init ==
    /\ request = [c \in Clients |-> Idle]
    /\ server = "serving"
    /\ drained = 0
    /\ operations = {}

Next ==
    \/ \E c \in Clients : (\E ask \in Asks[c] : Arrive(c, ask)) \/ Handle(c) \/ Disconnect(c)
    \/ Signal \/ ShutdownReturns \/ ShutdownTimesOut \/ Tick

Spec == Init /\ [][Next]_vars

\* The server runs on and time passes.  Nobody is bound to answer; but a wait
\* ends when its context is done.
FairSpec ==
    /\ Spec
    /\ \A c \in Clients : WF_vars(Decide(c) \/ (Due(c) /\ WaitFails(c)))
    /\ WF_vars(Tick)
    /\ WF_vars(ShutdownReturns \/ ShutdownTimesOut)

-----------------------------------------------------------------------------
(* Properties. *)

Done(c, path) == request[c].pc = "done" /\ Ask(c).path = path
Shown(c, path) == Done(c, path) /\ request[c].data # Null

\* Of the four queries the answer of GetMetrics holds everything or is none: it
\* names the containers of every vector, each with exactly the values that a
\* vector has for it, each of one of its pods; the P95 is above the P99 only
\* where several pods are mixed.  The range asked for is rounded down, but not
\* to less than half of the Tailoring's window, if that is positive.
MetricsMerged ==
    \A c \in Clients : Shown(c, "metrics/") =>
        LET samples == request[c].source
            metrics == request[c].data.containers
            range == request[c].data.range
            window == request[c].window
        IN  /\ DOMAIN metrics = {s.container : s \in samples}
            /\ \A container \in DOMAIN metrics :
                  LET own == {s \in samples : s.container = container} IN
                  /\ DOMAIN metrics[container] = {s.query : s \in own}
                  /\ \A q \in DOMAIN metrics[container] :
                        \E s \in own : s.query = q /\ s.value = metrics[container][q]
                  /\ Cardinality({s.pod : s \in own}) = 1
                     /\ {"P95CPU", "P99CPU"} \subseteq DOMAIN metrics[container] =>
                        metrics[container]["P95CPU"] <= metrics[container]["P99CPU"]
            /\ window # Null => range <= window /\ (window > 0 => window < 2 * range)

\* What the dashboard shows of one scrape or one answer of OpenCost adds up:
\* parts to their total, on one node to no more than there is, and the views to
\* each other.
BreakdownsAddUp ==
    \A c \in Clients :
        LET source == request[c].source
            view == request[c].data
        IN  /\ Shown(c, "opencost/analytics/resources") => O!ResourcesAddUp(source, view)
            /\ Shown(c, "opencost/analytics/costs") => O!CostsAddUp(source, view)
            /\ Shown(c, "opencost/analytics/cluster") => O!ClusterAddsUp(source, view)
            /\ Shown(c, "opencost/namespace/") =>
                  O!NamespaceAddsUp(source, Ask(c).parts[1], view)
            /\ Shown(c, "opencost/summary") => O!SummaryAddsUp(source, view)

\* The operations in ArgoCD that a client's request has started.
Started(c) == {op \in operations : op.client = c}

\* Something happens in ArgoCD only for a POST with a known key on the path of
\* that operation, at most once; a client that is told that its request was
\* wrong has started nothing, and one that is told of success has.
OperationsAsked ==
    \A c \in Clients :
        /\ Started(c) # {} =>
              /\ Ask(c).method = "POST" /\ (apiKeys = {} \/ Ask(c).key \in apiKeys)
              /\ Ask(c).path = "argocd/apps/"
              /\ \E kind \in {"sync", "refresh"} :
                    /\ Ask(c).parts[Len(Ask(c).parts)] = kind
                    /\ Started(c) = {[client |-> c, kind |-> kind, app |-> Ask(c).parts[2]]}
        /\ request[c].got \in {400, 401, 403, 404, 405} => Started(c) = {}
        /\ /\ request[c].got = 200 /\ Ask(c).method = "POST" /\ Ask(c).path = "argocd/apps/"
           /\ Ask(c).parts[Len(Ask(c).parts)] \in {"sync", "refresh"}
           => Started(c) # {}

OfArgoCD == {"argocd/apps", "argocd/apps/", "argocd/detect"}
Quick == {"tailorings", "tailorings/", "atelier", "dashboard/stats", "recommendations/",
          "fitprofiles", "fitprofiles/", "strategies", "strategies/", "opencost/health"}

\* The timeouts of handlers, connections and the shutdown nest: the answer of a
\* handler that needs only the cluster reaches whoever waits for it, and of
\* those who wait a shutdown cuts off only clients of ArgoCD.
TimeoutsNest ==
    \A c \in Clients :
        /\ request[c].pc = "done" /\ Ask(c).path \in Quick /\ request[c].got = 0
               => request[c].gone
        /\ request[c].pc = "cut" /\ ~request[c].gone => Ask(c).path \in OfArgoCD

\* Every request ends, and so does the process after the signal, whatever does
\* not answer.  Nothing is said of requests for ArgoCD whose client waits:
\* through the Kubernetes API they have no deadline and end when the client
\* leaves or the process does (through ArgoCD's API server they would end).
HandlersEnd ==
    /\ \A c \in Clients :
           Running(c) /\ (Ask(c).path \notin OfArgoCD \/ request[c].gone) ~> ~Running(c)
    /\ server = "draining" ~> server \in {"stopped", "killed"}
=============================================================================
