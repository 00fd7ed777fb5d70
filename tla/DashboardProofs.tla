---------------------------- MODULE DashboardProofs ----------------------------
(***************************************************************************)
(* Theorems about Dashboard, for any clients and requests, whatever the    *)
(* cluster, Prometheus, OpenCost and ArgoCD answer and when.               *)
(***************************************************************************)
EXTENDS Dashboard, FiniteSetTheorems, NaturalsInduction, TLAPS

-----------------------------------------------------------------------------
(* Handlers: chains of steps, of which only two do something in ArgoCD. *)

HarmlessNames ==
    {"list-tailorings", "list-profiles", "pair", "tailoring", "profile", "atelier-or-error",
     "atelier-exists", "GET", "POST", "named", "pair-or-more", "parameters", "strategy",
     "argo-enabled", "argo-secret", "list-apps", "get-app", "detect-app", "prometheus-secret",
     "P95CPU", "P99CPU", "P95Memory", "P99Memory", "time-series", "cost-enabled", "allocations",
     "summary", "namespace-costs", "controller-costs", "resource-analytics", "cost-analytics",
     "cluster-summary", "metrics", "namespace-breakdown", "health"}
Statuses == {200, 400, 404, 405, 500}
Harmless == HarmlessNames \X Statuses
Chain == Seq(Harmless) \ {<< >>}

Timed == [timeout : {10, 30}, steps : Chain]
Untimed == [timeout : {0}, steps : Chain]

LEMMA Chained ==
    ASSUME NEW S, NEW s \in Seq(S), NEW t \in Seq(S)
    PROVE  /\ s \o t \in Seq(S) /\ Len(s \o t) = Len(s) + Len(t)
           /\ \A i \in DOMAIN s : (s \o t)[i] = s[i]
           /\ \A i \in DOMAIN t : (s \o t)[Len(s) + i] = t[i]
           /\ t # << >> => s \o t # << >>
  OBVIOUS

LEMMA LongerChain ==
    ASSUME NEW s \in Chain, NEW t \in Chain PROVE s \o t \in Chain
  BY Chained DEF Chain

LEMMA ChainOfOne ==
    ASSUME NEW e \in Harmless PROVE <<e>> \in Chain
  BY DEF Chain

LEMMA HandlerType ==
    ASSUME NEW steps \in Chain
    PROVE  /\ \A t \in {10, 30} : Handler(t, steps) \in Timed /\ Handler(t, steps).timeout = t
           /\ Handler(0, steps) \in Untimed
  BY DEF Handler, Timed, Untimed

LEMMA ReadsOfAtelier == getAtelier \in Chain /\ ArgoCD \in Chain
<1>1. /\ <<"atelier-or-error", 500>> \in Harmless /\ <<"atelier-exists", 500>> \in Harmless
  BY DEF Harmless, HarmlessNames, Statuses
<1>2. getAtelier \in Chain
  BY <1>1 DEF getAtelier, Chain
<1>3. /\ <<"argo-enabled", 400>> \in Harmless /\ <<"argo-secret", 500>> \in Harmless
  BY DEF Harmless, HarmlessNames, Statuses
<1>4. << <<"argo-enabled", 400>>, <<"argo-secret", 500>> >> \in Chain
  BY <1>3 DEF Chain
<1>5. QED
  BY <1>2, <1>4, LongerChain DEF ArgoCD

QuickHandlers ==
    {ListTailorings, GetTailoring, GetAtelier, GetDashboardStats, GetRecommendations,
     ListFitProfiles, GetFitProfile, ListStrategies, GetStrategy, CheckOpenCostHealth}

LEMMA QuickHandlersType == \A h \in QuickHandlers : h \in Timed /\ h.timeout = 10
<1>1. /\ <<"list-tailorings", 500>> \in Harmless /\ <<"pair", 400>> \in Harmless
      /\ <<"tailoring", 404>> \in Harmless /\ <<"atelier-or-error", 500>> \in Harmless
      /\ <<"atelier-exists", 404>> \in Harmless /\ <<"list-profiles", 500>> \in Harmless
      /\ <<"profile", 404>> \in Harmless /\ <<"GET", 405>> \in Harmless
      /\ <<"named", 400>> \in Harmless /\ <<"strategy", 404>> \in Harmless
  BY DEF Harmless, HarmlessNames, Statuses
<1>2. ListTailorings \in Timed /\ ListTailorings.timeout = 10
  <2>1. << <<"list-tailorings", 500>> >> \in Chain
    BY <1>1 DEF Chain
  <2>2. QED
    BY <2>1, HandlerType DEF ListTailorings
<1>3. GetTailoring \in Timed /\ GetTailoring.timeout = 10
  <2>1. << <<"pair", 400>>, <<"tailoring", 404>> >> \in Chain
    BY <1>1 DEF Chain
  <2>2. QED
    BY <2>1, HandlerType DEF GetTailoring
<1>4. GetAtelier \in Timed /\ GetAtelier.timeout = 10
  <2>1. << <<"atelier-or-error", 500>>, <<"atelier-exists", 404>> >> \in Chain
    BY <1>1 DEF Chain
  <2>2. QED
    BY <2>1, HandlerType DEF GetAtelier
<1>5. GetDashboardStats \in Timed /\ GetDashboardStats.timeout = 10
  <2>1. << <<"list-tailorings", 500>>, <<"list-profiles", 500>> >> \in Chain
    BY <1>1 DEF Chain
  <2>2. QED
    BY <2>1, HandlerType DEF GetDashboardStats
<1>6. GetRecommendations \in Timed /\ GetRecommendations.timeout = 10
  <2>1. << <<"pair", 400>>, <<"tailoring", 404>> >> \in Chain
    BY <1>1 DEF Chain
  <2>2. QED
    BY <2>1, HandlerType DEF GetRecommendations
<1>7. ListFitProfiles \in Timed /\ ListFitProfiles.timeout = 10
  <2>1. << <<"list-profiles", 500>> >> \in Chain
    BY <1>1 DEF Chain
  <2>2. QED
    BY <2>1, HandlerType DEF ListFitProfiles
<1>8. GetFitProfile \in Timed /\ GetFitProfile.timeout = 10
  <2>1. << <<"pair", 400>>, <<"profile", 404>> >> \in Chain
    BY <1>1 DEF Chain
  <2>2. QED
    BY <2>1, HandlerType DEF GetFitProfile
<1>9. ListStrategies \in Timed /\ ListStrategies.timeout = 10
  <2>1. << <<"GET", 405>> >> \in Chain
    BY <1>1 DEF Chain
  <2>2. QED
    BY <2>1, HandlerType DEF ListStrategies
<1>10. GetStrategy \in Timed /\ GetStrategy.timeout = 10
  <2>1. << <<"GET", 405>>, <<"named", 400>>, <<"strategy", 404>> >> \in Chain
    BY <1>1 DEF Chain
  <2>2. QED
    BY <2>1, HandlerType DEF GetStrategy
<1>11. CheckOpenCostHealth \in Timed /\ CheckOpenCostHealth.timeout = 10
  <2>1. <<"cost-enabled", 200>> \in Harmless /\ <<"health", 200>> \in Harmless
    BY DEF Harmless, HarmlessNames, Statuses
  <2>2. << <<"cost-enabled", 200>>, <<"health", 200>> >> \in Chain
    BY <2>1 DEF Chain
  <2>3. getAtelier \o << <<"cost-enabled", 200>>, <<"health", 200>> >> \in Chain
    BY <2>2, ReadsOfAtelier, LongerChain
  <2>4. QED
    BY <2>3, HandlerType DEF CheckOpenCostHealth
<1>12. QED
  BY <1>2, <1>3, <1>4, <1>5, <1>6, <1>7, <1>8, <1>9, <1>10, <1>11 DEF QuickHandlers

ArgoCDHandlers == {ListArgoCDApps, GetArgoCDApp, DetectArgoCDApp}

LEMMA ArgoCDHandlersType == ArgoCDHandlers \subseteq Untimed
<1>1. /\ <<"list-apps", 500>> \in Harmless /\ <<"get-app", 404>> \in Harmless
      /\ <<"pair", 400>> \in Harmless /\ <<"parameters", 400>> \in Harmless
      /\ <<"detect-app", 200>> \in Harmless
  BY DEF Harmless, HarmlessNames, Statuses
<1>2. ListArgoCDApps \in Untimed
  <2>1. ArgoCD \o << <<"list-apps", 500>> >> \in Chain
    BY <1>1, ReadsOfAtelier, ChainOfOne, LongerChain
  <2>2. QED
    BY <2>1, HandlerType DEF ListArgoCDApps
<1>3. GetArgoCDApp \in Untimed
  <2>1. << <<"pair", 400>> >> \o ArgoCD \in Chain
    BY <1>1, ReadsOfAtelier, ChainOfOne, LongerChain
  <2>2. (<< <<"pair", 400>> >> \o ArgoCD) \o << <<"get-app", 404>> >> \in Chain
    BY <1>1, <2>1, ChainOfOne, LongerChain
  <2>3. QED
    BY <2>2, HandlerType DEF GetArgoCDApp
<1>4. DetectArgoCDApp \in Untimed
  <2>1. << <<"parameters", 400>> >> \o ArgoCD \in Chain
    BY <1>1, ReadsOfAtelier, ChainOfOne, LongerChain
  <2>2. (<< <<"parameters", 400>> >> \o ArgoCD) \o << <<"detect-app", 200>> >> \in Chain
    BY <1>1, <2>1, ChainOfOne, LongerChain
  <2>3. QED
    BY <2>2, HandlerType DEF DetectArgoCDApp
<1>5. QED
  BY <1>2, <1>3, <1>4 DEF ArgoCDHandlers

\* What a handler that asks Prometheus or OpenCost does before.
LEMMA CreatesClients == createPrometheusClient \in Chain /\ createOpenCostClient \in Chain
<1>1. <<"prometheus-secret", 500>> \in Harmless /\ <<"cost-enabled", 400>> \in Harmless
  BY DEF Harmless, HarmlessNames, Statuses
<1>2. QED
  BY <1>1, ChainOfOne DEF createPrometheusClient, createOpenCostClient

LEMMA OpenCostType ==
    ASSUME NEW view, <<view, 500>> \in Harmless
    PROVE  OpenCost(view) \in Timed /\ OpenCost(view).steps \in Chain
<1>1. getAtelier \o createOpenCostClient \in Chain
  BY CreatesClients, ReadsOfAtelier, LongerChain
<1>2. (getAtelier \o createOpenCostClient) \o << <<view, 500>> >> \in Chain
  BY <1>1, ChainOfOne, LongerChain
<1>3. QED
  BY <1>2, HandlerType DEF OpenCost, Handler

QueriesOfMetrics == [i \in DOMAIN P!Queries |-> <<P!Queries[i], 500>>]

LEMMA QueriesChain ==
    /\ QueriesOfMetrics = << <<"P95CPU", 500>>, <<"P99CPU", 500>>, <<"P95Memory", 500>>,
                             <<"P99Memory", 500>> >>
    /\ QueriesOfMetrics \in Chain
<1>1. QueriesOfMetrics = << <<"P95CPU", 500>>, <<"P99CPU", 500>>, <<"P95Memory", 500>>,
                            <<"P99Memory", 500>> >>
  BY DEF QueriesOfMetrics, P!Queries
<1>2. /\ <<"P95CPU", 500>> \in Harmless /\ <<"P99CPU", 500>> \in Harmless
      /\ <<"P95Memory", 500>> \in Harmless /\ <<"P99Memory", 500>> \in Harmless
  BY DEF Harmless, HarmlessNames, Statuses
<1>3. << <<"P95CPU", 500>>, <<"P99CPU", 500>>, <<"P95Memory", 500>>,
         <<"P99Memory", 500>> >> \in Chain
  BY <1>2 DEF Chain
<1>4. QED
  BY <1>1, <1>3

LEMMA GetMetricsType == GetMetrics \in Timed /\ GetMetrics.timeout = 30
<1>1. <<"pair", 400>> \in Harmless /\ <<"tailoring", 404>> \in Harmless
  BY DEF Harmless, HarmlessNames, Statuses
<1>2. << <<"pair", 400>>, <<"tailoring", 404>> >> \in Chain
  BY <1>1 DEF Chain
<1>3. << <<"pair", 400>>, <<"tailoring", 404>> >> \o getAtelier \in Chain
  BY <1>2, ReadsOfAtelier, LongerChain
<1>4. << <<"pair", 400>>, <<"tailoring", 404>> >> \o getAtelier \o createPrometheusClient \in Chain
  BY <1>3, CreatesClients, LongerChain
<1>5. << <<"pair", 400>>, <<"tailoring", 404>> >> \o getAtelier \o createPrometheusClient
          \o QueriesOfMetrics \in Chain
  BY <1>4, QueriesChain, LongerChain
<1>6. QED
  BY <1>5, HandlerType DEF GetMetrics, QueriesOfMetrics

LEMMA GetPrometheusMetricsType == GetPrometheusMetrics \in Timed
<1>1. <<"parameters", 400>> \in Harmless /\ <<"time-series", 500>> \in Harmless
  BY DEF Harmless, HarmlessNames, Statuses
<1>2. << <<"parameters", 400>> >> \o getAtelier \in Chain
  BY <1>1, ChainOfOne, ReadsOfAtelier, LongerChain
<1>3. << <<"parameters", 400>> >> \o getAtelier \o createPrometheusClient \in Chain
  BY <1>2, CreatesClients, LongerChain
<1>4. << <<"parameters", 400>> >> \o getAtelier \o createPrometheusClient
          \o << <<"time-series", 500>> >> \in Chain
  BY <1>1, <1>3, ChainOfOne, LongerChain
<1>5. QED
  BY <1>4, HandlerType DEF GetPrometheusMetrics

OpenCostHandlers ==
    {GetOpenCostAllocations, GetOpenCostSummary, GetOpenCostNamespaceCosts,
     GetOpenCostControllerCosts, GetOpenCostResourceAnalytics, GetOpenCostCostAnalytics,
     GetOpenCostClusterSummary, GetOpenCostMetrics, GetOpenCostNamespaceBreakdown}

LEMMA OpenCostHandlersType == OpenCostHandlers \subseteq Timed
<1>1. GetOpenCostAllocations \in Timed
  <2>1. <<"allocations", 500>> \in Harmless
    BY DEF Harmless, HarmlessNames, Statuses
  <2>2. QED
    BY <2>1, OpenCostType DEF GetOpenCostAllocations
<1>2. GetOpenCostSummary \in Timed
  <2>1. <<"summary", 500>> \in Harmless
    BY DEF Harmless, HarmlessNames, Statuses
  <2>2. QED
    BY <2>1, OpenCostType DEF GetOpenCostSummary
<1>3. GetOpenCostNamespaceCosts \in Timed
  <2>1. <<"namespace-costs", 500>> \in Harmless
    BY DEF Harmless, HarmlessNames, Statuses
  <2>2. QED
    BY <2>1, OpenCostType DEF GetOpenCostNamespaceCosts
<1>4. GetOpenCostControllerCosts \in Timed
  <2>1. <<"controller-costs", 500>> \in Harmless
    BY DEF Harmless, HarmlessNames, Statuses
  <2>2. QED
    BY <2>1, OpenCostType DEF GetOpenCostControllerCosts
<1>5. GetOpenCostResourceAnalytics \in Timed
  <2>1. <<"resource-analytics", 500>> \in Harmless
    BY DEF Harmless, HarmlessNames, Statuses
  <2>2. QED
    BY <2>1, OpenCostType DEF GetOpenCostResourceAnalytics
<1>6. GetOpenCostCostAnalytics \in Timed
  <2>1. <<"cost-analytics", 500>> \in Harmless
    BY DEF Harmless, HarmlessNames, Statuses
  <2>2. QED
    BY <2>1, OpenCostType DEF GetOpenCostCostAnalytics
<1>7. GetOpenCostClusterSummary \in Timed
  <2>1. <<"cluster-summary", 500>> \in Harmless
    BY DEF Harmless, HarmlessNames, Statuses
  <2>2. QED
    BY <2>1, OpenCostType DEF GetOpenCostClusterSummary
<1>8. GetOpenCostMetrics \in Timed
  <2>1. <<"metrics", 500>> \in Harmless
    BY DEF Harmless, HarmlessNames, Statuses
  <2>2. QED
    BY <2>1, OpenCostType DEF GetOpenCostMetrics
<1>9. GetOpenCostNamespaceBreakdown \in Timed
  <2>1. <<"namespace-breakdown", 500>> \in Harmless /\ <<"named", 400>> \in Harmless
    BY DEF Harmless, HarmlessNames, Statuses
  <2>2. << <<"named", 400>> >> \o OpenCost("namespace-breakdown").steps \in Chain
    BY <2>1, ChainOfOne, OpenCostType, LongerChain
  <2>3. QED
    BY <2>2, HandlerType DEF GetOpenCostNamespaceBreakdown
<1>10. QED
  BY <1>1, <1>2, <1>3, <1>4, <1>5, <1>6, <1>7, <1>8, <1>9 DEF OpenCostHandlers

-----------------------------------------------------------------------------
(* The two handlers that do something in ArgoCD. *)

\* They do it in their last step, after the first has looked at the method, and
\* answer 200 in no other way.
Operates(h, kind) ==
    /\ h.timeout = 0 /\ Len(h.steps) = 7
    /\ h.steps[1] = <<"POST", 405>>
    /\ \A i \in 1..6 : h.steps[i] \in HarmlessNames \X {400, 405, 500}
    /\ h.steps[7] = <<kind, 500>>

Checks == HarmlessNames \X {400, 405, 500}

ChecksFirst == << <<"POST", 405>>, <<"pair-or-more", 400>> >>

LEMMA SixChecks ==
    /\ ChecksFirst \o ArgoCD \in Seq(Checks) /\ Len(ChecksFirst \o ArgoCD) = 6
    /\ (ChecksFirst \o ArgoCD)[1] = <<"POST", 405>>
<1>1. /\ <<"POST", 405>> \in Checks /\ <<"pair-or-more", 400>> \in Checks
      /\ <<"atelier-or-error", 500>> \in Checks /\ <<"atelier-exists", 500>> \in Checks
      /\ <<"argo-enabled", 400>> \in Checks /\ <<"argo-secret", 500>> \in Checks
  BY DEF Checks, HarmlessNames
<1>2. ArgoCD \in Seq(Checks) /\ ChecksFirst \in Seq(Checks)
  BY <1>1, Chained DEF ArgoCD, getAtelier, ChecksFirst
<1>3. Len(ArgoCD) = 4 /\ Len(ChecksFirst) = 2 /\ ChecksFirst[1] = <<"POST", 405>>
  BY <1>1, Chained DEF ArgoCD, getAtelier, ChecksFirst
<1>4. /\ ChecksFirst \o ArgoCD \in Seq(Checks)
      /\ Len(ChecksFirst \o ArgoCD) = Len(ChecksFirst) + Len(ArgoCD)
      /\ \A i \in DOMAIN ChecksFirst : (ChecksFirst \o ArgoCD)[i] = ChecksFirst[i]
  BY <1>2, Chained
<1>5. 1 \in DOMAIN ChecksFirst
  BY <1>2, <1>3
<1>6. QED
  BY <1>3, <1>4, <1>5

LEMMA OperatesLast ==
    ASSUME NEW e
    PROVE  Operates(Handler(0, ChecksFirst \o ArgoCD \o << <<e, 500>> >>), e)
<1> DEFINE six == ChecksFirst \o ArgoCD
           all == six \o << <<e, 500>> >>
           h == Handler(0, all)
<1>1. /\ six \in Seq(Checks) /\ Len(six) = 6 /\ six[1] = <<"POST", 405>>
      /\ \A i \in 1..6 : six[i] \in Checks
  BY SixChecks
<1> HIDE DEF six
<1>2. /\ Len(all) = 7 /\ all[7] = <<e, 500>>
      /\ \A i \in 1..6 : all[i] = six[i]
  <2> DEFINE S == Checks \cup {<<e, 500>>}
  <2>1. six \in Seq(S) /\ << <<e, 500>> >> \in Seq(S)
    BY <1>1
  <2> HIDE DEF S
  <2> DEFINE last == << <<e, 500>> >>
  <2>2. last \in Seq(S) /\ Len(last) = 1 /\ last[1] = <<e, 500>> /\ 1 \in DOMAIN last
    BY <2>1
  <2>3. DOMAIN six = 1..6
    BY <1>1
  <2>5. six \in Seq(S) /\ last \in Seq(S)
    BY <2>1
  <2> HIDE DEF last
  <2>6. /\ Len(six \o last) = Len(six) + Len(last)
        /\ \A i \in DOMAIN six : (six \o last)[i] = six[i]
        /\ \A i \in DOMAIN last : (six \o last)[Len(six) + i] = last[i]
    BY <2>5, Chained
  <2>7. Len(all) = 7 /\ all[7] = <<e, 500>>
    BY <1>1, <2>2, <2>6 DEF last
  <2>8. \A i \in 1..6 : (six \o last)[i] = six[i]
    BY <2>3, <2>6
  <2>9. QED
    BY <2>7, <2>8 DEF last
<1> HIDE DEF all
<1>3. h.timeout = 0 /\ h.steps = all
  BY DEF Handler
<1> HIDE DEF h
<1>4. Operates(h, e)
  BY <1>1, <1>2, <1>3 DEF Operates, Checks
<1>5. QED
  BY <1>4 DEF h, all, six

LEMMA OperatingHandlers ==
    Operates(SyncArgoCDApp, "sync") /\ Operates(RefreshArgoCDApp, "refresh")
  BY OperatesLast DEF SyncArgoCDApp, RefreshArgoCDApp, ChecksFirst

-----------------------------------------------------------------------------
(* Requests that pass the middleware, and their handlers. *)

Last(ask) == ask.parts[Len(ask.parts)]
Route(ask) == RegisterRoutes(ask.path, ask.parts)

\* What every handler is, whatever it is for.
WellFormed(h) ==
    /\ h.timeout \in {0, 10, 30}
    /\ Len(h.steps) \in Nat \ {0}
    /\ \A i \in 1..Len(h.steps) : h.steps[i][2] \in Statuses

LEMMA ChainsAreWellFormed ==
    ASSUME NEW h \in Timed \cup Untimed
    PROVE  WellFormed(h) /\ \A i \in 1..Len(h.steps) : h.steps[i][1] \in HarmlessNames
<1>1. h.steps \in Seq(Harmless) /\ h.steps # << >>
  BY DEF Timed, Untimed, Chain
<1>2. Len(h.steps) \in Nat \ {0} /\ \A i \in 1..Len(h.steps) : h.steps[i] \in Harmless
  BY <1>1
<1>3. h.timeout \in {0, 10, 30}
  BY DEF Timed, Untimed
<1>4. QED
  BY <1>2, <1>3 DEF WellFormed, Harmless

LEMMA OperatingIsWellFormed ==
    ASSUME NEW h, NEW kind \in {"sync", "refresh"}, Operates(h, kind)
    PROVE  /\ WellFormed(h)
           /\ \A i \in 1..Len(h.steps) : h.steps[i][1] \in {"sync", "refresh"} =>
                  i = 7 /\ h.steps[i][1] = kind
<1>1. \A i \in 1..6 : h.steps[i][1] \in HarmlessNames /\ h.steps[i][2] \in {400, 405, 500}
  BY DEF Operates
<1>2. h.steps[7][1] = kind /\ h.steps[7][2] = 500
  BY DEF Operates
<1>3. "sync" \notin HarmlessNames /\ "refresh" \notin HarmlessNames
  BY DEF HarmlessNames
<1>4. \A i \in 1..Len(h.steps) : i \in 1..6 \/ i = 7
  BY DEF Operates
<1>5. WellFormed(h)
  BY <1>1, <1>2, <1>4 DEF WellFormed, Statuses, Operates
<1>6. QED
  BY <1>1, <1>2, <1>3, <1>4, <1>5

\* The handlers by path; nothing but these paths is served.
LEMMA Routes ==
    ASSUME NEW ask, Route(ask) # Null
    PROVE  /\ ask.path \in Quick => Route(ask) \in QuickHandlers
           /\ ask.path \in OfArgoCD /\ ask.path # "argocd/apps/" => Route(ask) \in ArgoCDHandlers
           /\ ask.path = "argocd/apps/" =>
                  Route(ask) = CASE Last(ask) = "sync" -> SyncArgoCDApp
                                 [] Last(ask) = "refresh" -> RefreshArgoCDApp
                                 [] OTHER -> GetArgoCDApp
           /\ ask.path \notin Quick \cup OfArgoCD =>
                  Route(ask) \in {GetMetrics, GetPrometheusMetrics} \cup OpenCostHandlers
           /\ ask.path = "metrics/" => Route(ask) = GetMetrics
<1>1. CASE ask.path \in Quick
  <2>1. Route(ask) \in QuickHandlers
    BY <1>1 DEF Quick, Route, RegisterRoutes, QuickHandlers
  <2>2. QED
    BY <1>1, <2>1 DEF Quick, OfArgoCD
<1>2. CASE ask.path \in OfArgoCD
  BY <1>2 DEF Quick, OfArgoCD, Route, RegisterRoutes, ArgoCDHandlers, ArgoCDApp, Last
<1>3. CASE ask.path \notin Quick \cup OfArgoCD
  <2>1. ask.path = "metrics/" => Route(ask) = GetMetrics
    BY DEF Route, RegisterRoutes
  <2>2. Route(ask) \in {GetMetrics, GetPrometheusMetrics} \cup OpenCostHandlers
    BY <1>3 DEF Quick, OfArgoCD, Route, RegisterRoutes, OpenCostHandlers
  <2>3. QED
    BY <1>3, <2>1, <2>2 DEF OfArgoCD
<1>4. QED
  BY <1>1, <1>2, <1>3

Accepted(ask) == Middleware(ask) = next

\* What is known of a request that reaches its handler.
Served(ask) ==
    /\ WellFormed(Route(ask))
    /\ apiKeys = {} \/ ask.key \in apiKeys
    /\ ask.path \in Quick => Route(ask).timeout = 10
    /\ Route(ask).timeout = 0 => ask.path \in OfArgoCD
    /\ \A i \in 1..Len(Route(ask).steps) :
           Route(ask).steps[i][1] \in {"sync", "refresh"} =>
               /\ i = 7 /\ Operates(Route(ask), Route(ask).steps[i][1])
               /\ ask.path = "argocd/apps/" /\ Last(ask) = Route(ask).steps[i][1]
    /\ ask.path = "argocd/apps/" /\ Last(ask) \in {"sync", "refresh"} =>
           Operates(Route(ask), Last(ask))

LEMMA AcceptedIsServed == ASSUME NEW ask, Accepted(ask) PROVE Served(ask)
<1>1. Route(ask) # Null /\ (apiKeys = {} \/ ask.key \in apiKeys)
  BY DEF Accepted, Middleware, AuthMiddleware, CORSMiddleware, Other, next, Route
<1>2. CASE Route(ask) \in QuickHandlers \cup {GetMetrics, GetPrometheusMetrics} \cup OpenCostHandlers
           /\ ask.path # "argocd/apps/"
  <2>1. Route(ask) \in Timed
    BY <1>2, QuickHandlersType, GetMetricsType, GetPrometheusMetricsType, OpenCostHandlersType
  <2>2. Route(ask).timeout \in {10, 30}
    BY <2>1 DEF Timed
  <2>3. ask.path \in Quick => Route(ask).timeout = 10
    BY <1>1, Routes, QuickHandlersType
  <2>4. /\ WellFormed(Route(ask))
        /\ \A i \in 1..Len(Route(ask).steps) : Route(ask).steps[i][1] \in HarmlessNames
    BY <2>1, ChainsAreWellFormed
  <2>5. "sync" \notin HarmlessNames /\ "refresh" \notin HarmlessNames
    BY DEF HarmlessNames
  <2>6. QED
    BY <1>1, <1>2, <2>2, <2>3, <2>4, <2>5 DEF Served
<1>3. CASE Route(ask) \in ArgoCDHandlers /\ ask.path \in OfArgoCD
           /\ ~(ask.path = "argocd/apps/" /\ Last(ask) \in {"sync", "refresh"})
  <2>1. Route(ask) \in Untimed
    BY <1>3, ArgoCDHandlersType
  <2>2. ask.path \notin Quick
    BY <1>3 DEF OfArgoCD, Quick
  <2>3. /\ WellFormed(Route(ask))
        /\ \A i \in 1..Len(Route(ask).steps) : Route(ask).steps[i][1] \in HarmlessNames
    BY <2>1, ChainsAreWellFormed
  <2>4. "sync" \notin HarmlessNames /\ "refresh" \notin HarmlessNames
    BY DEF HarmlessNames
  <2>5. QED
    BY <1>1, <1>3, <2>2, <2>3, <2>4 DEF Served
<1>4. CASE ask.path = "argocd/apps/" /\ Last(ask) \in {"sync", "refresh"}
  <2>1. Operates(Route(ask), Last(ask))
    BY <1>1, <1>4, Routes, OperatingHandlers
  <2>2. /\ WellFormed(Route(ask))
        /\ \A i \in 1..Len(Route(ask).steps) : Route(ask).steps[i][1] \in {"sync", "refresh"} =>
               i = 7 /\ Route(ask).steps[i][1] = Last(ask)
    BY <1>4, <2>1, OperatingIsWellFormed
  <2>3. ask.path \in OfArgoCD /\ ask.path \notin Quick
    BY <1>4 DEF OfArgoCD, Quick
  <2>4. QED
    BY <1>1, <1>4, <2>1, <2>2, <2>3 DEF Served
<1>5. QED
  <2>1. CASE ask.path \in Quick
    BY <1>1, <1>2, <2>1, Routes DEF Quick
  <2>2. CASE ask.path \in OfArgoCD
    BY <1>1, <1>3, <1>4, <2>2, Routes DEF ArgoCDHandlers
  <2>3. CASE ask.path \notin Quick \cup OfArgoCD
    BY <1>1, <1>2, <2>3, Routes DEF OfArgoCD
  <2>4. QED
    BY <2>1, <2>2, <2>3

-----------------------------------------------------------------------------
(* Steps of a handler, as far as operations and deadlines are concerned. *)

Fields == {"pc", "ask", "step", "age", "gone", "got", "atelier", "window", "source", "data"}
Records == DOMAIN request = Clients /\ \A c \in Clients : DOMAIN request[c] = Fields

\* Only the request of c changes, and of it neither what was asked nor its age.
OnlyOf(c) ==
    /\ \A b \in Clients : b # c => request'[b] = request[b]
    /\ request'[c].ask = request[c].ask /\ request'[c].age = request[c].age
    /\ request'[c].gone = request[c].gone
    /\ UNCHANGED <<server, drained>>

Continues(c) ==
    /\ request'[c].pc = "running" /\ request'[c].got = request[c].got
    /\ request[c].step < Len(HandlerOf(c).steps) /\ request'[c].step = request[c].step + 1
    /\ Step(c) = "POST" => Ask(c).method = "POST"
    /\ Step(c) \notin {"sync", "refresh"} => UNCHANGED operations

Succeeds(c) ==
    /\ request'[c].pc = "done" /\ request'[c].got = Answer(c, 200)
    /\ ~(request[c].step < Len(HandlerOf(c).steps))
    /\ operations' = IF Step(c) \in {"sync", "refresh"} THEN operations \cup {Operation(c)}
                     ELSE operations

Fails(c) ==
    /\ request'[c].pc = "done"
    /\ request'[c].got = Answer(c, HandlerOf(c).steps[request[c].step][2])
    /\ \/ UNCHANGED operations
       \/ Step(c) \in {"sync", "refresh"} /\ operations' = operations \cup {Operation(c)}

LEMMA PassedRecord ==
    ASSUME Records, NEW c \in Clients, Running(c), NEW r, DOMAIN r = Fields, Passed(c, r),
           r.pc = request[c].pc, r.ask = request[c].ask, r.age = request[c].age,
           r.gone = request[c].gone, r.step = request[c].step, r.got = request[c].got
    PROVE  /\ Records'
           /\ \A b \in Clients : b # c => request'[b] = request[b]
           /\ request'[c].ask = request[c].ask /\ request'[c].age = request[c].age
           /\ request'[c].gone = request[c].gone
           /\ \/ /\ request'[c].pc = "running" /\ request'[c].got = request[c].got
                 /\ request[c].step < Len(HandlerOf(c).steps)
                 /\ request'[c].step = request[c].step + 1
              \/ /\ request'[c].pc = "done" /\ request'[c].got = Answer(c, 200)
                 /\ ~(request[c].step < Len(HandlerOf(c).steps))
<1> DEFINE on == [r EXCEPT !.step = @ + 1]
           end == [r EXCEPT !.pc = "done", !.got = Answer(c, 200), !.atelier = Null]
<1>1. /\ DOMAIN on = Fields /\ on.pc = "running" /\ on.ask = r.ask /\ on.age = r.age
      /\ on.gone = r.gone /\ on.got = r.got /\ on.step = r.step + 1
  BY DEF Fields, Running
<1>2. /\ DOMAIN end = Fields /\ end.pc = "done" /\ end.ask = r.ask /\ end.age = r.age
      /\ end.gone = r.gone /\ end.got = Answer(c, 200)
  BY DEF Fields
<1>3. request' = [request EXCEPT ![c] = IF r.step < Len(HandlerOf(c).steps) THEN on ELSE end]
  BY DEF Passed
<1> HIDE DEF on, end
<1>4. CASE r.step < Len(HandlerOf(c).steps)
  <2>1. request' = [request EXCEPT ![c] = on]
    BY <1>3, <1>4
  <2>2. DOMAIN request' = Clients /\ request'[c] = on /\ \A b \in Clients : b # c => request'[b] = request[b]
    BY <2>1 DEF Records
  <2>3. QED
    BY <1>1, <1>4, <2>2 DEF Records
<1>5. CASE ~(r.step < Len(HandlerOf(c).steps))
  <2>1. request' = [request EXCEPT ![c] = end]
    BY <1>3, <1>5
  <2>2. DOMAIN request' = Clients /\ request'[c] = end /\ \A b \in Clients : b # c => request'[b] = request[b]
    BY <2>1 DEF Records
  <2>3. QED
    BY <1>2, <1>5, <2>2 DEF Records
<1>6. QED
  BY <1>4, <1>5

LEMMA FailedRecord ==
    ASSUME Records, NEW c \in Clients, Failed(c)
    PROVE  /\ Records'
           /\ \A b \in Clients : b # c => request'[b] = request[b]
           /\ request'[c].ask = request[c].ask /\ request'[c].age = request[c].age
           /\ request'[c].gone = request[c].gone
           /\ request'[c].pc = "done"
           /\ request'[c].got = Answer(c, HandlerOf(c).steps[request[c].step][2])
<1> DEFINE got == Answer(c, HandlerOf(c).steps[request[c].step][2])
           r == [request[c] EXCEPT !.pc = "done", !.got = got, !.atelier = Null,
                                   !.data = Null, !.source = Null]
<1>1. request' = [request EXCEPT ![c] = r]
  BY DEF Failed, Records, Fields
<1>2. /\ DOMAIN r = Fields /\ r.pc = "done" /\ r.ask = request[c].ask /\ r.age = request[c].age
      /\ r.gone = request[c].gone /\ r.got = got
  BY DEF Records, Fields
<1> HIDE DEF r, got
<1>3. DOMAIN request' = Clients /\ request'[c] = r /\ \A b \in Clients : b # c => request'[b] = request[b]
  BY <1>1 DEF Records
<1>4. QED
  BY <1>2, <1>3 DEF Records, got

LEMMA PassedStep ==
    ASSUME Records, NEW c \in Clients, Running(c), NEW r, DOMAIN r = Fields, Passed(c, r),
           r.pc = request[c].pc, r.ask = request[c].ask, r.age = request[c].age,
           r.gone = request[c].gone, r.step = request[c].step, r.got = request[c].got,
           Step(c) = "POST" => Ask(c).method = "POST",
           Step(c) \notin {"sync", "refresh"},
           UNCHANGED <<server, drained, operations>>
    PROVE  Records' /\ OnlyOf(c) /\ (Continues(c) \/ Succeeds(c))
  BY PassedRecord DEF OnlyOf, Continues, Succeeds

LEMMA FailedStep ==
    ASSUME Records, NEW c \in Clients, Failed(c), UNCHANGED <<server, drained>>,
           \/ UNCHANGED operations
           \/ Step(c) \in {"sync", "refresh"} /\ operations' = operations \cup {Operation(c)}
    PROVE  Records' /\ OnlyOf(c) /\ Fails(c)
  BY FailedRecord DEF OnlyOf, Fails

LEMMA Handled ==
    ASSUME Records, NEW c \in Clients, Handle(c)
    PROVE  /\ Running(c) /\ Records' /\ OnlyOf(c)
           /\ Continues(c) \/ Succeeds(c) \/ Fails(c)
<1>1. DOMAIN request[c] = Fields
  BY DEF Records
<1>2. Running(c)
  BY DEF Handle, Decide, Read, ReadTailoring, ReadAtelier, Query, QueryRange,
         GetMetricsOfOpenCost, GetAllocations, Operate, WaitFails, AnswerIsLost
<1>3. CASE Decide(c)
  <2>1. UNCHANGED <<server, drained, operations>> /\ Local(c)
    BY <1>3 DEF Decide
  <2>2. Step(c) \notin {"sync", "refresh"}
    BY <2>1 DEF Local
  <2>3. CASE Holds(c)
    <3>1. Passed(c, request[c])
      BY <1>3, <2>3 DEF Decide
    <3>2. Step(c) = "POST" => Ask(c).method = "POST"
      BY <2>3 DEF Holds
    <3>3. QED
      BY <1>1, <1>2, <2>1, <2>2, <3>1, <3>2, PassedStep
  <2>4. CASE ~Holds(c)
    <3>1. Failed(c)
      BY <1>3, <2>4 DEF Decide
    <3>2. QED
      BY <1>2, <2>1, <3>1, FailedStep
  <2>5. QED
    BY <2>3, <2>4
<1>4. CASE Read(c)
  <2>1. Passed(c, request[c]) /\ Step(c) \notin {"sync", "refresh", "POST"}
    BY <1>4 DEF Read
  <2>2. UNCHANGED <<server, drained, operations>>
    BY <1>4 DEF Read
  <2>3. QED
    BY <1>1, <1>2, <2>1, <2>2, PassedStep
<1>5. CASE ReadTailoring(c)
  <2>1. PICK window : Passed(c, [request[c] EXCEPT !.window = window])
    BY <1>5 DEF ReadTailoring
  <2>2. Step(c) \notin {"sync", "refresh", "POST"} /\ UNCHANGED <<server, drained, operations>>
    BY <1>5 DEF ReadTailoring
  <2> DEFINE r == [request[c] EXCEPT !.window = window]
  <2>3. /\ DOMAIN r = Fields /\ r.pc = request[c].pc /\ r.ask = request[c].ask
        /\ r.age = request[c].age /\ r.gone = request[c].gone /\ r.step = request[c].step
        /\ r.got = request[c].got
    BY <1>1 DEF Fields
  <2>4. Passed(c, r)
    BY <2>1
  <2> HIDE DEF r
  <2>5. QED
    BY <1>1, <1>2, <2>2, <2>3, <2>4, PassedStep
<1>6. CASE ReadAtelier(c)
  <2>1. PICK atelier : Passed(c, [request[c] EXCEPT !.atelier = atelier])
    BY <1>6 DEF ReadAtelier
  <2>2. Step(c) \notin {"sync", "refresh", "POST"} /\ UNCHANGED <<server, drained, operations>>
    BY <1>6 DEF ReadAtelier
  <2> DEFINE r == [request[c] EXCEPT !.atelier = atelier]
  <2>3. /\ DOMAIN r = Fields /\ r.pc = request[c].pc /\ r.ask = request[c].ask
        /\ r.age = request[c].age /\ r.gone = request[c].gone /\ r.step = request[c].step
        /\ r.got = request[c].got
    BY <1>1 DEF Fields
  <2>4. Passed(c, r)
    BY <2>1
  <2> HIDE DEF r
  <2>5. QED
    BY <1>1, <1>2, <2>2, <2>3, <2>4, PassedStep
<1>7. CASE Query(c) \/ QueryRange(c) \/ GetMetricsOfOpenCost(c) \/ GetAllocations(c)
  <2>1. PICK source, data : Passed(c, [request[c] EXCEPT !.source = source, !.data = data])
    <3>1. CASE Query(c)
      BY <3>1 DEF Query
    <3>2. CASE QueryRange(c)
      BY <3>2 DEF QueryRange
    <3>3. CASE GetMetricsOfOpenCost(c)
      BY <3>3 DEF GetMetricsOfOpenCost
    <3>4. CASE GetAllocations(c)
      BY <3>4 DEF GetAllocations
    <3>5. QED
      BY <1>7, <3>1, <3>2, <3>3, <3>4
  <2>2. Step(c) \notin {"sync", "refresh", "POST"}
    <3>1. CASE Query(c)
      BY <3>1 DEF Query, P!Queries
    <3>2. QED
      BY <1>7, <3>1 DEF QueryRange, GetMetricsOfOpenCost, GetAllocations
  <2>3. UNCHANGED <<server, drained, operations>>
    BY <1>7 DEF Query, QueryRange, GetMetricsOfOpenCost, GetAllocations
  <2> DEFINE r == [request[c] EXCEPT !.source = source, !.data = data]
  <2>4. /\ DOMAIN r = Fields /\ r.pc = request[c].pc /\ r.ask = request[c].ask
        /\ r.age = request[c].age /\ r.gone = request[c].gone /\ r.step = request[c].step
        /\ r.got = request[c].got
    BY <1>1 DEF Fields
  <2>5. Passed(c, r)
    BY <2>1
  <2> HIDE DEF r
  <2>6. QED
    BY <1>1, <1>2, <2>2, <2>3, <2>4, <2>5, PassedStep
<1>8. CASE Operate(c)
  <2>1. /\ Passed(c, request[c]) /\ Step(c) \in {"sync", "refresh"}
        /\ operations' = operations \cup {Operation(c)} /\ UNCHANGED <<server, drained>>
    BY <1>8 DEF Operate
  <2>2. QED
    BY <1>1, <1>2, <2>1, PassedRecord DEF OnlyOf, Continues, Succeeds
<1>9. CASE WaitFails(c) \/ AnswerIsLost(c)
  BY <1>2, <1>9, FailedStep DEF WaitFails, AnswerIsLost
<1>10. QED
  BY <1>3, <1>4, <1>5, <1>6, <1>7, <1>8, <1>9 DEF Handle

-----------------------------------------------------------------------------
(* The steps of everybody else. *)

\* What a record holds, except its age.
Keeps(c) ==
    /\ request'[c].pc = request[c].pc /\ request'[c].ask = request[c].ask
    /\ request'[c].step = request[c].step /\ request'[c].got = request[c].got

LEMMA Arrived ==
    ASSUME Records, NEW c \in Clients, NEW ask, Arrive(c, ask)
    PROVE  /\ Records' /\ request[c].pc = "idle"
           /\ \A b \in Clients : b # c => request'[b] = request[b]
           /\ request'[c].ask = ask /\ request'[c].age = 0 /\ request'[c].gone = FALSE
           /\ \/ /\ Accepted(ask) /\ request'[c].pc = "running" /\ request'[c].step = 1
                 /\ request'[c].got = 0
              \/ /\ ~Accepted(ask) /\ request'[c].pc = "done" /\ request'[c].got = Middleware(ask)
           /\ server = "serving" /\ UNCHANGED <<server, drained, operations>>
<1> DEFINE on == [Idle EXCEPT !.pc = "running", !.ask = ask, !.step = 1]
           end == [Idle EXCEPT !.pc = "done", !.ask = ask, !.got = Middleware(ask)]
           r == IF Accepted(ask) THEN on ELSE end
<1>1. request' = [request EXCEPT ![c] = r]
  BY DEF Arrive, Accepted
<1>2. /\ DOMAIN r = Fields
      /\ r.ask = ask /\ r.age = 0 /\ r.gone = FALSE
      /\ IF Accepted(ask) THEN r.pc = "running" /\ r.step = 1 /\ r.got = 0
         ELSE r.pc = "done" /\ r.got = Middleware(ask)
  BY DEF Idle, Fields
<1> HIDE DEF r
<1>3. DOMAIN request' = Clients /\ request'[c] = r /\ \A b \in Clients : b # c => request'[b] = request[b]
  BY <1>1 DEF Records
<1>4. QED
  BY <1>2, <1>3 DEF Records, Arrive

LEMMA Disconnected ==
    ASSUME Records, NEW c \in Clients, Disconnect(c)
    PROVE  /\ Records' /\ Running(c) /\ Keeps(c)
           /\ \A b \in Clients : b # c => request'[b] = request[b]
           /\ request'[c].age = request[c].age
           /\ UNCHANGED <<server, drained, operations>>
<1> DEFINE r == [request[c] EXCEPT !.gone = TRUE]
<1>1. request' = [request EXCEPT ![c] = r]
  BY DEF Disconnect, Records, Fields
<1>2. /\ DOMAIN r = Fields /\ r.pc = request[c].pc /\ r.ask = request[c].ask
      /\ r.step = request[c].step /\ r.got = request[c].got /\ r.age = request[c].age
  BY DEF Records, Fields
<1> HIDE DEF r
<1>3. DOMAIN request' = Clients /\ request'[c] = r /\ \A b \in Clients : b # c => request'[b] = request[b]
  BY <1>1 DEF Records
<1>4. QED
  BY <1>2, <1>3 DEF Records, Keeps, Disconnect

LEMMA Ticked ==
    ASSUME Records, Tick
    PROVE  /\ Records'
           /\ \A c \in Clients :
                 /\ Keeps(c) /\ request'[c].gone = request[c].gone
                 /\ request'[c].age = IF Running(c) /\ request[c].age < 30
                                      THEN request[c].age + 10 ELSE request[c].age
<1>1. SUFFICES ASSUME NEW c \in Clients
               PROVE  /\ DOMAIN request'[c] = Fields
                      /\ Keeps(c) /\ request'[c].gone = request[c].gone
                      /\ request'[c].age = IF Running(c) /\ request[c].age < 30
                                           THEN request[c].age + 10 ELSE request[c].age
  BY DEF Records, Tick
<1> DEFINE r == [request[c] EXCEPT !.age = @ + 10]
<1>2. request'[c] = IF Running(c) /\ request[c].age < 30 THEN r ELSE request[c]
  BY DEF Tick, TenSeconds
<1>3. /\ DOMAIN r = Fields /\ r.pc = request[c].pc /\ r.ask = request[c].ask
      /\ r.step = request[c].step /\ r.got = request[c].got /\ r.age = request[c].age + 10
      /\ r.gone = request[c].gone
  BY DEF Records, Fields
<1> HIDE DEF r
<1>4. QED
  BY <1>2, <1>3 DEF Records, Keeps

LEMMA TimedOut ==
    ASSUME Records, ShutdownTimesOut
    PROVE  /\ Records'
           /\ \A c \in Clients :
                 IF Running(c)
                 THEN /\ request'[c].pc = "cut" /\ request'[c].got = request[c].got
                      /\ request'[c].ask = request[c].ask /\ request'[c].age = request[c].age
                 ELSE request'[c] = request[c]
<1>1. SUFFICES ASSUME NEW c \in Clients
               PROVE  /\ DOMAIN request'[c] = Fields
                      /\ IF Running(c)
                         THEN /\ request'[c].pc = "cut" /\ request'[c].got = request[c].got
                              /\ request'[c].ask = request[c].ask
                              /\ request'[c].age = request[c].age
                         ELSE request'[c] = request[c]
  BY DEF Records, ShutdownTimesOut
<1> DEFINE r == [request[c] EXCEPT !.pc = "cut"]
<1>2. request'[c] = IF Running(c) THEN r ELSE request[c]
  BY DEF ShutdownTimesOut
<1>3. /\ DOMAIN r = Fields /\ r.pc = "cut" /\ r.ask = request[c].ask
      /\ r.got = request[c].got /\ r.age = request[c].age
  BY DEF Records, Fields
<1> HIDE DEF r
<1>4. QED
  BY <1>2, <1>3 DEF Records

-----------------------------------------------------------------------------
(* Requests under way are at a step of their handler. *)

Phase(c) ==
    /\ request[c].pc \in {"idle", "running", "done", "cut"}
    /\ Running(c) => /\ Accepted(Ask(c))
                     /\ request[c].step \in 1..Len(HandlerOf(c).steps)

Phases == Records /\ \A c \in Clients : Phase(c)

LEMMA PhasesHold == Spec => []Phases
<1>1. Init => Phases
  BY DEF Init, Phases, Records, Phase, Idle, Fields, Running
<1>2. Phases /\ [Next]_vars => Phases'
  <2> SUFFICES ASSUME Phases, [Next]_vars PROVE Phases'
    OBVIOUS
  <2> USE DEF Running, Ask, HandlerOf
  <2>1. ASSUME NEW c \in Clients, NEW ask, Arrive(c, ask) PROVE Phases'
    <3>1. Accepted(ask) => 1 \in 1..Len(Route(ask).steps)
      BY AcceptedIsServed DEF Served, WellFormed
    <3>2. Phase(c)'
      BY <2>1, <3>1, Arrived DEF Phases, Phase, Route
    <3>3. \A b \in Clients : b # c => Phase(b)'
      BY <2>1, Arrived DEF Phases, Phase
    <3>4. QED
      BY <2>1, <3>2, <3>3, Arrived DEF Phases
  <2>2. ASSUME NEW c \in Clients, Handle(c) PROVE Phases'
    <3>1. Running(c) /\ Records' /\ OnlyOf(c) /\ (Continues(c) \/ Succeeds(c) \/ Fails(c))
      BY <2>2, Handled DEF Phases
    <3>2. Accepted(Ask(c)) /\ request[c].step \in 1..Len(HandlerOf(c).steps)
      BY <3>1 DEF Phases, Phase
    <3>3. Len(HandlerOf(c).steps) \in Nat
      BY <3>2, AcceptedIsServed DEF Served, WellFormed, Route
    <3>4. Phase(c)'
      BY <3>1, <3>2, <3>3 DEF Phase, OnlyOf, Continues, Succeeds, Fails
    <3>5. \A b \in Clients : b # c => Phase(b)'
      BY <3>1 DEF Phases, Phase, OnlyOf
    <3>6. QED
      BY <3>1, <3>4, <3>5 DEF Phases
  <2>3. ASSUME NEW c \in Clients, Disconnect(c) PROVE Phases'
    BY <2>3, Disconnected DEF Phases, Phase, Keeps
  <2>4. CASE Tick
    BY <2>4, Ticked DEF Phases, Phase, Keeps
  <2>5. CASE ShutdownTimesOut
    BY <2>5, TimedOut DEF Phases, Phase
  <2>6. CASE Signal \/ ShutdownReturns \/ UNCHANGED vars
    BY <2>6 DEF Signal, ShutdownReturns, vars, Phases, Phase, Records
  <2>7. QED
    BY <2>1, <2>2, <2>3, <2>4, <2>5, <2>6 DEF Next
<1>3. QED
  BY <1>1, <1>2, PTL DEF Spec

-----------------------------------------------------------------------------
(* Operations. *)

\* That a request asks for a sync or refresh.
AsksOperation(ask) == ask.path = "argocd/apps/" /\ Last(ask) \in {"sync", "refresh"}

\* Only what a request has done by its last step can be answered as a success.
Asked(c) ==
    /\ Started(c) # {} =>
          /\ Ask(c).method = "POST" /\ (apiKeys = {} \/ Ask(c).key \in apiKeys)
          /\ Ask(c).path = "argocd/apps/"
          /\ \E kind \in {"sync", "refresh"} :
                /\ Last(Ask(c)) = kind
                /\ Started(c) = {[client |-> c, kind |-> kind, app |-> Ask(c).parts[2]]}
    /\ request[c].got \in {400, 401, 403, 404, 405} => Started(c) = {}
    /\ request[c].got = 200 /\ Ask(c).method = "POST" /\ AsksOperation(Ask(c)) => Started(c) # {}

\* Until its end it has done nothing, and behind the first step it is a POST.
Unanswered(c) ==
    /\ request[c].pc # "done" => request[c].got = 0 /\ Started(c) = {}
    /\ Running(c) /\ AsksOperation(Ask(c)) /\ request[c].step > 1 => Ask(c).method = "POST"

OpsInv == \A c \in Clients : Asked(c) /\ Unanswered(c)

LEMMA StartedByOthers ==
    ASSUME NEW c, NEW b, b # c,
           operations' = operations \/ operations' = operations \cup {Operation(c)}
    PROVE  Started(b)' = Started(b)
  BY DEF Started, Operation

LEMMA StartedMore ==
    ASSUME NEW c, operations' = operations \cup {Operation(c)}
    PROVE  Started(c)' = Started(c) \cup {Operation(c)}
  BY DEF Started, Operation

\* Whatever changes no answer and no operation.
LEMMA OpsKept ==
    ASSUME NEW b, Asked(b), Unanswered(b), Started(b)' = Started(b),
           request'[b].ask = request[b].ask, request'[b].step = request[b].step,
           request'[b].got = request[b].got,
           \/ request'[b].pc = request[b].pc
           \/ request[b].pc = "running" /\ request'[b].pc = "cut"
    PROVE  Asked(b)' /\ Unanswered(b)'
  BY DEF Asked, Unanswered, Ask, AsksOperation, Last, Running

LEMMA Refused ==
    ASSUME NEW ask, ~Accepted(ask)
    PROVE  /\ Middleware(ask) \in {200, 401, 403, 404, 501}
           /\ Middleware(ask) = 200 => ask.method = "OPTIONS" \/ ask.path # "argocd/apps/"
  BY DEF Accepted, Middleware, AuthMiddleware, CORSMiddleware, Other, next

LEMMA OpsArrive ==
    ASSUME Phases, OpsInv, NEW c \in Clients, NEW ask, Arrive(c, ask)
    PROVE  OpsInv'
<1>1. /\ request[c].pc = "idle" /\ operations' = operations
      /\ \A b \in Clients : b # c => request'[b] = request[b]
  BY Arrived DEF Phases
<1>2. \A b \in Clients : b # c => Asked(b)' /\ Unanswered(b)'
  BY <1>1, OpsKept DEF OpsInv, Started
<1>3. Started(c) = {} /\ Started(c)' = {}
  BY <1>1 DEF OpsInv, Unanswered, Started
<1>4. /\ request'[c].ask = ask
      /\ \/ /\ Accepted(ask) /\ request'[c].pc = "running" /\ request'[c].step = 1
            /\ request'[c].got = 0
         \/ /\ ~Accepted(ask) /\ request'[c].pc = "done" /\ request'[c].got = Middleware(ask)
  BY Arrived DEF Phases
<1>5. Unanswered(c)'
  BY <1>3, <1>4 DEF Unanswered, Running
<1>6. request'[c].got = 200 => ask.method = "OPTIONS" \/ ask.path # "argocd/apps/"
  BY <1>4, Refused
<1>7. Asked(c)'
  BY <1>3, <1>4, <1>6 DEF Asked, Ask, AsksOperation
<1>8. QED
  BY <1>2, <1>5, <1>7 DEF OpsInv

LEMMA OpsHandle ==
    ASSUME Phases, OpsInv, NEW c \in Clients, Handle(c)
    PROVE  OpsInv'
<1> DEFINE h == HandlerOf(c)
           s == request[c].step
<1>1. Running(c) /\ OnlyOf(c) /\ (Continues(c) \/ Succeeds(c) \/ Fails(c))
  BY Handled DEF Phases
<1>2. operations' = operations \/ operations' = operations \cup {Operation(c)}
  <2>1. CASE Continues(c)
    <3>1. Served(Ask(c)) /\ s \in 1..Len(h.steps)
      BY <1>1, AcceptedIsServed DEF Phases, Phase
    <3>2. Step(c) \in {"sync", "refresh"} => s = 7 /\ Len(h.steps) = 7
      BY <3>1 DEF Served, Operates, Step, HandlerOf, Route
    <3>3. s < Len(h.steps) /\ (Step(c) \notin {"sync", "refresh"} => operations' = operations)
      BY <2>1 DEF Continues
    <3>4. Step(c) \notin {"sync", "refresh"}
      <4>1. SUFFICES ASSUME Step(c) \in {"sync", "refresh"} PROVE FALSE
        OBVIOUS
      <4>2. s = 7 /\ Len(h.steps) = 7 /\ s < Len(h.steps)
        BY <3>2, <3>3, <4>1
      <4>3. QED
        BY <4>2
    <3>5. QED
      BY <3>3, <3>4
  <2>2. QED
    BY <1>1, <2>1 DEF Succeeds, Fails
<1>3. \A b \in Clients : b # c => Asked(b)' /\ Unanswered(b)'
  <2>1. TAKE b \in Clients
  <2>2. HAVE b # c
  <2>3. request'[b] = request[b]
    BY <1>1, <2>2 DEF OnlyOf
  <2>4. QED
    BY <1>2, <2>2, <2>3, StartedByOthers, OpsKept DEF OpsInv
<1>4. Served(Ask(c)) /\ s \in 1..Len(h.steps) /\ Started(c) = {} /\ request[c].got = 0
  BY <1>1, AcceptedIsServed DEF Phases, Phase, OpsInv, Unanswered, Running
<1>5. Step(c) = h.steps[s][1]
  BY DEF Step
<1>6. Ask(c)' = Ask(c)
  BY <1>1 DEF Ask, OnlyOf
<1>7. AsksOperation(Ask(c)) => Operates(h, Last(Ask(c)))
  BY <1>4 DEF Served, AsksOperation, HandlerOf, Route
<1>8. Step(c) \in {"sync", "refresh"} =>
          /\ s = 7 /\ Len(h.steps) = 7 /\ h.steps[s][2] = 500
          /\ Ask(c).method = "POST" /\ (apiKeys = {} \/ Ask(c).key \in apiKeys)
          /\ Ask(c).path = "argocd/apps/" /\ Last(Ask(c)) = Step(c)
  <2>1. HAVE Step(c) \in {"sync", "refresh"}
  <2>2. s = 7 /\ Operates(h, Step(c)) /\ AsksOperation(Ask(c)) /\ Last(Ask(c)) = Step(c)
    BY <1>4, <1>5, <2>1 DEF Served, HandlerOf, Route, AsksOperation
  <2>3. Ask(c).method = "POST"
    BY <1>1, <2>2 DEF OpsInv, Unanswered
  <2>4. Len(h.steps) = 7 /\ h.steps[7][2] = 500
    BY <2>2 DEF Operates
  <2>5. QED
    BY <1>4, <2>2, <2>3, <2>4 DEF Served, AsksOperation
<1>9. CASE Continues(c)
  <2>1. Started(c)' = {} /\ request'[c].got = 0 /\ request'[c].step = s + 1
    <3>1. /\ s < Len(h.steps) /\ request'[c].step = s + 1 /\ request'[c].got = request[c].got
          /\ Step(c) \notin {"sync", "refresh"} => operations' = operations
      BY <1>9 DEF Continues
    <3>2. Step(c) \notin {"sync", "refresh"}
      <4>1. SUFFICES ASSUME Step(c) \in {"sync", "refresh"} PROVE FALSE
        OBVIOUS
      <4>2. s = 7 /\ Len(h.steps) = 7 /\ s < Len(h.steps)
        BY <1>8, <3>1, <4>1
      <4>3. QED
        BY <4>2
    <3>3. QED
      BY <1>4, <3>1, <3>2 DEF Started
  <2>2. AsksOperation(Ask(c)) /\ s + 1 > 1 => Ask(c).method = "POST"
    <3>1. HAVE AsksOperation(Ask(c))
    <3>2. s > 1 \/ Step(c) = "POST"
      BY <1>4, <1>5, <1>7, <3>1 DEF Operates
    <3>3. QED
      BY <1>1, <1>9, <3>1, <3>2 DEF OpsInv, Unanswered, Continues
  <2>3. Asked(c)' /\ Unanswered(c)'
    BY <1>6, <2>1, <2>2 DEF Asked, Unanswered, Ask
  <2>4. QED
    BY <1>3, <2>3 DEF OpsInv
<1>10. CASE (Succeeds(c) \/ Fails(c)) /\ operations' = operations \cup {Operation(c)}
            /\ Step(c) \in {"sync", "refresh"}
  <2>1. Started(c)' = {[client |-> c, kind |-> Last(Ask(c)), app |-> Ask(c).parts[2]]}
    BY <1>4, <1>8, <1>10, StartedMore DEF Operation
  <2>2. request'[c].got \notin {400, 401, 403, 404, 405} /\ request'[c].pc = "done"
    BY <1>8, <1>10 DEF Succeeds, Fails, Answer
  <2>3. Started(c)' # {}
    BY <2>1
  <2>4. Asked(c)' /\ Unanswered(c)'
    BY <1>6, <1>8, <1>10, <2>1, <2>2, <2>3 DEF Asked, Unanswered, Running
  <2>5. QED
    BY <1>3, <2>4 DEF OpsInv
<1>11. CASE Succeeds(c) /\ operations' = operations /\ Step(c) \notin {"sync", "refresh"}
  <2>1. ~AsksOperation(Ask(c))
    <3>1. SUFFICES ASSUME AsksOperation(Ask(c)) PROVE FALSE
      OBVIOUS
    <3>2. Operates(h, Last(Ask(c))) /\ Last(Ask(c)) \in {"sync", "refresh"}
      BY <1>7, <3>1 DEF AsksOperation
    <3>3. s = 7
      BY <1>4, <1>11, <3>2 DEF Succeeds, Operates
    <3>4. QED
      BY <1>5, <1>11, <3>2, <3>3 DEF Operates
  <2>2. Started(c)' = {} /\ request'[c].pc = "done"
    BY <1>4, <1>11 DEF Succeeds, Started
  <2>3. Asked(c)' /\ Unanswered(c)'
    BY <1>6, <2>1, <2>2 DEF Asked, Unanswered, Running
  <2>4. QED
    BY <1>3, <2>3 DEF OpsInv
<1>12. CASE Fails(c) /\ operations' = operations
  <2>1. Started(c)' = {} /\ request'[c].pc = "done"
    BY <1>4, <1>12 DEF Fails, Started
  <2>2. AsksOperation(Ask(c)) => request'[c].got # 200
    <3>1. HAVE AsksOperation(Ask(c))
    <3>2. Operates(h, Last(Ask(c)))
      BY <1>7, <3>1
    <3>3. s \in 1..6 \/ s = 7
      BY <1>4, <3>2 DEF Operates
    <3>4. h.steps[s][2] # 200
      BY <3>2, <3>3 DEF Operates
    <3>5. QED
      BY <1>12, <3>4 DEF Fails, Answer
  <2>3. Asked(c)' /\ Unanswered(c)'
    BY <1>6, <2>1, <2>2 DEF Asked, Unanswered, Running
  <2>4. QED
    BY <1>3, <2>3 DEF OpsInv
<1>13. QED
  BY <1>1, <1>9, <1>10, <1>11, <1>12 DEF Succeeds, Fails

\* Something happens in ArgoCD only for a POST with a known key on the path of
\* that operation, at most once; whoever is told that the request was wrong has
\* started nothing, and whoever is told of success has.
THEOREM OnlyWhatWasAsked == Spec => []OperationsAsked
<1>1. Init => OpsInv
  BY DEF Init, OpsInv, Asked, Unanswered, Started, Idle, Running
<1>2. Phases /\ OpsInv /\ [Next]_vars => OpsInv'
  <2> SUFFICES ASSUME Phases, OpsInv, [Next]_vars PROVE OpsInv'
    OBVIOUS
  <2>1. ASSUME NEW c \in Clients, NEW ask, Arrive(c, ask) PROVE OpsInv'
    BY <2>1, OpsArrive
  <2>2. ASSUME NEW c \in Clients, Handle(c) PROVE OpsInv'
    BY <2>2, OpsHandle
  <2>3. ASSUME NEW c \in Clients, Disconnect(c) PROVE OpsInv'
    <3>1. \A b \in Clients : Started(b)' = Started(b) /\ Keeps(b)
      BY <2>3, Disconnected DEF Phases, Started, Keeps
    <3>2. QED
      BY <3>1, OpsKept DEF OpsInv, Keeps
  <2>4. CASE Tick
    <3>1. \A b \in Clients : Started(b)' = Started(b) /\ Keeps(b)
      BY <2>4, Ticked DEF Phases, Started, Tick
    <3>2. QED
      BY <3>1, OpsKept DEF OpsInv, Keeps
  <2>5. CASE ShutdownTimesOut
    <3>1. ASSUME NEW b \in Clients PROVE Asked(b)' /\ Unanswered(b)'
      <4>1. Started(b)' = Started(b)
        BY <2>5 DEF Started, ShutdownTimesOut
      <4>2. CASE ~Running(b)
        <5>1. request'[b] = request[b]
          BY <2>5, <4>2, TimedOut DEF Phases
        <5>2. QED
          BY <4>1, <5>1, OpsKept DEF OpsInv
      <4>3. CASE Running(b)
        <5>1. /\ request'[b].pc = "cut" /\ request'[b].got = request[b].got
              /\ request'[b].ask = request[b].ask
          BY <2>5, <4>3, TimedOut DEF Phases
        <5>2. Started(b) = {} /\ request[b].got = 0
          BY <4>3 DEF OpsInv, Unanswered, Running
        <5>3. QED
          BY <4>1, <5>1, <5>2 DEF Asked, Unanswered, Running
      <4>4. QED
        BY <4>2, <4>3
    <3>2. QED
      BY <3>1 DEF OpsInv
  <2>6. CASE Signal \/ ShutdownReturns \/ UNCHANGED vars
    <3>1. request' = request /\ operations' = operations
      BY <2>6 DEF Signal, ShutdownReturns, vars
    <3>2. \A b \in Clients : Started(b)' = Started(b)
      BY <3>1 DEF Started
    <3>3. QED
      BY <3>1, <3>2, OpsKept DEF OpsInv
  <2>7. QED
    BY <2>1, <2>2, <2>3, <2>4, <2>5, <2>6 DEF Next
<1>3. OpsInv => OperationsAsked
  <2>1. SUFFICES ASSUME NEW c \in Clients, Asked(c)
                 PROVE  /\ Started(c) # {} =>
                              /\ Ask(c).method = "POST" /\ (apiKeys = {} \/ Ask(c).key \in apiKeys)
                              /\ Ask(c).path = "argocd/apps/"
                              /\ \E kind \in {"sync", "refresh"} :
                                    /\ Ask(c).parts[Len(Ask(c).parts)] = kind
                                    /\ Started(c) = {[client |-> c, kind |-> kind, app |-> Ask(c).parts[2]]}
                        /\ request[c].got \in {400, 401, 403, 404, 405} => Started(c) = {}
                        /\ /\ request[c].got = 200 /\ Ask(c).method = "POST" /\ Ask(c).path = "argocd/apps/"
                           /\ Ask(c).parts[Len(Ask(c).parts)] \in {"sync", "refresh"}
                           => Started(c) # {}
    BY DEF OpsInv, OperationsAsked
  <2>2. QED
    BY <2>1 DEF Asked, AsksOperation, Last
<1>4. QED
  BY <1>1, <1>2, <1>3, PhasesHold, PTL DEF Spec

-----------------------------------------------------------------------------
(* Time. *)

Ages == {0, 10, 20, 30}

\* Nobody waits longer than its handler may, and whoever the signal finds
\* waiting has waited at least since.
InTime(c) ==
    /\ request[c].age \in Ages
    /\ Running(c) /\ HandlerOf(c).timeout > 0 => request[c].age <= HandlerOf(c).timeout
    /\ Running(c) /\ server = "draining" => request[c].age >= drained

\* How it ends.
EndsWell(c) ==
    /\ request[c].pc = "done" /\ Ask(c).path \in Quick /\ request[c].got = 0 => request[c].gone
    /\ request[c].pc = "cut" => Ask(c).path \in OfArgoCD

TimeInv ==
    /\ drained \in Ages /\ (server = "serving" => drained = 0)
    /\ \A c \in Clients : InTime(c) /\ EndsWell(c)

LEMMA TimeUnchanged ==
    ASSUME NEW b, InTime(b), EndsWell(b), request'[b] = request[b], drained' = drained,
           server' = server \/ server' # "draining" \/ drained = 0
    PROVE  InTime(b)' /\ EndsWell(b)'
<1>1. /\ Running(b)' = Running(b) /\ HandlerOf(b)' = HandlerOf(b) /\ Ask(b)' = Ask(b)
      /\ request'[b].age \in Ages
  BY DEF Running, HandlerOf, Ask, InTime
<1>2. Running(b) /\ server' = "draining" => request[b].age >= drained
  BY DEF InTime, Ages
<1>3. QED
  BY <1>1, <1>2 DEF InTime, EndsWell

LEMMA TimeArrive ==
    ASSUME Phases, TimeInv, NEW c \in Clients, NEW ask, Arrive(c, ask)
    PROVE  TimeInv'
<1>1. /\ server = "serving" /\ UNCHANGED <<server, drained>>
      /\ \A b \in Clients : b # c => request'[b] = request[b]
      /\ request'[c].ask = ask /\ request'[c].age = 0
      /\ \/ Accepted(ask) /\ request'[c].pc = "running"
         \/ ~Accepted(ask) /\ request'[c].pc = "done" /\ request'[c].got = Middleware(ask)
  BY Arrived DEF Phases
<1>2. \A b \in Clients : b # c => InTime(b)' /\ EndsWell(b)'
  BY <1>1, TimeUnchanged DEF TimeInv
<1>3. Accepted(ask) => Route(ask).timeout \in {0, 10, 30}
  BY AcceptedIsServed DEF Served, WellFormed
<1>4. HandlerOf(c)' = Route(ask)
  BY <1>1 DEF HandlerOf, Ask, Route
<1>5. InTime(c)'
  BY <1>1, <1>3, <1>4 DEF InTime, Ages, Running, TimeInv
<1>6. EndsWell(c)'
  BY <1>1, Refused DEF EndsWell
<1>7. QED
  BY <1>1, <1>2, <1>5, <1>6 DEF TimeInv

LEMMA TimeHandle ==
    ASSUME Phases, TimeInv, NEW c \in Clients, Handle(c)
    PROVE  TimeInv'
<1>1. Running(c) /\ OnlyOf(c) /\ (Continues(c) \/ Succeeds(c) \/ Fails(c))
  BY Handled DEF Phases
<1>2. /\ UNCHANGED <<server, drained>> /\ request'[c].ask = request[c].ask
      /\ request'[c].age = request[c].age /\ request'[c].gone = request[c].gone
      /\ HandlerOf(c)' = HandlerOf(c) /\ Ask(c)' = Ask(c)
  BY <1>1 DEF OnlyOf, HandlerOf, Ask
<1>3. \A b \in Clients : b # c => InTime(b)' /\ EndsWell(b)'
  BY <1>1, TimeUnchanged DEF TimeInv, OnlyOf
<1>4. InTime(c)'
  BY <1>1, <1>2 DEF TimeInv, InTime
<1>5. Served(Ask(c)) /\ request[c].step \in 1..Len(HandlerOf(c).steps)
  BY <1>1, AcceptedIsServed DEF Phases, Phase
<1>6. EndsWell(c)'
  <2>1. CASE Continues(c)
    BY <2>1 DEF EndsWell, Continues
  <2>2. CASE Succeeds(c) \/ Fails(c)
    <3>1. request'[c].pc = "done"
      BY <2>2 DEF Succeeds, Fails
    <3>2. PICK status \in Statuses : request'[c].got = Answer(c, status)
      <4>1. 200 \in Statuses
        BY DEF Statuses
      <4>2. HandlerOf(c).steps[request[c].step][2] \in Statuses
        BY <1>5 DEF Served, WellFormed, HandlerOf, Route
      <4>3. QED
        BY <2>2, <4>1, <4>2 DEF Succeeds, Fails
    <3>3. Ask(c).path \in Quick => request[c].age \in {0, 10}
      <4>1. HAVE Ask(c).path \in Quick
      <4>2. HandlerOf(c).timeout = 10
        BY <1>5, <4>1 DEF Served, HandlerOf, Route
      <4>3. request[c].age \in Ages /\ request[c].age <= 10
        BY <1>1, <4>2 DEF TimeInv, InTime
      <4>4. QED
        BY <4>3 DEF Ages
    <3>4. Ask(c).path \in Quick /\ request'[c].got = 0 => request[c].gone
      BY <3>2, <3>3 DEF Answer, WriteTimeout, Statuses
    <3>5. QED
      BY <1>2, <3>1, <3>4 DEF EndsWell
  <2>3. QED
    BY <1>1, <2>1, <2>2
<1>7. QED
  BY <1>2, <1>3, <1>4, <1>6 DEF TimeInv

LEMMA TimeTick ==
    ASSUME Phases, TimeInv, Tick
    PROVE  TimeInv'
<1>1. /\ server' = server /\ \A c \in Clients : ~Expired(c)
      /\ IF server = "draining" THEN drained < 30 /\ drained' = drained + 10
         ELSE drained' = drained
  BY DEF Tick, ShutdownTimeout, TenSeconds
<1>2. drained' \in Ages /\ (server' = "serving" => drained' = 0)
  BY <1>1 DEF TimeInv, Ages
<1>3. ASSUME NEW c \in Clients PROVE InTime(c)' /\ EndsWell(c)'
  <2>1. /\ Keeps(c) /\ request'[c].gone = request[c].gone
        /\ request'[c].age = IF Running(c) /\ request[c].age < 30
                             THEN request[c].age + 10 ELSE request[c].age
    BY Ticked DEF Phases
  <2>2. /\ Running(c)' <=> Running(c)
        /\ HandlerOf(c)' = HandlerOf(c) /\ Ask(c)' = Ask(c)
    BY <2>1 DEF Keeps, Running, HandlerOf, Ask
  <2>3. request[c].age \in Ages /\ drained \in Ages
    BY DEF TimeInv, InTime
  <2>4. request'[c].age \in Ages
    BY <2>1, <2>3 DEF Ages
  <2>5. Running(c) /\ HandlerOf(c).timeout > 0 => request'[c].age <= HandlerOf(c).timeout
    <3>1. HAVE Running(c) /\ HandlerOf(c).timeout > 0
    <3>2. ~(request[c].age >= HandlerOf(c).timeout)
      BY <1>1, <3>1 DEF Expired
    <3>3. HandlerOf(c).timeout \in {10, 30}
      BY <3>1, AcceptedIsServed DEF Phases, Phase, Served, WellFormed, HandlerOf, Route
    <3>4. QED
      BY <2>1, <2>3, <3>2, <3>3 DEF Ages
  <2>6. Running(c) /\ server = "draining" => request'[c].age >= drained'
    <3>1. HAVE Running(c) /\ server = "draining"
    <3>2. request[c].age >= drained
      BY <3>1 DEF TimeInv, InTime
    <3>3. QED
      BY <1>1, <2>1, <2>3, <3>1, <3>2 DEF Ages
  <2>7. InTime(c)'
    BY <1>1, <2>2, <2>4, <2>5, <2>6 DEF InTime
  <2>8. EndsWell(c)'
    BY <2>1, <2>2 DEF EndsWell, TimeInv, Keeps
  <2>9. QED
    BY <2>7, <2>8
<1>4. QED
  BY <1>2, <1>3 DEF TimeInv

LEMMA TimeCut ==
    ASSUME Phases, TimeInv, ShutdownTimesOut
    PROVE  TimeInv'
<1>1. /\ server = "draining" /\ server' = "killed" /\ drained' = drained /\ drained >= 30
      /\ \A c \in Clients : ~Expired(c)
  BY DEF ShutdownTimesOut, ShutdownTimeout
<1>2. ASSUME NEW c \in Clients PROVE InTime(c)' /\ EndsWell(c)'
  <2>1. CASE ~Running(c)
    <3>1. request'[c] = request[c]
      BY <2>1, TimedOut DEF Phases
    <3>2. QED
      BY <1>1, <3>1, TimeUnchanged DEF TimeInv
  <2>2. CASE Running(c)
    <3>1. /\ request'[c].pc = "cut" /\ request'[c].ask = request[c].ask
          /\ request'[c].age = request[c].age
      BY <2>2, TimedOut DEF Phases
    <3>2. request[c].age \in Ages /\ drained \in Ages /\ request[c].age >= drained
      BY <1>1, <2>2 DEF TimeInv, InTime
    <3>3. request[c].age = 30
      BY <1>1, <3>2 DEF Ages
    <3>4. HandlerOf(c).timeout \in {0, 10, 30} /\ (HandlerOf(c).timeout = 0 => Ask(c).path \in OfArgoCD)
      BY <2>2, AcceptedIsServed DEF Phases, Phase, Served, WellFormed, HandlerOf, Route
    <3>5. Ask(c).path \in OfArgoCD
      BY <1>1, <2>2, <3>3, <3>4 DEF Expired
    <3>6. EndsWell(c)'
      BY <3>1, <3>5 DEF EndsWell, Ask
    <3>7. InTime(c)'
      BY <3>1, <3>2 DEF InTime, Running
    <3>8. QED
      BY <3>6, <3>7
  <2>3. QED
    BY <2>1, <2>2
<1>3. QED
  BY <1>1, <1>2 DEF TimeInv

\* The timeouts of handlers, connections and the shutdown nest: a handler that
\* needs only the cluster ends before its connection does, and one with any
\* deadline before the shutdown does.
THEOREM DeadlinesNest == Spec => []TimeoutsNest
<1>1. Init => TimeInv
  BY DEF Init, TimeInv, InTime, EndsWell, Idle, Running, Ages
<1>2. Phases /\ TimeInv /\ [Next]_vars => TimeInv'
  <2> SUFFICES ASSUME Phases, TimeInv, [Next]_vars PROVE TimeInv'
    OBVIOUS
  <2>1. ASSUME NEW c \in Clients, NEW ask, Arrive(c, ask) PROVE TimeInv'
    BY <2>1, TimeArrive
  <2>2. ASSUME NEW c \in Clients, Handle(c) PROVE TimeInv'
    BY <2>2, TimeHandle
  <2>3. ASSUME NEW c \in Clients, Disconnect(c) PROVE TimeInv'
    <3>1. /\ Running(c) /\ Keeps(c) /\ request'[c].age = request[c].age
          /\ \A b \in Clients : b # c => request'[b] = request[b]
          /\ UNCHANGED <<server, drained>>
      BY <2>3, Disconnected DEF Phases
    <3>2. \A b \in Clients : b # c => InTime(b)' /\ EndsWell(b)'
      BY <3>1, TimeUnchanged DEF TimeInv
    <3>3. InTime(c)'
      BY <3>1 DEF TimeInv, InTime, Keeps, Running, HandlerOf, Ask
    <3>4. EndsWell(c)'
      BY <3>1 DEF EndsWell, Keeps, Running
    <3>5. QED
      BY <3>1, <3>2, <3>3, <3>4 DEF TimeInv
  <2>4. CASE Tick
    BY <2>4, TimeTick
  <2>5. CASE ShutdownTimesOut
    BY <2>5, TimeCut
  <2>6. CASE Signal
    <3>1. server = "serving" /\ server' = "draining" /\ request' = request /\ drained' = drained
      BY <2>6 DEF Signal
    <3>2. drained = 0
      BY <3>1 DEF TimeInv
    <3>3. QED
      BY <3>1, <3>2, TimeUnchanged DEF TimeInv
  <2>7. CASE ShutdownReturns
    <3>1. server' = "stopped" /\ request' = request /\ drained' = drained
      BY <2>7 DEF ShutdownReturns
    <3>2. QED
      BY <3>1, TimeUnchanged DEF TimeInv
  <2>8. CASE UNCHANGED vars
    BY <2>8, TimeUnchanged DEF TimeInv, vars
  <2>9. QED
    BY <2>1, <2>2, <2>3, <2>4, <2>5, <2>6, <2>7, <2>8 DEF Next
<1>3. TimeInv => TimeoutsNest
  BY DEF TimeInv, EndsWell, TimeoutsNest
<1>4. QED
  BY <1>1, <1>2, <1>3, PhasesHold, PTL DEF Spec

-----------------------------------------------------------------------------
(* The metrics of a workload. *)

\* The entry of a container holds what the vectors of these queries have for it.
EntryOf(samples, queries, container, entry) ==
    LET own == {s \in samples : s.container = container /\ s.query \in queries} IN
    /\ DOMAIN entry = {s.query : s \in own}
    /\ \A q \in DOMAIN entry : \E s \in own : s.query = q /\ s.value = entry[q]

Merged(samples, queries, metrics) ==
    /\ DOMAIN metrics = {s.container : s \in {s \in samples : s.query \in queries}}
    /\ \A container \in DOMAIN metrics : EntryOf(samples, queries, container, metrics[container])

LEMMA EntryUntouched ==
    ASSUME NEW samples, NEW queries, NEW query, NEW c, NEW entry,
           EntryOf(samples, queries, c, entry),
           \A s \in samples : ~(s.query = query /\ s.container = c)
    PROVE  EntryOf(samples, queries \cup {query}, c, entry)
<1>1. {s \in samples : s.container = c /\ s.query \in queries \cup {query}}
          = {s \in samples : s.container = c /\ s.query \in queries}
  OBVIOUS
<1>2. QED
  BY <1>1 DEF EntryOf

LEMMA EntryOfNone ==
    ASSUME NEW samples, NEW queries, NEW c,
           \A s \in samples : ~(s.query \in queries /\ s.container = c)
    PROVE  EntryOf(samples, queries, c, [q \in {} |-> 0])
  BY DEF EntryOf

With(entry, query, value) ==
    [q \in DOMAIN entry \cup {query} |-> IF q = query THEN value ELSE entry[q]]

LEMMA EntrySet ==
    ASSUME NEW samples, NEW queries, NEW query, NEW c, NEW entry, NEW value,
           EntryOf(samples, queries, c, entry),
           \E s \in samples : s.query = query /\ s.container = c /\ s.value = value
    PROVE  EntryOf(samples, queries \cup {query}, c, With(entry, query, value))
<1> DEFINE own == {s \in samples : s.container = c /\ s.query \in queries}
           more == {s \in samples : s.container = c /\ s.query \in queries \cup {query}}
           new == With(entry, query, value)
<1>1. PICK s \in more : s.query = query /\ s.value = value
  OBVIOUS
<1>2. own \subseteq more /\ \A t \in more : t \in own \/ t.query = query
  OBVIOUS
<1>3. /\ DOMAIN entry = {t.query : t \in own}
      /\ \A q \in DOMAIN entry : \E t \in own : t.query = q /\ t.value = entry[q]
  BY DEF EntryOf
<1> HIDE DEF own, more
<1>4. DOMAIN new = {t.query : t \in more}
  BY <1>1, <1>2, <1>3 DEF With
<1>5. ASSUME NEW q \in DOMAIN new PROVE \E t \in more : t.query = q /\ t.value = new[q]
  <2>1. CASE q = query
    BY <1>1, <2>1 DEF With
  <2>2. CASE q # query
    BY <1>2, <1>3, <2>2 DEF With
  <2>3. QED
    BY <2>1, <2>2
<1>6. QED
  BY <1>4, <1>5 DEF EntryOf, more

\* One query more: every container of its vector gets its value, beside what it
\* had, and no other container changes.
LEMMA QueryMerges ==
    ASSUME NEW samples, NEW queries, NEW query, NEW metrics, Merged(samples, queries, metrics),
           NEW result \in P!queryAndExtract(metrics, samples, query)
    PROVE  Merged(samples, queries \cup {query}, result)
<1> DEFINE known(c) == IF c \in DOMAIN metrics THEN metrics[c] ELSE [q \in {} |-> 0]
           set(c, value) == [q \in DOMAIN known(c) \cup {query} |->
                                IF q = query THEN value ELSE known(c)[q]]
           of == {s.container : s \in {s \in samples : s.query = query}}
<1>1. PICK last \in P!Winners(P!Vector(samples, query)) :
          result = [c \in DOMAIN metrics \cup DOMAIN last |->
                      IF c \in DOMAIN last THEN set(c, last[c]) ELSE metrics[c]]
  BY DEF P!queryAndExtract
<1>2. /\ DOMAIN last = of
      /\ \A c \in of : \E s \in samples : s.query = query /\ s.container = c
                                          /\ s.value = last[c]
  BY DEF P!Winners, P!Vector, P!Containers
<1>3. DOMAIN metrics = {s.container : s \in {s \in samples : s.query \in queries}}
  BY DEF Merged
<1>4. DOMAIN result = {s.container : s \in {s \in samples : s.query \in queries \cup {query}}}
  BY <1>1, <1>2, <1>3
<1>5. ASSUME NEW c \in DOMAIN result
      PROVE  EntryOf(samples, queries \cup {query}, c, result[c])
  <2>1. EntryOf(samples, queries, c, known(c))
    <3>1. CASE c \in DOMAIN metrics
      <4>1. EntryOf(samples, queries, c, metrics[c]) /\ known(c) = metrics[c]
        BY <3>1 DEF Merged
      <4> HIDE DEF known
      <4>2. QED
        BY <4>1
    <3>2. CASE c \notin DOMAIN metrics
      <4>1. \A s \in samples : ~(s.query \in queries /\ s.container = c)
        BY <1>3, <3>2
      <4>2. known(c) = [q \in {} |-> 0]
        BY <3>2
      <4> HIDE DEF known
      <4>3. QED
        BY <4>1, <4>2, EntryOfNone
    <3>3. QED
      BY <3>1, <3>2
  <2>2. CASE c \in of
    <3>1. result[c] = set(c, last[c])
      BY <1>1, <1>2, <2>2
    <3>2. \E s \in samples : s.query = query /\ s.container = c /\ s.value = last[c]
      BY <1>2, <2>2
    <3> HIDE DEF known
    <3>3. EntryOf(samples, queries \cup {query}, c, With(known(c), query, last[c]))
      BY <2>1, <3>2, EntrySet
    <3>4. QED
      BY <3>1, <3>3 DEF With
  <2>3. CASE c \notin of
    <3>1. c \in DOMAIN metrics /\ result[c] = metrics[c]
      BY <1>1, <1>2, <2>3
    <3>2. \A s \in samples : ~(s.query = query /\ s.container = c)
      BY <2>3
    <3>3. EntryOf(samples, queries, c, metrics[c])
      BY <3>1 DEF Merged
    <3>4. EntryOf(samples, queries \cup {query}, c, metrics[c])
      BY <3>2, <3>3, EntryUntouched
    <3>5. QED
      BY <3>1, <3>4
  <2>4. QED
    BY <2>2, <2>3
<1>6. QED
  BY <1>4, <1>5 DEF Merged

\* The steps from the sixth on are the queries.
LEMMA MetricsSteps ==
    /\ Len(GetMetrics.steps) = 9
    /\ \A i \in 1..4 : GetMetrics.steps[5 + i][1] = P!Queries[i]
<1> DEFINE first == << <<"pair", 400>>, <<"tailoring", 404>> >> \o getAtelier
           five == first \o createPrometheusClient
<1>1. /\ <<"pair", 400>> \in Harmless /\ <<"tailoring", 404>> \in Harmless
      /\ <<"atelier-or-error", 500>> \in Harmless /\ <<"atelier-exists", 500>> \in Harmless
      /\ <<"prometheus-secret", 500>> \in Harmless
  BY DEF Harmless, HarmlessNames, Statuses
<1>2. << <<"pair", 400>>, <<"tailoring", 404>> >> \in Seq(Harmless) /\ getAtelier \in Seq(Harmless)
      /\ createPrometheusClient \in Seq(Harmless)
  BY <1>1 DEF getAtelier, createPrometheusClient
<1>3. Len(getAtelier) = 2 /\ Len(createPrometheusClient) = 1
  BY <1>1 DEF getAtelier, createPrometheusClient
<1>4. Len(<< <<"pair", 400>>, <<"tailoring", 404>> >>) = 2
  BY <1>1
<1>5. first \in Seq(Harmless)
      /\ Len(first) = Len(<< <<"pair", 400>>, <<"tailoring", 404>> >>) + Len(getAtelier)
  BY <1>2, Chained
<1>6. Len(first) = 4
  BY <1>3, <1>4, <1>5
<1>7. first \in Seq(Harmless) /\ createPrometheusClient \in Seq(Harmless)
  BY <1>2, <1>5
<1> HIDE DEF first
<1>8. five \in Seq(Harmless) /\ Len(five) = Len(first) + Len(createPrometheusClient)
  BY <1>7, Chained
<1>9. five \in Seq(Harmless)
  BY <1>8
<1>10. Len(five) = 5
  BY <1>3, <1>6, <1>8
<1> HIDE DEF five
<1>11. QueriesOfMetrics \in Seq(Harmless)
  BY QueriesChain DEF Chain
<1>12. /\ Len(QueriesOfMetrics) = 4 /\ DOMAIN QueriesOfMetrics = 1..4
       /\ \A i \in 1..4 : QueriesOfMetrics[i][1] = P!Queries[i]
  BY QueriesChain DEF QueriesOfMetrics, P!Queries
<1>13. /\ Len(five \o QueriesOfMetrics) = Len(five) + Len(QueriesOfMetrics)
       /\ \A i \in DOMAIN QueriesOfMetrics :
             (five \o QueriesOfMetrics)[Len(five) + i] = QueriesOfMetrics[i]
  BY <1>11, <1>9, Chained
<1>14. /\ Len(five \o QueriesOfMetrics) = 9
       /\ \A i \in 1..4 : (five \o QueriesOfMetrics)[5 + i][1] = P!Queries[i]
  BY <1>10, <1>12, <1>13
<1>15. GetMetrics.steps = five \o QueriesOfMetrics
  BY DEF GetMetrics, Handler, QueriesOfMetrics, five, first
<1>16. QED
  BY <1>14, <1>15

-----------------------------------------------------------------------------
(* What a request to GetMetrics has gathered. *)

\* That a record differs from another one only in what was read.
Like(r, q) ==
    /\ DOMAIN r = Fields
    /\ r.pc = q.pc /\ r.ask = q.ask /\ r.age = q.age /\ r.gone = q.gone /\ r.step = q.step
    /\ r.got = q.got

WindowsOrNone == Windows \cup {Null}

LEMMA HandlePasses ==
    ASSUME Records, NEW c \in Clients, Handle(c), request[c].window \in WindowsOrNone
    PROVE  \/ Failed(c)
           \/ \E r : Like(r, request[c]) /\ r.window \in WindowsOrNone /\ Passed(c, r)
<1>1. DOMAIN request[c] = Fields /\ Like(request[c], request[c])
  BY DEF Records, Like
<1>2. CASE Decide(c) \/ Read(c) \/ Operate(c) \/ WaitFails(c) \/ AnswerIsLost(c)
  <2>1. Failed(c) \/ Passed(c, request[c])
    BY <1>2 DEF Decide, Read, Operate, WaitFails, AnswerIsLost
  <2>2. QED
    BY <1>1, <2>1
<1>3. CASE ReadTailoring(c)
  <2>1. PICK window \in WindowsOrNone : Passed(c, [request[c] EXCEPT !.window = window])
    BY <1>3 DEF ReadTailoring, WindowsOrNone
  <2> DEFINE r == [request[c] EXCEPT !.window = window]
  <2>2. Like(r, request[c]) /\ r.window \in WindowsOrNone
    BY <1>1 DEF Like, Fields
  <2>3. QED
    BY <2>1, <2>2
<1>4. CASE ReadAtelier(c)
  <2>1. PICK atelier : Passed(c, [request[c] EXCEPT !.atelier = atelier])
    BY <1>4 DEF ReadAtelier
  <2> DEFINE r == [request[c] EXCEPT !.atelier = atelier]
  <2>2. Like(r, request[c]) /\ r.window \in WindowsOrNone
    BY <1>1 DEF Like, Fields
  <2>3. QED
    BY <2>1, <2>2
<1>5. CASE Query(c) \/ QueryRange(c) \/ GetMetricsOfOpenCost(c) \/ GetAllocations(c)
  <2>1. PICK source, data : Passed(c, [request[c] EXCEPT !.source = source, !.data = data])
    BY <1>5 DEF Query, QueryRange, GetMetricsOfOpenCost, GetAllocations
  <2> DEFINE r == [request[c] EXCEPT !.source = source, !.data = data]
  <2>2. Like(r, request[c]) /\ r.window \in WindowsOrNone
    BY <1>1 DEF Like, Fields
  <2>3. QED
    BY <2>1, <2>2
<1>6. QED
  BY <1>2, <1>3, <1>4, <1>5 DEF Handle

\* What passes is what the record becomes.
LEMMA PassedReads ==
    ASSUME Records, NEW c \in Clients, NEW r, Like(r, request[c]), Passed(c, r)
    PROVE  /\ request'[c].window = r.window /\ request'[c].source = r.source
           /\ request'[c].data = r.data /\ request'[c].ask = request[c].ask
           /\ IF request[c].step < Len(HandlerOf(c).steps)
              THEN request'[c].pc = request[c].pc /\ request'[c].step = request[c].step + 1
              ELSE request'[c].pc = "done"
<1> DEFINE on == [r EXCEPT !.step = @ + 1]
           end == [r EXCEPT !.pc = "done", !.got = Answer(c, 200), !.atelier = Null]
<1>1. /\ on.window = r.window /\ on.source = r.source /\ on.data = r.data /\ on.ask = r.ask
      /\ on.pc = r.pc /\ on.step = r.step + 1
  BY DEF Like, Fields
<1>2. /\ end.window = r.window /\ end.source = r.source /\ end.data = r.data /\ end.ask = r.ask
      /\ end.pc = "done"
  BY DEF Like, Fields
<1>3. request'[c] = IF r.step < Len(HandlerOf(c).steps) THEN on ELSE end
  BY DEF Passed, Records
<1> HIDE DEF on, end
<1>4. QED
  BY <1>1, <1>2, <1>3 DEF Like

LEMMA FailedReads ==
    ASSUME Records, NEW c \in Clients, Failed(c)
    PROVE  /\ request'[c].window = request[c].window /\ request'[c].data = Null
           /\ request'[c].pc = "done" /\ request'[c].ask = request[c].ask
<1> DEFINE got == Answer(c, HandlerOf(c).steps[request[c].step][2])
           r == [request[c] EXCEPT !.pc = "done", !.got = got, !.atelier = Null,
                                   !.data = Null, !.source = Null]
<1>1. request'[c] = r
  BY DEF Failed, Records, Fields
<1>2. r.window = request[c].window /\ r.data = Null /\ r.pc = "done" /\ r.ask = request[c].ask
  BY DEF Records, Fields
<1> HIDE DEF r
<1>3. QED
  BY <1>1, <1>2

\* The queries that are answered first.
First(k) == {P!Queries[i] : i \in 1..k}

\* What a record holds when k queries are answered, all from the same samples.
Gathered(r, k) ==
    /\ r.source \in SampleSets
    /\ Merged(r.source, First(k), r.data.containers)
    /\ r.window # Null => r.data.range = P!formatDuration(r.window)

MetricsOf(c) ==
    /\ request[c].window \in WindowsOrNone
    /\ Ask(c).path = "metrics/" =>
          /\ Running(c) /\ request[c].step > 6 => Gathered(request[c], request[c].step - 6)
          /\ request[c].pc = "done" /\ request[c].data # Null => Gathered(request[c], 4)

MetricsInv == \A c \in Clients : MetricsOf(c)

LEMMA QueryGathers ==
    ASSUME Records, NEW c \in Clients, Query(c), NEW k \in 0..3, Step(c) = P!Queries[k + 1],
           k > 0 => Gathered(request[c], k), request[c].window \in WindowsOrNone
    PROVE  \E r : /\ Like(r, request[c]) /\ r.window \in WindowsOrNone /\ Passed(c, r)
                  /\ Gathered(r, k + 1)
<1>1. /\ P!Queries[1] = "P95CPU" /\ P!Queries[2] = "P99CPU" /\ P!Queries[3] = "P95Memory"
      /\ P!Queries[4] = "P99Memory"
  BY DEF P!Queries
<1>2. Step(c) = P!Queries[1] <=> k = 0
  BY <1>1
<1> DEFINE before == IF Step(c) = P!Queries[1] THEN [container \in {} |-> Null]
                     ELSE request[c].data.containers
           range == P!formatDuration(analysisWindow(request[c]))
<1>3. PICK samples, containers :
          /\ samples \in IF Step(c) = P!Queries[1] THEN SampleSets ELSE {request[c].source}
          /\ containers \in P!queryAndExtract(before, samples, Step(c))
          /\ Passed(c, [request[c] EXCEPT !.source = samples,
                                          !.data = [range |-> range, containers |-> containers]])
  BY DEF Query
<1> DEFINE r == [request[c] EXCEPT !.source = samples,
                                   !.data = [range |-> range, containers |-> containers]]
<1>4. /\ Like(r, request[c]) /\ r.window = request[c].window /\ r.source = samples
      /\ r.data.containers = containers /\ r.data.range = range
  BY DEF Like, Records, Fields
<1>5. samples \in SampleSets /\ Merged(samples, First(k), before)
  <2>1. CASE k = 0
    <3>1. samples \in SampleSets /\ before = [container \in {} |-> Null] /\ First(k) = {}
      BY <1>2, <1>3, <2>1 DEF First
    <3>2. Merged(samples, {}, [container \in {} |-> Null])
      BY DEF Merged
    <3> HIDE DEF before
    <3>3. QED
      BY <3>1, <3>2
  <2>2. CASE k > 0
    <3>1. samples = request[c].source /\ before = request[c].data.containers
      BY <1>2, <1>3, <2>2
    <3> HIDE DEF before
    <3>2. QED
      BY <2>2, <3>1 DEF Gathered
  <2>3. QED
    BY <2>1, <2>2
<1>6. First(k) \cup {Step(c)} = First(k + 1)
  <2>1. \A i : i \in 1..(k + 1) <=> i \in 1..k \/ i = k + 1
    OBVIOUS
  <2>2. QED
    BY <2>1 DEF First
<1>7. Merged(samples, First(k + 1), containers)
  <2> HIDE DEF before
  <2>1. Merged(samples, First(k) \cup {Step(c)}, containers)
    BY <1>3, <1>5, QueryMerges
  <2>2. QED
    BY <1>6, <2>1
<1>8. r.window # Null => r.data.range = P!formatDuration(r.window)
  <2>1. request[c].window # Null => analysisWindow(request[c]) = request[c].window
    BY DEF analysisWindow
  <2>2. QED
    BY <1>4, <2>1
<1> HIDE DEF r
<1>9. Gathered(r, k + 1)
  BY <1>4, <1>5, <1>7, <1>8 DEF Gathered
<1>10. Passed(c, r)
  BY <1>3 DEF r
<1>11. QED
  BY <1>4, <1>9, <1>10

LEMMA GatheredNext ==
    ASSUME NEW r, NEW c, NEW k, Gathered(r, k),
           request'[c].window = r.window, request'[c].source = r.source, request'[c].data = r.data
    PROVE  Gathered(request[c], k)'
  BY DEF Gathered

\* Nothing but a query, or a failure, happens at a step that is a query.
LEMMA OnlyQueries ==
    ASSUME NEW c \in Clients, Handle(c), Step(c) \in {P!Queries[i] : i \in 1..4}
    PROVE  Query(c) \/ Failed(c)
<1>1. Step(c) \in {"P95CPU", "P99CPU", "P95Memory", "P99Memory"}
  BY DEF P!Queries
<1>2. ~Local(c)
  BY <1>1 DEF Local
<1>3. QED
  BY <1>1, <1>2 DEF Handle, Decide, Read, ReadTailoring, ReadAtelier, QueryRange,
         GetMetricsOfOpenCost, GetAllocations, Operate, WaitFails, AnswerIsLost

LEMMA MetricsHandle ==
    ASSUME Phases, MetricsInv, NEW c \in Clients, Handle(c)
    PROVE  MetricsInv'
<1>1. Running(c) /\ OnlyOf(c)
  BY Handled DEF Phases
<1>2. \A b \in Clients : b # c => MetricsOf(b)'
  BY <1>1 DEF MetricsInv, MetricsOf, OnlyOf, Ask, Running
<1>3. request[c].window \in WindowsOrNone
  BY DEF MetricsInv, MetricsOf
<1>4. CASE Failed(c)
  <2>1. /\ request'[c].window = request[c].window /\ request'[c].data = Null
        /\ request'[c].pc = "done"
    BY <1>4, FailedReads DEF Phases
  <2>2. MetricsOf(c)'
    BY <1>3, <2>1 DEF MetricsOf, Running
  <2>3. QED
    BY <1>2, <2>2 DEF MetricsInv
<1>5. CASE ~Failed(c) /\ Ask(c).path # "metrics/"
  <2>1. PICK r : Like(r, request[c]) /\ r.window \in WindowsOrNone /\ Passed(c, r)
    BY <1>3, <1>5, HandlePasses DEF Phases
  <2>2. request'[c].window \in WindowsOrNone /\ request'[c].ask = request[c].ask
    BY <2>1, PassedReads DEF Phases
  <2>3. MetricsOf(c)'
    BY <1>5, <2>2 DEF MetricsOf, Ask
  <2>4. QED
    BY <1>2, <2>3 DEF MetricsInv
<1>6. CASE ~Failed(c) /\ Ask(c).path = "metrics/"
  <2> DEFINE s == request[c].step
  <2>1. HandlerOf(c) = GetMetrics
    <3>1. Accepted(Ask(c))
      BY <1>1 DEF Phases, Phase
    <3>2. Route(Ask(c)) # Null
      BY <3>1 DEF Accepted, Middleware, Other, Route, next
    <3>3. QED
      BY <1>6, <3>2, Routes DEF HandlerOf, Route
  <2>2. s \in 1..9
    BY <1>1, <2>1, MetricsSteps DEF Phases, Phase
  <2>3. CASE s \in 1..5
    <3>1. PICK r : Like(r, request[c]) /\ r.window \in WindowsOrNone /\ Passed(c, r)
      BY <1>3, <1>6, HandlePasses DEF Phases
    <3>2. /\ request'[c].window \in WindowsOrNone
          /\ request'[c].pc = "running" /\ request'[c].step = s + 1
      BY <1>1, <2>1, <2>3, <3>1, PassedReads, MetricsSteps DEF Phases, Running
    <3>3. MetricsOf(c)'
      BY <2>3, <3>2 DEF MetricsOf
    <3>4. QED
      BY <1>2, <3>3 DEF MetricsInv
  <2>4. CASE s \in 6..9
    <3>0. PICK k \in 0..3 : s = k + 6
      BY <2>4
    <3>1. k + 1 \in 1..4 /\ s = 5 + (k + 1) /\ k = s - 6
      BY <3>0
    <3>2. Step(c) = P!Queries[k + 1]
      BY <2>1, <3>1, MetricsSteps DEF Step
    <3>3. Query(c)
      BY <1>6, <3>1, <3>2, OnlyQueries
    <3>4. k > 0 => Gathered(request[c], k)
      <4>1. HAVE k > 0
      <4>2. s > 6
        BY <3>0, <4>1
      <4>3. QED
        BY <1>1, <1>6, <3>1, <4>2 DEF MetricsInv, MetricsOf
    <3>5. PICK r : /\ Like(r, request[c]) /\ r.window \in WindowsOrNone /\ Passed(c, r)
                   /\ Gathered(r, k + 1)
      BY <1>3, <3>1, <3>2, <3>3, <3>4, QueryGathers DEF Phases
    <3>6. /\ request'[c].window = r.window /\ request'[c].source = r.source
          /\ request'[c].data = r.data
          /\ IF s < 9 THEN request'[c].pc = request[c].pc /\ request'[c].step = s + 1
             ELSE request'[c].pc = "done"
      BY <2>1, <3>5, PassedReads, MetricsSteps DEF Phases
    <3>7. Gathered(request[c], k + 1)'
      BY <3>5, <3>6, GatheredNext
    <3>8. CASE s < 9
      <4>1. request'[c].pc = "running" /\ request'[c].step = s + 1 /\ (s + 1) - 6 = k + 1
        BY <1>1, <2>4, <3>1, <3>6, <3>8 DEF Running
      <4>2. MetricsOf(c)'
        BY <3>5, <3>6, <3>7, <4>1 DEF MetricsOf
      <4>3. QED
        BY <1>2, <4>2 DEF MetricsInv
    <3>9. CASE ~(s < 9)
      <4>1. request'[c].pc = "done" /\ k + 1 = 4
        BY <2>4, <3>1, <3>6, <3>9
      <4>2. MetricsOf(c)'
        BY <3>5, <3>6, <3>7, <4>1 DEF MetricsOf, Running
      <4>3. QED
        BY <1>2, <4>2 DEF MetricsInv
    <3>10. QED
      BY <3>8, <3>9
  <2>5. QED
    BY <2>2, <2>3, <2>4
<1>7. QED
  BY <1>4, <1>5, <1>6

\* Steps that read nothing.
ReadsNothing(c) ==
    /\ request'[c].ask = request[c].ask /\ request'[c].step = request[c].step
    /\ request'[c].window = request[c].window /\ request'[c].source = request[c].source
    /\ request'[c].data = request[c].data
    /\ request'[c].pc \in {request[c].pc, "cut"}

LEMMA MetricsKept ==
    ASSUME NEW c, MetricsOf(c), ReadsNothing(c)
    PROVE  MetricsOf(c)'
<1>1. /\ request'[c].window = request[c].window /\ Ask(c)' = Ask(c)
      /\ request'[c].step = request[c].step /\ request'[c].data = request[c].data
      /\ request'[c].pc = request[c].pc \/ request'[c].pc = "cut"
  BY DEF ReadsNothing, Ask
<1>2. \A k : Gathered(request[c], k) => Gathered(request[c], k)'
  BY DEF ReadsNothing, Gathered
<1>3. QED
  BY <1>1, <1>2 DEF MetricsOf, Running

LEMMA MetricsArrive ==
    ASSUME Phases, MetricsInv, NEW c \in Clients, NEW ask, Arrive(c, ask)
    PROVE  MetricsInv'
<1> DEFINE on == [Idle EXCEPT !.pc = "running", !.ask = ask, !.step = 1]
           end == [Idle EXCEPT !.pc = "done", !.ask = ask, !.got = Middleware(ask)]
           r == IF Accepted(ask) THEN on ELSE end
<1>1. request'[c] = r
  BY DEF Arrive, Accepted, Phases, Records
<1>2. /\ r.window = Null /\ r.data = Null
      /\ r.pc = "running" => r.step = 1
  BY DEF Idle
<1> HIDE DEF r
<1>3. MetricsOf(c)'
  BY <1>1, <1>2 DEF MetricsOf, WindowsOrNone, Running
<1>4. \A b \in Clients : b # c => MetricsOf(b)'
  BY Arrived DEF Phases, MetricsInv, MetricsOf, Ask, Running
<1>5. QED
  BY <1>3, <1>4 DEF MetricsInv

\* Rounding to a unit takes away less than the unit.
LEMMA Rounds ==
    ASSUME NEW seconds \in Int, NEW unit \in Nat \ {0}
    PROVE  /\ (seconds \div unit) * unit <= seconds
           /\ seconds >= unit => seconds < 2 * ((seconds \div unit) * unit)
<1>1. /\ seconds \div unit \in Int /\ seconds % unit \in 0..(unit - 1)
      /\ seconds = unit * (seconds \div unit) + (seconds % unit)
  OBVIOUS
<1> DEFINE q == seconds \div unit
           r == seconds % unit
<1>2. q * unit \in Int /\ unit * q = q * unit
  BY <1>1
<1>3. seconds >= unit => q >= 1
  <2>1. SUFFICES ASSUME seconds >= unit, q <= 0 PROVE FALSE
    BY <1>1
  <2>2. unit * q <= 0
    BY <1>1, <2>1
  <2>3. QED
    BY <1>1, <2>1, <2>2
<1>4. q >= 1 => q * unit >= unit
  BY <1>1
<1> HIDE DEF q, r
<1>5. r \in 0..(unit - 1) /\ seconds = unit * q + r
  BY <1>1 DEF q, r
<1>6. q * unit <= seconds /\ (seconds >= unit => seconds < 2 * (q * unit))
  BY <1>2, <1>3, <1>4, <1>5
<1>7. QED
  BY <1>6 DEF q

LEMMA DurationRounds ==
    ASSUME NEW seconds \in Int
    PROVE  /\ P!formatDuration(seconds) <= seconds
           /\ seconds > 0 => seconds < 2 * P!formatDuration(seconds)
<1>1. PICK unit \in {1, 60, 3600, 86400} :
          /\ P!formatDuration(seconds) = (seconds \div unit) * unit
          /\ seconds > 0 => seconds >= unit
  <2>1. CASE seconds < 60
    BY <2>1 DEF P!formatDuration
  <2>2. CASE 60 <= seconds /\ seconds < 3600
    BY <2>2 DEF P!formatDuration
  <2>3. CASE 3600 <= seconds /\ seconds < 86400
    BY <2>3 DEF P!formatDuration
  <2>4. CASE 86400 <= seconds
    BY <2>4 DEF P!formatDuration
  <2>5. QED
    BY <2>1, <2>2, <2>3, <2>4
<1>2. unit \in Nat \ {0}
  OBVIOUS
<1>3. QED
  BY <1>1, <1>2, Rounds

LEMMA AllQueries == First(4) = {P!Queries[i] : i \in DOMAIN P!Queries}
  BY DEF First, P!Queries

LEMMA GatheredAll ==
    ASSUME NEW c \in Clients, Gathered(request[c], 4), request[c].window \in WindowsOrNone
    PROVE  LET samples == request[c].source
               metrics == request[c].data.containers
               range == request[c].data.range
               window == request[c].window
           IN  /\ DOMAIN metrics = {s.container : s \in samples}
               /\ \A container \in DOMAIN metrics :
                     LET own == {s \in samples : s.container = container} IN
                     /\ DOMAIN metrics[container] = {s.query : s \in own}
                     /\ \A q \in DOMAIN metrics[container] :
                           \E s \in own : s.query = q /\ s.value = metrics[container][q]
                     /\ Cardinality({s.pod : s \in own}) = 1
                        /\ {"P95CPU", "P99CPU"} \subseteq DOMAIN metrics[container] =>
                           metrics[container]["P95CPU"] <= metrics[container]["P99CPU"]
               /\ window # Null => range <= window /\ (window > 0 => window < 2 * range)
<1> DEFINE samples == request[c].source
           metrics == request[c].data.containers
           range == request[c].data.range
           window == request[c].window
           Own(container) == {s \in samples : s.container = container}
<1>1. samples \in SampleSets /\ Merged(samples, First(4), metrics)
  BY DEF Gathered
<1>2. window # Null => range <= window /\ (window > 0 => window < 2 * range)
  <2>1. HAVE window # Null
  <2>2. window \in Int
    BY <2>1, WindowsAssumption DEF WindowsOrNone
  <2>3. range = P!formatDuration(window)
    BY <2>1 DEF Gathered
  <2> HIDE DEF range, window
  <2>4. QED
    BY <2>2, <2>3, DurationRounds
<1> HIDE DEF samples, metrics, range, window
<1>3. /\ IsFiniteSet(samples)
      /\ \A s \in samples : s.query \in First(4)
      /\ \A s, t \in samples :
            s.pod = t.pod /\ s.container = t.container /\ s.query = "P95CPU" /\ t.query = "P99CPU"
                => s.value <= t.value
  BY <1>1, SamplesAssumption, AllQueries
<1>4. {s \in samples : s.query \in First(4)} = samples
  BY <1>3
<1>5. DOMAIN metrics = {s.container : s \in samples}
  BY <1>1, <1>4 DEF Merged
<1>6. ASSUME NEW container \in DOMAIN metrics
      PROVE  /\ DOMAIN metrics[container] = {s.query : s \in Own(container)}
             /\ \A q \in DOMAIN metrics[container] :
                   \E s \in Own(container) : s.query = q /\ s.value = metrics[container][q]
             /\ Cardinality({s.pod : s \in Own(container)}) = 1
                /\ {"P95CPU", "P99CPU"} \subseteq DOMAIN metrics[container] =>
                   metrics[container]["P95CPU"] <= metrics[container]["P99CPU"]
  <2>1. {s \in samples : s.container = container /\ s.query \in First(4)} = Own(container)
    BY <1>3
  <2>2. EntryOf(samples, First(4), container, metrics[container])
    BY <1>1 DEF Merged
  <2>3. /\ DOMAIN metrics[container] = {s.query : s \in Own(container)}
        /\ \A q \in DOMAIN metrics[container] :
              \E s \in Own(container) : s.query = q /\ s.value = metrics[container][q]
    BY <2>1, <2>2 DEF EntryOf
  <2>4. ASSUME Cardinality({s.pod : s \in Own(container)}) = 1,
               {"P95CPU", "P99CPU"} \subseteq DOMAIN metrics[container]
        PROVE  metrics[container]["P95CPU"] <= metrics[container]["P99CPU"]
    <3>1. IsFiniteSet({s.pod : s \in Own(container)})
      <4>1. IsFiniteSet(Own(container))
        BY <1>3, FS_Subset
      <4>2. [s \in Own(container) |-> s.pod]
                \in Surjection(Own(container), {s.pod : s \in Own(container)})
        BY DEF Surjection
      <4>3. QED
        BY <4>1, <4>2, FS_Surjection
    <3>2. PICK pod : {s.pod : s \in Own(container)} = {pod}
      BY <2>4, <3>1, FS_Singleton
    <3>3. PICK s \in Own(container) :
              s.query = "P95CPU" /\ s.value = metrics[container]["P95CPU"]
      BY <2>3, <2>4
    <3>4. PICK t \in Own(container) :
              t.query = "P99CPU" /\ t.value = metrics[container]["P99CPU"]
      BY <2>3, <2>4
    <3>5. s.pod = t.pod
      BY <3>2
    <3>6. QED
      BY <1>3, <3>3, <3>4, <3>5
  <2>5. QED
    BY <2>3, <2>4
<1>7. QED
  BY <1>2, <1>5, <1>6 DEF samples, metrics, range, window

\* The answer of GetMetrics holds everything that the four queries have said, or
\* is none; a P95 is above the P99 only where pods are mixed; and the range of
\* the queries is more than half of a window above zero.
THEOREM MetricsAreWhole == Spec => []MetricsMerged
<1>1. Init => MetricsInv
  BY DEF Init, MetricsInv, MetricsOf, Idle, Running, WindowsOrNone
<1>2. Phases /\ MetricsInv /\ [Next]_vars => MetricsInv'
  <2> SUFFICES ASSUME Phases, MetricsInv, [Next]_vars PROVE MetricsInv'
    OBVIOUS
  <2>1. ASSUME NEW c \in Clients, NEW ask, Arrive(c, ask) PROVE MetricsInv'
    BY <2>1, MetricsArrive
  <2>2. ASSUME NEW c \in Clients, Handle(c) PROVE MetricsInv'
    BY <2>2, MetricsHandle
  <2>3. ASSUME NEW c \in Clients, Disconnect(c) PROVE MetricsInv'
    <3>1. \A b \in Clients : ReadsNothing(b)
      BY <2>3 DEF Phases, Records, Disconnect, ReadsNothing, Fields
    <3>2. QED
      BY <3>1, MetricsKept DEF MetricsInv
  <2>4. CASE Tick
    <3>1. \A b \in Clients : ReadsNothing(b)
      BY <2>4 DEF Phases, Records, Tick, ReadsNothing, Fields
    <3>2. QED
      BY <3>1, MetricsKept DEF MetricsInv
  <2>5. CASE ShutdownTimesOut
    <3>1. \A b \in Clients : ReadsNothing(b)
      BY <2>5 DEF Phases, Records, ShutdownTimesOut, ReadsNothing, Fields, Running
    <3>2. QED
      BY <3>1, MetricsKept DEF MetricsInv
  <2>6. CASE Signal \/ ShutdownReturns \/ UNCHANGED vars
    <3>1. \A b \in Clients : ReadsNothing(b)
      BY <2>6 DEF Signal, ShutdownReturns, vars, ReadsNothing
    <3>2. QED
      BY <3>1, MetricsKept DEF MetricsInv
  <2>7. QED
    BY <2>1, <2>2, <2>3, <2>4, <2>5, <2>6 DEF Next
<1>3. MetricsInv => MetricsMerged
  <2>1. SUFFICES ASSUME MetricsInv, NEW c \in Clients, Shown(c, "metrics/")
                 PROVE  Gathered(request[c], 4) /\ request[c].window \in WindowsOrNone
    BY GatheredAll DEF MetricsMerged
  <2>2. QED
    BY <2>1 DEF MetricsInv, MetricsOf, Shown, Done
<1>4. QED
  BY <1>1, <1>2, <1>3, PhasesHold, PTL DEF Spec

-----------------------------------------------------------------------------
(* Finite sets: what is true of the smaller ones. *)

LEMMA LeastNatural ==
    ASSUME NEW T \in SUBSET Nat, T # {}
    PROVE  \E x \in T : \A y \in T : x <= y
<1>1. PICK x \in T : \A y \in T : <<y, x>> \notin OpToRel(<, Nat)
  BY NatLessThanWellFounded, WFMin
<1>2. ASSUME NEW y \in T PROVE x <= y
  <2>1. x \in Nat /\ y \in Nat
    OBVIOUS
  <2>2. ~(y < x)
    BY <1>1, <2>1 DEF OpToRel
  <2>3. QED
    BY <2>1, <2>2
<1>3. QED
  BY <1>2

\* What holds of a finite set whenever it holds of the smaller ones holds of all:
\* of those of which it does not, one has no smaller one.
LEMMA SmallestSubset ==
    ASSUME NEW U, IsFiniteSet(U), NEW B \in SUBSET (SUBSET U), B # {}
    PROVE  \E s \in B : \A t \in SUBSET s : t \in B => t = s
<1> DEFINE sizes == {Cardinality(s) : s \in B}
<1>1. \A s \in B : IsFiniteSet(s) /\ Cardinality(s) \in Nat
  BY FS_Subset, FS_CardinalityType
<1>2. sizes \in SUBSET Nat /\ sizes # {}
  BY <1>1
<1>3. PICK n \in sizes : \A m \in sizes : n <= m
  BY <1>2, LeastNatural
<1>4. PICK s \in B : n = Cardinality(s)
  BY <1>3
<1>5. ASSUME NEW t \in SUBSET s, t \in B PROVE t = s
  <2>1. Cardinality(t) <= Cardinality(s) /\ (Cardinality(s) = Cardinality(t) => s = t)
    BY <1>1, <1>4, FS_Subset
  <2>2. n <= Cardinality(t)
    BY <1>3, <1>5
  <2>3. Cardinality(s) = Cardinality(t)
    BY <1>1, <1>4, <1>5, <2>1, <2>2
  <2>4. QED
    BY <2>1, <2>3
<1>6. QED
  BY <1>4, <1>5

-----------------------------------------------------------------------------
(* Sums. *)

Pick(s) == CHOOSE x \in s : TRUE

\* A function adds up f over the subsets of S, element by element.
AddsUp(g, f, S) ==
    g = [s \in SUBSET S |-> IF s = {} THEN 0 ELSE f[Pick(s)] + g[s \ {Pick(s)}]]

Adding(f, S) == CHOOSE g : AddsUp(g, f, S)

LEMMA SumIsAdding == ASSUME NEW f, NEW S PROVE SumFunctionOnSet(f, S) = Adding(f, S)[S]
  BY DEF SumFunctionOnSet, FoldFunctionOnSet, MapThenFoldSet, Adding, AddsUp, Pick

LEMMA AddsUpStep ==
    ASSUME NEW f, NEW S, NEW g, AddsUp(g, f, S), NEW s \in SUBSET S
    PROVE  /\ s = {} => g[s] = 0
           /\ s # {} => g[s] = f[Pick(s)] + g[s \ {Pick(s)}] /\ Pick(s) \in s
<1>1. g[s] = IF s = {} THEN 0 ELSE f[Pick(s)] + g[s \ {Pick(s)}]
  BY DEF AddsUp
<1>2. s # {} => Pick(s) \in s
  BY DEF Pick
<1>3. QED
  BY <1>1, <1>2

LEMMA AddingUnique ==
    ASSUME NEW f, NEW e, NEW S, IsFiniteSet(S), NEW T, NEW g, AddsUp(g, f, S),
           NEW h, AddsUp(h, e, T), S \subseteq T, \A x \in S : f[x] = e[x]
    PROVE  g[S] = h[S]
<1> DEFINE B == {s \in SUBSET S : g[s] # h[s]}
<1>1. SUFFICES ASSUME B # {} PROVE FALSE
  OBVIOUS
<1>2. PICK s \in B : \A t \in SUBSET s : t \in B => t = s
  <2>1. B \in SUBSET (SUBSET S)
    OBVIOUS
  <2> HIDE DEF B
  <2>2. QED
    BY <1>1, <2>1, SmallestSubset
<1>3. s \in SUBSET S /\ s \in SUBSET T
  BY <1>2
<1>4. s # {}
  BY <1>2, <1>3, AddsUpStep
<1>5. g[s] = f[Pick(s)] + g[s \ {Pick(s)}] /\ Pick(s) \in s
  BY <1>3, <1>4, AddsUpStep
<1>5a. h[s] = e[Pick(s)] + h[s \ {Pick(s)}]
  <2>1. s \in SUBSET T /\ AddsUp(h, e, T)
    BY <1>3
  <2> HIDE DEF B
  <2>2. QED
    BY <1>4, <2>1, AddsUpStep
<1>6. s \ {Pick(s)} \notin B /\ s \ {Pick(s)} \in SUBSET S
  BY <1>2, <1>3, <1>5
<1>7. g[s \ {Pick(s)}] = h[s \ {Pick(s)}] /\ f[Pick(s)] = e[Pick(s)]
  BY <1>3, <1>5, <1>6
<1>8. g[s] = h[s]
  BY <1>5, <1>5a, <1>7
<1>9. QED
  BY <1>2, <1>8

LEMMA AddingExists ==
    ASSUME NEW f, NEW S, IsFiniteSet(S)
    PROVE  AddsUp(Adding(f, S), f, S)
<1> DEFINE B == {s \in SUBSET S : ~AddsUp(Adding(f, s), f, s)}
<1>1. SUFFICES ASSUME B # {} PROVE FALSE
  OBVIOUS
<1>2. PICK s \in B : \A t \in SUBSET s : t \in B => t = s
  <2>1. B \in SUBSET (SUBSET S)
    OBVIOUS
  <2> HIDE DEF B
  <2>2. QED
    BY <1>1, <2>1, SmallestSubset
<1>3. IsFiniteSet(s) /\ s \in SUBSET S
  BY FS_Subset
<1>4. ASSUME NEW t \in SUBSET s, t # s
      PROVE  AddsUp(Adding(f, t), f, t)
  BY <1>2, <1>3, <1>4
<1> DEFINE g == [t \in SUBSET s |-> IF t = {} THEN 0
                    ELSE f[Pick(t)] + Adding(f, t \ {Pick(t)})[t \ {Pick(t)}]]
<1>5. ASSUME NEW t \in SUBSET s, t # {}
      PROVE  g[t \ {Pick(t)}] = Adding(f, t \ {Pick(t)})[t \ {Pick(t)}]
  <2> DEFINE u == t \ {Pick(t)}
             v == u \ {Pick(u)}
  <2>1. Pick(t) \in t
    BY <1>5 DEF Pick
  <2>2. u \in SUBSET s /\ u # s /\ v \in SUBSET s /\ v \in SUBSET u
    BY <2>1
  <2>3. AddsUp(Adding(f, u), f, u) /\ u \in SUBSET u
    BY <1>4, <2>2
  <2>4. CASE u = {}
    <3>1. Adding(f, u)[u] = 0
      BY <2>3, <2>4, AddsUpStep
    <3>2. g[u] = 0
      BY <2>2, <2>4
    <3>3. QED
      BY <3>1, <3>2
  <2>5. CASE u # {}
    <3>1. Adding(f, u)[u] = f[Pick(u)] + Adding(f, u)[v] /\ Pick(u) \in u
      BY <2>3, <2>5, AddsUpStep
    <3>2. v # s
      BY <2>2, <3>1
    <3>3. AddsUp(Adding(f, v), f, v) /\ IsFiniteSet(v)
      BY <1>3, <1>4, <2>2, <3>2, FS_Subset
    <3>4. Adding(f, v)[v] = Adding(f, u)[v]
      <4> HIDE DEF v, u
      <4>1. QED
        BY <2>2, <2>3, <3>3, AddingUnique
    <3>5. g[u] = f[Pick(u)] + Adding(f, v)[v]
      <4>1. u \in SUBSET s
        BY <2>2
      <4> HIDE DEF u
      <4>2. g[u] = IF u = {} THEN 0 ELSE f[Pick(u)] + Adding(f, u \ {Pick(u)})[u \ {Pick(u)}]
        BY <4>1
      <4>3. QED
        BY <2>5, <4>2
    <3> HIDE DEF g, u, v
    <3>6. g[u] = Adding(f, u)[u]
      BY <3>1, <3>4, <3>5
    <3>7. QED
      BY <3>6 DEF u
  <2>6. QED
    BY <2>4, <2>5
<1>6. \A t \in SUBSET s : g[t] = IF t = {} THEN 0 ELSE f[Pick(t)] + g[t \ {Pick(t)}]
  <2>1. TAKE t \in SUBSET s
  <2>2. CASE t = {}
    BY <2>2
  <2>3. CASE t # {}
    <3>1. g[t] = f[Pick(t)] + Adding(f, t \ {Pick(t)})[t \ {Pick(t)}]
      BY <2>3
    <3>2. g[t \ {Pick(t)}] = Adding(f, t \ {Pick(t)})[t \ {Pick(t)}]
      BY <1>5, <2>3
    <3> HIDE DEF g
    <3>3. QED
      BY <2>3, <3>1, <3>2
  <2>4. QED
    BY <2>2, <2>3
<1>7. DOMAIN g = SUBSET s /\ g = [t \in SUBSET s |-> g[t]]
  OBVIOUS
<1> HIDE DEF g
<1>8. AddsUp(g, f, s)
  BY <1>6, <1>7 DEF AddsUp
<1>9. AddsUp(Adding(f, s), f, s)
  BY <1>8 DEF Adding
<1>10. QED
  BY <1>2, <1>9

Sum(f, S) == SumFunctionOnSet(f, S)

LEMMA SumSame ==
    ASSUME NEW f, NEW e, NEW S, IsFiniteSet(S), \A x \in S : f[x] = e[x]
    PROVE  Sum(f, S) = Sum(e, S)
  BY AddingExists, AddingUnique, SumIsAdding DEF Sum

LEMMA SumPick ==
    ASSUME NEW f, NEW S, IsFiniteSet(S)
    PROVE  /\ S = {} => Sum(f, S) = 0
           /\ S # {} => Pick(S) \in S /\ Sum(f, S) = f[Pick(S)] + Sum(f, S \ {Pick(S)})
<1>1. AddsUp(Adding(f, S), f, S) /\ S \in SUBSET S
  BY AddingExists
<1>2. S = {} => Sum(f, S) = 0
  BY <1>1, AddsUpStep, SumIsAdding DEF Sum
<1>3. ASSUME S # {} PROVE Pick(S) \in S /\ Sum(f, S) = f[Pick(S)] + Sum(f, S \ {Pick(S)})
  <2> DEFINE rest == S \ {Pick(S)}
  <2>1. Adding(f, S)[S] = f[Pick(S)] + Adding(f, S)[rest] /\ Pick(S) \in S
    BY <1>1, <1>3, AddsUpStep
  <2>2. IsFiniteSet(rest) /\ rest \subseteq S
    BY FS_Subset
  <2> HIDE DEF rest
  <2>3. AddsUp(Adding(f, rest), f, rest)
    BY <2>2, AddingExists
  <2>4. Adding(f, rest)[rest] = Adding(f, S)[rest]
    BY <1>1, <2>2, <2>3, AddingUnique
  <2>5. Sum(f, S) = f[Pick(S)] + Sum(f, rest)
    BY <2>1, <2>4, SumIsAdding DEF Sum
  <2>6. QED
    BY <2>1, <2>5 DEF rest
<1>4. QED
  BY <1>2, <1>3

Numbers(f, S) == \A x \in S : f[x] \in Int

LEMMA SumType ==
    ASSUME NEW f, NEW S, IsFiniteSet(S), Numbers(f, S)
    PROVE  Sum(f, S) \in Int
<1> DEFINE B == {s \in SUBSET S : Sum(f, s) \notin Int}
<1>1. SUFFICES ASSUME B # {} PROVE FALSE
  OBVIOUS
<1>2. PICK s \in B : \A t \in SUBSET s : t \in B => t = s
  <2>1. B \in SUBSET (SUBSET S)
    OBVIOUS
  <2> HIDE DEF B
  <2>2. QED
    BY <1>1, <2>1, SmallestSubset
<1>3. IsFiniteSet(s) /\ s \in SUBSET S
  BY FS_Subset
<1>4. s # {}
  BY <1>3, SumPick
<1>5. Pick(s) \in s /\ Sum(f, s) = f[Pick(s)] + Sum(f, s \ {Pick(s)})
  BY <1>3, <1>4, SumPick
<1>6. Sum(f, s \ {Pick(s)}) \in Int
  BY <1>2, <1>3, <1>5
<1>7. f[Pick(s)] \in Int
  BY <1>3, <1>5 DEF Numbers
<1>8. QED
  BY <1>5, <1>6, <1>7

\* Whichever element comes first.
LEMMA SumAdds ==
    ASSUME NEW f, NEW S, IsFiniteSet(S), Numbers(f, S), NEW x \in S
    PROVE  Sum(f, S) = f[x] + Sum(f, S \ {x})
<1> DEFINE B == {s \in SUBSET S : \E y \in s : Sum(f, s) # f[y] + Sum(f, s \ {y})}
<1>1. SUFFICES ASSUME B # {} PROVE FALSE
  OBVIOUS
<1>2. PICK s \in B : \A t \in SUBSET s : t \in B => t = s
  <2>1. B \in SUBSET (SUBSET S)
    OBVIOUS
  <2> HIDE DEF B
  <2>2. QED
    BY <1>1, <2>1, SmallestSubset
<1>3. PICK y \in s : Sum(f, s) # f[y] + Sum(f, s \ {y})
  OBVIOUS
<1>4. s \in SUBSET S /\ IsFiniteSet(s)
  BY FS_Subset
<1> DEFINE p == Pick(s)
<1>5. p \in s /\ Sum(f, s) = f[p] + Sum(f, s \ {p})
  BY <1>4, SumPick
<1>6. p # y
  BY <1>3, <1>5
<1>7. /\ s \ {p} \in SUBSET S /\ s \ {p} # s /\ s \ {y} \in SUBSET S /\ s \ {y} # s
      /\ y \in s \ {p} /\ p \in s \ {y} /\ (s \ {p}) \ {y} = (s \ {y}) \ {p}
  BY <1>4, <1>5, <1>6
<1>8. ASSUME NEW t \in SUBSET s, t # s, NEW z \in t
      PROVE  Sum(f, t) = f[z] + Sum(f, t \ {z})
  BY <1>2, <1>4, <1>8
<1> HIDE DEF p, B
<1>9. /\ Sum(f, s \ {p}) = f[y] + Sum(f, (s \ {p}) \ {y})
      /\ Sum(f, s \ {y}) = f[p] + Sum(f, (s \ {y}) \ {p})
  BY <1>7, <1>8
<1>10. /\ f[y] \in Int /\ f[p] \in Int
  BY <1>4, <1>5 DEF Numbers
<1>11. Sum(f, (s \ {y}) \ {p}) \in Int
  <2>1. (s \ {y}) \ {p} \in SUBSET S
    BY <1>4
  <2>2. QED
    BY <2>1, FS_Subset, SumType DEF Numbers
<1>12. Sum(f, s) = f[y] + Sum(f, s \ {y})
  <2> DEFINE rest == Sum(f, (s \ {y}) \ {p})
  <2>1. /\ Sum(f, s) = f[p] + Sum(f, s \ {p}) /\ Sum(f, s \ {p}) = f[y] + rest
        /\ Sum(f, s \ {y}) = f[p] + rest /\ rest \in Int
    BY <1>5, <1>7, <1>9, <1>11
  <2> HIDE DEF rest
  <2>2. QED
    BY <1>10, <2>1
<1>13. QED
  BY <1>3, <1>12

LEMMA SumSplits ==
    ASSUME NEW f, NEW S, IsFiniteSet(S), Numbers(f, S), NEW T \in SUBSET S
    PROVE  Sum(f, S) = Sum(f, T) + Sum(f, S \ T)
<1> DEFINE B == {s \in SUBSET S : Sum(f, s) # Sum(f, s \cap T) + Sum(f, s \ T)}
<1>1. SUFFICES ASSUME B # {} PROVE FALSE
  <2>1. S \cap T = T
    OBVIOUS
  <2>2. QED
    BY <2>1
<1>2. PICK s \in B : \A t \in SUBSET s : t \in B => t = s
  <2>1. B \in SUBSET (SUBSET S)
    OBVIOUS
  <2> HIDE DEF B
  <2>2. QED
    BY <1>1, <2>1, SmallestSubset
<1>3. /\ s \in SUBSET S /\ Sum(f, s) # Sum(f, s \cap T) + Sum(f, s \ T)
      /\ \A t \in SUBSET s : t # s => Sum(f, t) = Sum(f, t \cap T) + Sum(f, t \ T)
  BY <1>2
<1> HIDE DEF B
<1>4. \A t \in SUBSET s : IsFiniteSet(t) /\ Numbers(f, t) /\ Sum(f, t) \in Int
  BY <1>3, FS_Subset, SumType DEF Numbers
<1>5. s # {}
  <2>1. SUFFICES ASSUME s = {} PROVE FALSE
    OBVIOUS
  <2>2. s \cap T = {} /\ s \ T = {} /\ Sum(f, {}) = 0
    BY <1>4, <2>1, SumPick
  <2>3. QED
    BY <1>3, <2>1, <2>2
<1>6. PICK x \in s : TRUE
  BY <1>5
<1> DEFINE r == s \ {x}
<1>7. /\ r \in SUBSET s /\ r # s /\ s \cap T \in SUBSET s /\ s \ T \in SUBSET s
      /\ r \cap T \in SUBSET s /\ r \ T \in SUBSET s
  OBVIOUS
<1>8. Sum(f, s) = f[x] + Sum(f, r) /\ f[x] \in Int
  <2>1. IsFiniteSet(s) /\ Numbers(f, s)
    BY <1>4
  <2>2. f[x] \in Int
    BY <2>1 DEF Numbers
  <2>3. QED
    BY <2>1, <2>2, SumAdds
<1>9. /\ Sum(f, r) = Sum(f, r \cap T) + Sum(f, r \ T)
      /\ Sum(f, r \cap T) \in Int /\ Sum(f, r \ T) \in Int
  BY <1>3, <1>4, <1>7
<1>10. CASE x \in T
  <2>1. s \ T = r \ T /\ (s \cap T) \ {x} = r \cap T /\ x \in s \cap T
    BY <1>10
  <2>2. Sum(f, s \cap T) = f[x] + Sum(f, r \cap T)
    BY <1>4, <1>7, <2>1, SumAdds
  <2>3. Sum(f, s \ T) = Sum(f, r \ T)
    BY <2>1
  <2> HIDE DEF r
  <2>4. QED
    BY <1>3, <1>8, <1>9, <2>2, <2>3
<1>11. CASE x \notin T
  <2>1. s \cap T = r \cap T /\ (s \ T) \ {x} = r \ T /\ x \in s \ T
    BY <1>11
  <2>2. Sum(f, s \ T) = f[x] + Sum(f, r \ T)
    BY <1>4, <1>7, <2>1, SumAdds
  <2>3. Sum(f, s \cap T) = Sum(f, r \cap T)
    BY <2>1
  <2> HIDE DEF r
  <2>4. QED
    BY <1>3, <1>8, <1>9, <2>2, <2>3
<1>12. QED
  BY <1>10, <1>11

\* The sums of the parts, by whatever key, add up to the whole.
LEMMA PartsAddUp ==
    ASSUME NEW f, NEW S, IsFiniteSet(S), Numbers(f, S), NEW key, NEW K, IsFiniteSet(K),
           \A x \in S : key[x] \in K,
           NEW parts, \A y \in K : parts[y] = Sum(f, {x \in S : key[x] = y})
    PROVE  Sum(parts, K) = Sum(f, S)
<1> DEFINE In(L) == {x \in S : key[x] \in L}
           B == {L \in SUBSET K : Sum(parts, L) # Sum(f, In(L))}
<1>1. SUFFICES ASSUME B # {} PROVE FALSE
  <2>1. In(K) = S
    OBVIOUS
  <2> HIDE DEF In
  <2>2. QED
    BY <2>1
<1>2. PICK L \in B : \A t \in SUBSET L : t \in B => t = L
  <2>1. B \in SUBSET (SUBSET K)
    OBVIOUS
  <2> HIDE DEF B
  <2>2. QED
    BY <1>1, <2>1, SmallestSubset
<1>3. /\ L \in SUBSET K /\ Sum(parts, L) # Sum(f, In(L))
      /\ \A t \in SUBSET L : t # L => Sum(parts, t) = Sum(f, In(t))
  BY <1>2
<1> HIDE DEF B
<1>4. IsFiniteSet(L) /\ IsFiniteSet(In(L)) /\ Numbers(f, In(L)) /\ In(L) \in SUBSET S
  BY <1>3, FS_Subset DEF Numbers
<1>5. L # {}
  <2>1. SUFFICES ASSUME L = {} PROVE FALSE
    OBVIOUS
  <2>2. In(L) = {}
    BY <2>1
  <2> HIDE DEF In
  <2>3. QED
    BY <1>3, <1>4, <2>1, <2>2, SumPick
<1> DEFINE y == Pick(L)
           T == {x \in S : key[x] = y}
<1>6. y \in L /\ Sum(parts, L) = parts[y] + Sum(parts, L \ {y})
  BY <1>4, <1>5, SumPick
<1>7. parts[y] = Sum(f, T)
  BY <1>3, <1>6
<1>8. Sum(parts, L \ {y}) = Sum(f, In(L \ {y}))
  <2>1. L \ {y} \in SUBSET L /\ L \ {y} # L
    BY <1>6
  <2> HIDE DEF y, In
  <2>2. QED
    BY <1>3, <2>1
<1>9. T \in SUBSET In(L) /\ In(L) \ T = In(L \ {y})
  BY <1>6
<1> HIDE DEF T, In, y
<1>10. Sum(f, In(L)) = Sum(f, T) + Sum(f, In(L) \ T)
  BY <1>4, <1>9, SumSplits
<1>11. QED
  BY <1>3, <1>6, <1>7, <1>8, <1>9, <1>10

LEMMA Scaled ==
    ASSUME NEW d \in Int, NEW h \in Int, NEW a \in Int, NEW b \in Int, NEW p \in Int, NEW q \in Int,
           d * a <= h * b, d * p <= h * q
    PROVE  d * (a + p) <= h * (b + q)
<1>1. d * (a + p) = d * a + d * p /\ h * (b + q) = h * b + h * q
  OBVIOUS
<1>2. d * a \in Int /\ d * p \in Int /\ h * b \in Int /\ h * q \in Int
  OBVIOUS
<1>3. QED
  BY <1>1, <1>2

LEMMA SumScales ==
    ASSUME NEW S, IsFiniteSet(S), NEW f, Numbers(f, S), NEW e, Numbers(e, S),
           NEW d \in Int, NEW h \in Int, \A x \in S : d * e[x] <= h * f[x]
    PROVE  d * Sum(e, S) <= h * Sum(f, S)
<1> DEFINE B == {s \in SUBSET S : ~(d * Sum(e, s) <= h * Sum(f, s))}
<1>1. SUFFICES ASSUME B # {} PROVE FALSE
  OBVIOUS
<1>2. PICK s \in B : \A t \in SUBSET s : t \in B => t = s
  <2>1. B \in SUBSET (SUBSET S)
    OBVIOUS
  <2> HIDE DEF B
  <2>2. QED
    BY <1>1, <2>1, SmallestSubset
<1>3. /\ s \in SUBSET S /\ ~(d * Sum(e, s) <= h * Sum(f, s))
      /\ \A t \in SUBSET s : t # s => d * Sum(e, t) <= h * Sum(f, t)
  BY <1>2
<1> HIDE DEF B
<1>4. \A t \in SUBSET s : IsFiniteSet(t) /\ Sum(f, t) \in Int /\ Sum(e, t) \in Int
  BY <1>3, FS_Subset, SumType DEF Numbers
<1>5. s # {}
  <2>1. SUFFICES ASSUME s = {} PROVE FALSE
    OBVIOUS
  <2>2. Sum(e, s) = 0 /\ Sum(f, s) = 0
    BY <1>4, <2>1, SumPick
  <2>3. QED
    BY <1>3, <2>2
<1> DEFINE x == Pick(s)
<1>6. /\ x \in s /\ Sum(e, s) = e[x] + Sum(e, s \ {x}) /\ Sum(f, s) = f[x] + Sum(f, s \ {x})
  BY <1>4, <1>5, SumPick
<1>7. e[x] \in Int /\ f[x] \in Int /\ d * e[x] <= h * f[x]
  BY <1>3, <1>6 DEF Numbers
<1>8. s \ {x} \in SUBSET s /\ s \ {x} # s
  BY <1>6
<1> HIDE DEF x
<1>9. /\ d * Sum(e, s \ {x}) <= h * Sum(f, s \ {x})
      /\ Sum(e, s \ {x}) \in Int /\ Sum(f, s \ {x}) \in Int
  BY <1>3, <1>4, <1>8
<1>10. QED
  BY <1>3, <1>6, <1>7, <1>9, Scaled

LEMMA SumPositive ==
    ASSUME NEW S, IsFiniteSet(S), NEW f, \A x \in S : f[x] \in Nat
    PROVE  Sum(f, S) \in Nat
<1>1. Numbers(f, S) /\ \A x \in S : 0 * f[x] <= 1 * f[x]
  BY DEF Numbers
<1>2. 0 * Sum(f, S) <= 1 * Sum(f, S)
  BY <1>1, SumScales
<1>3. Sum(f, S) \in Int
  BY <1>1, SumType
<1>4. QED
  BY <1>2, <1>3

LEMMA SumOfSubset ==
    ASSUME NEW S, IsFiniteSet(S), NEW f, \A x \in S : f[x] \in Nat, NEW T \in SUBSET S
    PROVE  Sum(f, T) <= Sum(f, S)
<1>1. Numbers(f, S) /\ IsFiniteSet(T) /\ IsFiniteSet(S \ T)
  BY FS_Subset DEF Numbers
<1>2. Sum(f, S) = Sum(f, T) + Sum(f, S \ T)
  BY <1>1, SumSplits
<1>3. Sum(f, T) \in Nat /\ Sum(f, S \ T) \in Nat
  BY <1>1, SumPositive
<1>4. QED
  BY <1>2, <1>3

LEMMA SumOfSums ==
    ASSUME NEW S, IsFiniteSet(S), NEW f, Numbers(f, S), NEW e, Numbers(e, S),
           NEW g, \A x \in S : g[x] = f[x] + e[x]
    PROVE  Sum(g, S) = Sum(f, S) + Sum(e, S)
<1> DEFINE B == {s \in SUBSET S : Sum(g, s) # Sum(f, s) + Sum(e, s)}
<1>1. SUFFICES ASSUME B # {} PROVE FALSE
  OBVIOUS
<1>2. PICK s \in B : \A t \in SUBSET s : t \in B => t = s
  <2>1. B \in SUBSET (SUBSET S)
    OBVIOUS
  <2> HIDE DEF B
  <2>2. QED
    BY <1>1, <2>1, SmallestSubset
<1>3. /\ s \in SUBSET S /\ Sum(g, s) # Sum(f, s) + Sum(e, s)
      /\ \A t \in SUBSET s : t # s => Sum(g, t) = Sum(f, t) + Sum(e, t)
  BY <1>2
<1> HIDE DEF B
<1>4. \A t \in SUBSET s : IsFiniteSet(t) /\ Sum(f, t) \in Int /\ Sum(e, t) \in Int
  BY <1>3, FS_Subset, SumType DEF Numbers
<1>5. s # {}
  <2>1. SUFFICES ASSUME s = {} PROVE FALSE
    OBVIOUS
  <2>2. Sum(e, s) = 0 /\ Sum(f, s) = 0 /\ Sum(g, s) = 0
    BY <1>4, <2>1, SumPick
  <2>3. QED
    BY <1>3, <2>2
<1> DEFINE x == Pick(s)
<1>6. /\ x \in s /\ Sum(e, s) = e[x] + Sum(e, s \ {x}) /\ Sum(f, s) = f[x] + Sum(f, s \ {x})
      /\ Sum(g, s) = g[x] + Sum(g, s \ {x})
  BY <1>4, <1>5, SumPick
<1>7. e[x] \in Int /\ f[x] \in Int /\ g[x] = f[x] + e[x]
  BY <1>3, <1>6 DEF Numbers
<1>8. s \ {x} \in SUBSET s /\ s \ {x} # s
  BY <1>6
<1> HIDE DEF x
<1>9. /\ Sum(g, s \ {x}) = Sum(f, s \ {x}) + Sum(e, s \ {x})
      /\ Sum(e, s \ {x}) \in Int /\ Sum(f, s \ {x}) \in Int
  BY <1>3, <1>4, <1>8
<1>10. QED
  BY <1>3, <1>6, <1>7, <1>9

-----------------------------------------------------------------------------
(* Lists of lines. *)

Values(l) == [i \in DOMAIN l |-> l[i].value]

\* A list of lines with numbers that are not negative.
IsList(l) ==
    IsFiniteSet(DOMAIN l) /\ DOMAIN l \subseteq Nat /\ \A i \in DOMAIN l : l[i].value \in Nat

\* The lines at some positions.
Lines(l, D) == [i \in D |-> l[i]]

LEMMA TotalIsSum == ASSUME NEW l PROVE O!Total(l) = Sum(Values(l), DOMAIN l)
  BY DEF O!Total, O!SumFunction, O!SumFunctionOnSet, O!FoldFunctionOnSet, O!MapThenFoldSet,
         Sum, SumFunctionOnSet, FoldFunctionOnSet, MapThenFoldSet, Values

LEMMA FunctionSum == ASSUME NEW f PROVE O!SumFunction(f) = Sum(f, DOMAIN f)
  BY DEF O!SumFunction, O!SumFunctionOnSet, O!FoldFunctionOnSet, O!MapThenFoldSet,
         Sum, SumFunctionOnSet, FoldFunctionOnSet, MapThenFoldSet

LEMMA SameCardinality == ASSUME NEW S PROVE O!Cardinality(S) = Cardinality(S)
  BY DEF O!Cardinality, Cardinality

LEMMA ListSum ==
    ASSUME NEW l, IsList(l)
    PROVE  /\ Numbers(Values(l), DOMAIN l) /\ \A i \in DOMAIN l : Values(l)[i] \in Nat
           /\ O!Total(l) \in Nat
<1>1. Numbers(Values(l), DOMAIN l) /\ \A i \in DOMAIN l : Values(l)[i] \in Nat
  BY DEF IsList, Values, Numbers
<1>2. QED
  BY <1>1, SumPositive, TotalIsSum DEF IsList

LEMMA ListPart ==
    ASSUME NEW l, IsList(l), NEW D \in SUBSET DOMAIN l
    PROVE  /\ IsList(Lines(l, D)) /\ DOMAIN Lines(l, D) = D
           /\ \A i \in D : Lines(l, D)[i] = l[i]
           /\ O!Total(Lines(l, D)) = Sum(Values(l), D)
           /\ O!Total(Lines(l, D)) <= O!Total(l)
<1>1. IsList(Lines(l, D))
  BY FS_Subset DEF IsList, Lines
<1>2. DOMAIN Lines(l, D) = D /\ \A i \in D : Lines(l, D)[i] = l[i]
  BY DEF Lines
<1>3. O!Total(Lines(l, D)) = Sum(Values(l), D)
  <2>1. \A i \in D : Values(Lines(l, D))[i] = Values(l)[i]
    BY <1>2 DEF Values
  <2>2. IsFiniteSet(D)
    BY FS_Subset DEF IsList
  <2>3. Sum(Values(Lines(l, D)), D) = Sum(Values(l), D)
    BY <2>1, <2>2, SumSame
  <2>4. QED
    BY <1>2, <2>3, TotalIsSum
<1>4. Sum(Values(l), D) <= Sum(Values(l), DOMAIN l)
  BY ListSum, SumOfSubset DEF IsList
<1>5. QED
  BY <1>1, <1>2, <1>3, <1>4, TotalIsSum

\* The lines by a key, and what they total.
KeysOf(l, key) == {key[i] : i \in DOMAIN l}
OfKey(l, key, x) == Lines(l, {i \in DOMAIN l : key[i] = x})

LEMMA KeysFinite ==
    ASSUME NEW l, IsList(l), NEW key
    PROVE  IsFiniteSet(KeysOf(l, key))
<1>1. [i \in DOMAIN l |-> key[i]] \in Surjection(DOMAIN l, KeysOf(l, key))
  BY DEF KeysOf, Surjection
<1>2. QED
  BY <1>1, FS_Surjection DEF IsList

LEMMA TotalsByKey ==
    ASSUME NEW l, IsList(l), NEW key, NEW K, IsFiniteSet(K), \A i \in DOMAIN l : key[i] \in K,
           NEW parts, \A x \in K : parts[x] = O!Total(OfKey(l, key, x))
    PROVE  Sum(parts, K) = O!Total(l)
<1>1. \A x \in K : parts[x] = Sum(Values(l), {i \in DOMAIN l : key[i] = x})
  <2>1. TAKE x \in K
  <2>2. {i \in DOMAIN l : key[i] = x} \in SUBSET DOMAIN l
    OBVIOUS
  <2>3. O!Total(OfKey(l, key, x)) = Sum(Values(l), {i \in DOMAIN l : key[i] = x})
    BY <2>2, ListPart DEF OfKey
  <2>4. QED
    BY <2>3
<1>2. IsFiniteSet(DOMAIN l) /\ Numbers(Values(l), DOMAIN l)
  BY ListSum DEF IsList
<1>3. Sum(parts, K) = Sum(Values(l), DOMAIN l)
  BY <1>1, <1>2, PartsAddUp
<1>4. QED
  BY <1>3, TotalIsSum

LEMMA GreatestNatural ==
    ASSUME NEW D, \A i \in D : i \in Nat, IsFiniteSet(D), D # {}
    PROVE  \E i \in D : \A j \in D : j <= i
<1> DEFINE B == {s \in SUBSET D : s # {} /\ ~(\E i \in s : \A j \in s : j <= i)}
<1>1. SUFFICES ASSUME B # {} PROVE FALSE
  <2>1. D \in SUBSET D
    OBVIOUS
  <2>2. QED
    BY <2>1
<1>2. PICK s \in B : \A t \in SUBSET s : t \in B => t = s
  <2>1. B \in SUBSET (SUBSET D) /\ IsFiniteSet(D)
    OBVIOUS
  <2> HIDE DEF B
  <2>2. QED
    BY <1>1, <2>1, SmallestSubset
<1>3. PICK x \in s : TRUE
  OBVIOUS
<1>4. s \ {x} # {}
  <2>1. SUFFICES ASSUME s \ {x} = {} PROVE FALSE
    OBVIOUS
  <2>2. s = {x} /\ x \in Nat
    BY <1>3, <2>1
  <2>3. \A j \in s : j <= x
    BY <2>2
  <2>4. QED
    BY <1>3, <2>3
<1>5. PICK i \in s \ {x} : \A j \in s \ {x} : j <= i
  <2>1. s \ {x} \in SUBSET s /\ s \ {x} # s /\ s \ {x} \in SUBSET D
    BY <1>3
  <2>2. QED
    BY <1>2, <1>4, <2>1
<1>6. x \in Nat /\ i \in Nat
  BY <1>3, <1>5
<1>7. \E k \in {i, x} : i <= k /\ x <= k
  BY <1>6
<1>8. PICK k \in {i, x} : i <= k /\ x <= k
  BY <1>7
<1>9. \A j \in s : j <= k
  <2>1. TAKE j \in s
  <2>2. j \in Nat /\ k \in Nat
    BY <1>6
  <2>3. j = x \/ j <= i
    BY <1>5
  <2>4. QED
    BY <1>6, <1>8, <2>2, <2>3
<1>10. k \in s
  BY <1>3, <1>5
<1>11. QED
  BY <1>9, <1>10

LEMMA LastOfLines ==
    ASSUME NEW l, IsList(l)
    PROVE  /\ DOMAIN l = {} => O!LastValue(l) = 0
           /\ DOMAIN l # {} => \E i \in DOMAIN l : O!LastValue(l) = l[i].value
<1>1. DOMAIN l = {} => O!LastValue(l) = 0
  BY DEF O!LastValue
<1>2. ASSUME DOMAIN l # {} PROVE \E i \in DOMAIN l : O!LastValue(l) = l[i].value
  <2> DEFINE i == CHOOSE i \in DOMAIN l : \A j \in DOMAIN l : j <= i
  <2>1. i \in DOMAIN l
    BY <1>2, GreatestNatural DEF IsList
  <2>2. O!LastValue(l) = l[i].value
    BY <1>2 DEF O!LastValue
  <2>3. QED
    BY <2>1, <2>2
<1>3. QED
  BY <1>1, <1>2

\* The last line says no more than all, and as much where it is the only one.
LEMMA LastAndTotal ==
    ASSUME NEW l, IsList(l)
    PROVE  /\ O!LastValue(l) \in Nat /\ O!LastValue(l) <= O!Total(l)
           /\ (\A i, j \in DOMAIN l : i = j) => O!LastValue(l) = O!Total(l)
<1> DEFINE v == Values(l)
           S == DOMAIN l
<1>1. O!Total(l) = Sum(v, S) /\ IsFiniteSet(S) /\ Numbers(v, S) /\ \A i \in S : v[i] \in Nat
  BY ListSum, TotalIsSum DEF IsList
<1>2. CASE S = {}
  <2>1. Sum(v, S) = 0
    BY <1>1, <1>2, SumPick
  <2>2. O!LastValue(l) = 0
    BY <1>2, LastOfLines
  <2> HIDE DEF v, S
  <2>3. QED
    BY <1>1, <2>1, <2>2
<1>3. CASE S # {}
  <2>1. PICK i \in S : O!LastValue(l) = v[i]
    BY <1>3, LastOfLines DEF Values
  <2> HIDE DEF v, S
  <2>2. Sum(v, S) = v[i] + Sum(v, S \ {i})
    BY <1>1, SumAdds
  <2>3. IsFiniteSet(S \ {i}) /\ Sum(v, S \ {i}) \in Nat
    <3>1. IsFiniteSet(S \ {i})
      BY <1>1, FS_Subset
    <3>2. QED
      BY <1>1, <3>1, SumPositive
  <2>4. v[i] \in Nat
    BY <1>1
  <2>5. ASSUME \A a, b \in S : a = b PROVE Sum(v, S \ {i}) = 0
    <3>1. S \ {i} = {}
      BY <2>5
    <3>2. QED
      BY <2>3, <3>1, SumPick
  <2>6. O!LastValue(l) \in Nat /\ O!LastValue(l) <= O!Total(l)
    BY <1>1, <2>1, <2>2, <2>3, <2>4
  <2>7. (\A a, b \in S : a = b) => O!LastValue(l) = O!Total(l)
    BY <1>1, <2>1, <2>2, <2>4, <2>5
  <2>8. QED
    BY <2>6, <2>7 DEF S
<1>4. QED
  BY <1>2, <1>3

-----------------------------------------------------------------------------
(* The order of the top consumers. *)

\* Positions in an order of falling values.
Falling(l, D, order) ==
    /\ order \in Bijection(1 .. Cardinality(D), D)
    /\ \A i, j \in 1 .. Cardinality(D) : i < j => l[order[i]].value >= l[order[j]].value

LEMMA LeastLine ==
    ASSUME NEW l, IsList(l), NEW D, D # {}, D \subseteq DOMAIN l
    PROVE  \E x \in D : \A y \in D : l[x].value <= l[y].value
<1> DEFINE values == {l[x].value : x \in D}
<1>1. values \in SUBSET Nat /\ values # {}
  BY DEF IsList
<1>2. PICK n \in values : \A m \in values : n <= m
  <2> HIDE DEF values
  <2>1. QED
    BY <1>1, LeastNatural
<1>3. PICK x \in D : n = l[x].value
  BY <1>2
<1>4. QED
  BY <1>2, <1>3

\* The least of all goes last.
LEMMA FallingMore ==
    ASSUME NEW l, IsList(l), NEW D, IsFiniteSet(D), D \subseteq DOMAIN l, NEW x \in D,
           \A y \in D : l[x].value <= l[y].value,
           NEW order, Falling(l, D \ {x}, order)
    PROVE  Falling(l, D, [i \in 1 .. Cardinality(D) |->
                             IF i = Cardinality(D) THEN x ELSE order[i]])
<1> DEFINE n == Cardinality(D)
           more == [i \in 1 .. n |-> IF i = n THEN x ELSE order[i]]
<1>1. n \in Nat \ {0} /\ Cardinality(D \ {x}) = n - 1
  <2>1. n \in Nat /\ Cardinality(D \ {x}) = n - 1 /\ n # 0
    BY FS_CardinalityType, FS_RemoveElement, FS_EmptySet
  <2>2. QED
    BY <2>1
<1> HIDE DEF n
<1>2. /\ order \in [1 .. (n - 1) -> D \ {x}]
      /\ \A a, b \in 1 .. (n - 1) : order[a] = order[b] => a = b
      /\ \A y \in D \ {x} : \E a \in 1 .. (n - 1) : order[a] = y
      /\ \A i, j \in 1 .. (n - 1) : i < j => l[order[i]].value >= l[order[j]].value
  BY <1>1 DEF Falling, Bijection, Injection, Surjection, IsInjective
<1>3. \A i \in 1 .. n : i = n \/ i \in 1 .. (n - 1)
  BY <1>1
<1>4. /\ \A i \in 1 .. (n - 1) : i \in 1 .. n /\ i # n /\ more[i] = order[i]
      /\ n \in 1 .. n /\ more[n] = x
  BY <1>1
<1> HIDE DEF more
<1>5. \A i \in 1 .. n : more[i] \in D
  BY <1>2, <1>3, <1>4
<1>6. \A a, b \in 1 .. n : more[a] = more[b] => a = b
  BY <1>2, <1>3, <1>4
<1>7. \A y \in D : \E a \in 1 .. n : more[a] = y
  <2>1. TAKE y \in D
  <2>2. CASE y = x
    BY <1>4, <2>2
  <2>3. CASE y # x
    BY <1>2, <1>4, <2>3
  <2>4. QED
    BY <2>2, <2>3
<1>8. \A i, j \in 1 .. n : i < j => l[more[i]].value >= l[more[j]].value
  <2>1. SUFFICES ASSUME NEW i \in 1 .. n, NEW j \in 1 .. n, i < j
                 PROVE  l[more[i]].value >= l[more[j]].value
    OBVIOUS
  <2>2. i \in 1 .. (n - 1)
    BY <1>1, <2>1
  <2>3. CASE j = n
    <3>1. l[x].value <= l[more[i]].value
      BY <1>5
    <3>2. l[x].value \in Nat /\ l[more[i]].value \in Nat
      BY <1>5 DEF IsList
    <3>3. QED
      BY <1>4, <2>3, <3>1, <3>2
  <2>4. CASE j \in 1 .. (n - 1)
    BY <1>2, <1>4, <2>1, <2>2, <2>4
  <2>5. QED
    BY <1>3, <2>3, <2>4
<1>9. DOMAIN more = 1 .. n /\ more = [i \in 1 .. n |-> more[i]]
  BY DEF more
<1>10. more \in Bijection(1 .. n, D)
  <2>1. more \in [1 .. n -> D]
    BY <1>5, <1>9
  <2>2. QED
    BY <1>6, <1>7, <1>9, <2>1 DEF Bijection, Injection, Surjection, IsInjective
<1>11. QED
  BY <1>8, <1>10 DEF Falling, more, n

LEMMA FallingExists ==
    ASSUME NEW l, IsList(l)
    PROVE  \E order : Falling(l, DOMAIN l, order)
<1> DEFINE B == {D \in SUBSET DOMAIN l : ~(\E order : Falling(l, D, order))}
<1>1. SUFFICES ASSUME B # {} PROVE FALSE
  OBVIOUS
<1>2. PICK D \in B : \A t \in SUBSET D : t \in B => t = D
  <2>1. B \in SUBSET (SUBSET DOMAIN l) /\ IsFiniteSet(DOMAIN l)
    BY DEF IsList
  <2> HIDE DEF B
  <2>2. QED
    BY <1>1, <2>1, SmallestSubset
<1>3. /\ D \in SUBSET DOMAIN l /\ ~(\E order : Falling(l, D, order))
      /\ \A t \in SUBSET D : t # D => \E order : Falling(l, t, order)
  BY <1>2
<1> HIDE DEF B
<1>4. IsFiniteSet(D)
  BY <1>3, FS_Subset DEF IsList
<1>5. D # {}
  <2>1. SUFFICES ASSUME D = {} PROVE FALSE
    OBVIOUS
  <2>2. Cardinality(D) = 0 /\ 1 .. 0 = {}
    BY <2>1, FS_EmptySet
  <2>3. [i \in {} |-> 0] \in Bijection({}, {})
    BY DEF Bijection, Injection, Surjection, IsInjective
  <2>4. Falling(l, D, [i \in {} |-> 0])
    BY <2>1, <2>2, <2>3 DEF Falling
  <2>5. QED
    BY <1>3, <2>4
<1>6. PICK x \in D : \A y \in D : l[x].value <= l[y].value
  BY <1>3, <1>5, LeastLine
<1>7. PICK order : Falling(l, D \ {x}, order)
  BY <1>3, <1>6
<1>8. QED
  BY <1>3, <1>4, <1>6, <1>7, FallingMore

LEMMA SortedFalls ==
    ASSUME NEW l, IsList(l)
    PROVE  Falling(l, DOMAIN l, O!Sorted(l))
<1> DEFINE D == DOMAIN l
           n == Cardinality(D)
           Good(order) == \A i, j \in DOMAIN order : i < j => l[order[i]].value >= l[order[j]].value
<1>1. \A order \in Bijection(1 .. n, D) : DOMAIN order = 1 .. n
  BY DEF Bijection, Injection
<1>2. \E order \in Bijection(1 .. n, D) : Good(order)
  <2>1. PICK order : Falling(l, D, order)
    BY FallingExists
  <2>2. order \in Bijection(1 .. n, D)
    BY <2>1 DEF Falling
  <2>3. Good(order)
    BY <1>1, <2>1, <2>2 DEF Falling
  <2>4. QED
    BY <2>2, <2>3
<1>3. O!Bijection(1 .. n, D) = Bijection(1 .. n, D)
  BY DEF O!Bijection, O!Injection, O!Surjection, O!IsInjective,
         Bijection, Injection, Surjection, IsInjective
<1>4. O!Cardinality(D) = n
  BY SameCardinality
<1> DEFINE m == O!Cardinality(D)
<1>5. O!Sorted(l) = CHOOSE order \in O!Bijection(1 .. m, D) : Good(order)
  BY DEF O!Sorted
<1>6. \E order \in O!Bijection(1 .. m, D) : Good(order)
  BY <1>2, <1>3, <1>4
<1> HIDE DEF Good, m
<1>7. O!Sorted(l) \in O!Bijection(1 .. m, D) /\ Good(O!Sorted(l))
  BY <1>5, <1>6
<1>8. m = n
  BY <1>4 DEF m
<1>9. QED
  BY <1>1, <1>3, <1>7, <1>8 DEF Falling, Good

\* Fewer lines than the place of a line in this order are above it.
LEMMA FewAbove ==
    ASSUME NEW l, IsList(l), NEW order, Falling(l, DOMAIN l, order),
           NEW i \in 1 .. Cardinality(DOMAIN l)
    PROVE  Cardinality({j \in DOMAIN l : l[j].value > l[order[i]].value}) < i
<1> DEFINE n == Cardinality(DOMAIN l)
           above == {j \in DOMAIN l : l[j].value > l[order[i]].value}
           before == {order[a] : a \in 1 .. (i - 1)}
<1>1. n \in Nat /\ i \in Nat \ {0}
  BY FS_CardinalityType DEF IsList
<1>2. /\ order \in [1 .. n -> DOMAIN l]
      /\ \A y \in DOMAIN l : \E a \in 1 .. n : order[a] = y
      /\ \A a, b \in 1 .. n : a < b => l[order[a]].value >= l[order[b]].value
  BY DEF Falling, Bijection, Injection, Surjection
<1> HIDE DEF n
<1>3. above \subseteq before
  <2>1. SUFFICES ASSUME NEW j \in above PROVE j \in before
    OBVIOUS
  <2>2. j \in DOMAIN l /\ l[j].value > l[order[i]].value
    OBVIOUS
  <2>3. PICK a \in 1 .. n : order[a] = j
    BY <1>2, <2>2
  <2>4. i \in 1 .. n
    BY DEF n
  <2>5. order[i] \in DOMAIN l
    BY <1>2, <2>4
  <2>6. l[j].value \in Nat /\ l[order[i]].value \in Nat
    BY <2>2, <2>5 DEF IsList
  <2>7. a \in Nat /\ a # i
    BY <2>2, <2>3, <2>6
  <2>8. ~(i < a)
    BY <1>2, <2>2, <2>3, <2>4, <2>6
  <2>9. a \in 1 .. (i - 1)
    BY <1>1, <2>3, <2>7, <2>8
  <2>10. QED
    BY <2>3, <2>9
<1>4. IsFiniteSet(before) /\ Cardinality(before) <= i - 1
  <2>1. IsFiniteSet(1 .. (i - 1)) /\ Cardinality(1 .. (i - 1)) = i - 1
    BY <1>1, FS_Interval
  <2>2. [a \in 1 .. (i - 1) |-> order[a]] \in Surjection(1 .. (i - 1), before)
    BY DEF Surjection
  <2> HIDE DEF before
  <2>3. QED
    BY <2>1, <2>2, FS_Surjection
<1>5. Cardinality(above) <= Cardinality(before) /\ Cardinality(above) \in Nat
      /\ Cardinality(before) \in Nat
  <2> HIDE DEF above, before
  <2>1. QED
    BY <1>3, <1>4, FS_Subset, FS_CardinalityType
<1> HIDE DEF above, before
<1>6. Cardinality(above) < i
  BY <1>1, <1>4, <1>5
<1>7. QED
  BY <1>6 DEF above

-----------------------------------------------------------------------------
(* What a scrape says. *)

LEMMA NumberedLines ==
    ASSUME NEW text \in Texts, NEW name
    PROVE  /\ O!Numbered(text, name)
                  = Lines(text, {i \in DOMAIN text : text[i].value # Null /\ text[i].name = name})
           /\ IsList(O!Numbered(text, name))
<1> DEFINE D == {i \in DOMAIN text : text[i].value # Null /\ text[i].name = name}
           E == {i \in DOMAIN text : text[i].value # Null}
           all == [i \in E |-> text[i]]
<1>1. O!Numbered(text, name) = [i \in {j \in DOMAIN all : all[j].name = name} |-> all[i]]
  BY DEF O!Numbered, O!Named, O!RestrictValues, O!Restrict
<1>2. {j \in DOMAIN all : all[j].name = name} = D /\ \A i \in D : all[i] = text[i]
  OBVIOUS
<1> HIDE DEF all
<1>3. O!Numbered(text, name) = Lines(text, D)
  BY <1>1, <1>2 DEF Lines
<1>4. IsList(Lines(text, D))
  <2>1. /\ Len(text) \in Nat /\ DOMAIN text = 1 .. Len(text)
        /\ \A i \in DOMAIN text : text[i].value \in Nat \cup {Null}
    BY TextsAssumption
  <2>2. IsFiniteSet(DOMAIN text)
    BY <2>1, FS_Interval
  <2>3. IsFiniteSet(D)
    BY <2>2, FS_Subset
  <2>4. D \subseteq Nat /\ \A i \in D : text[i].value \in Nat
    BY <2>1
  <2> HIDE DEF D
  <2>5. QED
    BY <2>3, <2>4 DEF Lines, IsList
<1>5. QED
  BY <1>3, <1>4

LEMMA Scrape ==
    ASSUME NEW text
    PROVE  LET metrics == O!parsePrometheusMetrics(text) IN
           /\ metrics.containers.cpu = O!Numbered(text, "container_cpu")
           /\ metrics.containers.memory = O!Numbered(text, "container_memory")
           /\ metrics.containers.gpu = O!Numbered(text, "container_gpu")
           /\ metrics.costs.cpu = O!Numbered(text, "node_cpu_cost")
           /\ metrics.costs.ram = O!Numbered(text, "node_ram_cost")
           /\ metrics.costs.gpu = O!Numbered(text, "node_gpu_cost")
           /\ metrics.costs.total = O!Numbered(text, "node_total_cost")
           /\ metrics.gpuCounts = O!Numbered(text, "node_gpu_count")
           /\ metrics.capacity.cpu = O!LastValue(O!Numbered(text, "capacity_cpu"))
           /\ metrics.capacity.memory = O!LastValue(O!Numbered(text, "capacity_memory"))
           /\ metrics.allocatable.cpu = O!LastValue(O!Numbered(text, "allocatable_cpu"))
           /\ metrics.allocatable.memory = O!LastValue(O!Numbered(text, "allocatable_memory"))
  BY DEF O!parsePrometheusMetrics, O!processMetric, O!processContainerAllocation,
         O!processNodeCost, O!processNodeCapacity, O!processNodeAllocatable, O!Capacity, O!Numbered

\* Of one node each thing is said once, so that the last is all.
LEMMA SaidOnce ==
    ASSUME NEW text \in Texts, O!OneNode(text), NEW name \in NodeMetrics
    PROVE  O!LastValue(O!Numbered(text, name)) = O!Total(O!Numbered(text, name))
<1>1. Cardinality(O!NodesOf(text)) = 1
  BY SameCardinality DEF O!OneNode
<1>2. IsFiniteSet(O!NodesOf(text))
  <2>1. IsFiniteSet(DOMAIN text)
    BY TextsAssumption, FS_Interval
  <2>2. [i \in DOMAIN text |-> text[i].node] \in Surjection(DOMAIN text, O!NodesOf(text))
    BY DEF O!NodesOf, Surjection
  <2>3. QED
    BY <2>1, <2>2, FS_Surjection
<1>3. PICK node : O!NodesOf(text) = {node}
  BY <1>1, <1>2, FS_Singleton
<1>4. \A i \in DOMAIN text : text[i].node = node
  BY <1>3 DEF O!NodesOf
<1> DEFINE l == O!Numbered(text, name)
<1>5. IsList(l) /\ DOMAIN l \subseteq DOMAIN text /\ \A i \in DOMAIN l : text[i].name = name
  <2>1. IsList(l) /\ l = Lines(text, {i \in DOMAIN text : text[i].value # Null /\ text[i].name = name})
    BY NumberedLines
  <2> HIDE DEF l
  <2>2. QED
    BY <2>1 DEF Lines
<1>6. \A i, j \in DOMAIN l : i = j
  BY <1>4, <1>5, TextsAssumption
<1> HIDE DEF l
<1>7. O!LastValue(l) = O!Total(l)
  BY <1>5, <1>6, LastAndTotal
<1>8. QED
  BY <1>7 DEF l

\* What is allocated fits into what there is, if anything is known of it.
LEMMA Fits ==
    ASSUME NEW text \in Texts, O!OneNode(text),
           NEW part \in {"container_cpu", "container_memory"},
           NEW name \in {"capacity_cpu", "capacity_memory", "allocatable_cpu", "allocatable_memory"},
           part = "container_cpu" <=> name \in {"capacity_cpu", "allocatable_cpu"}
    PROVE  LET whole == O!LastValue(O!Numbered(text, name)) IN
           /\ whole \in Nat
           /\ DOMAIN O!Numbered(text, name) # {} => O!Total(O!Numbered(text, part)) <= whole
           /\ whole = 0 \/ O!Total(O!Numbered(text, part)) <= whole
<1> DEFINE l == O!Numbered(text, name)
           a == O!Total(O!Numbered(text, part))
<1>1. name \in NodeMetrics
  BY DEF NodeMetrics
<1>2. IsList(l)
  BY NumberedLines
<1>3. O!LastValue(l) = O!Total(l)
  BY <1>1, SaidOnce
<1>4. DOMAIN l # {} => a <= O!Total(l)
  BY DEF O!OneNode
<1> HIDE DEF l, a
<1>5. O!LastValue(l) \in Nat /\ (DOMAIN l = {} => O!LastValue(l) = 0)
  BY <1>2, LastAndTotal, LastOfLines
<1>6. QED
  BY <1>3, <1>4, <1>5 DEF l, a

LEMMA AtMostAll ==
    ASSUME NEW part \in Nat, NEW whole \in Nat, whole = 0 \/ part <= whole
    PROVE  O!percent(part, whole) <= 100
<1>1. CASE whole = 0
  BY <1>1 DEF O!percent
<1>2. CASE whole > 0
  <2>1. part * 100 <= whole * 100
    BY <1>2
  <2> DEFINE n == part * 100
             q == n \div whole
  <2>2. n \in Nat /\ n <= whole * 100
    BY <2>1
  <2> HIDE DEF n
  <2>3. q \in Int /\ whole * q <= n
    BY <1>2, <2>2
  <2> HIDE DEF q
  <2>4. q <= 100
    <3>1. SUFFICES ASSUME q >= 101 PROVE FALSE
      BY <2>3
    <3>2. whole * q >= whole * 101
      BY <1>2, <2>3, <3>1
    <3>3. QED
      BY <1>2, <2>2, <2>3, <3>2
  <2>5. QED
    BY <1>2, <2>4 DEF O!percent, q, n
<1>3. QED
  BY <1>1, <1>2

-----------------------------------------------------------------------------
(* The views of a scrape. *)

\* Keys of lines.
ByNode(l) == [i \in DOMAIN l |-> l[i].node]
ByNamespace(l) == [i \in DOMAIN l |-> l[i].namespace]
ByPod(l) == [i \in DOMAIN l |-> <<l[i].namespace, l[i].pod>>]
ByContainer(l) == [i \in DOMAIN l |-> <<l[i].pod, l[i].container>>]

LEMMA OfKeyIs ==
    ASSUME NEW l, NEW key, NEW x, NEW D, \A i : i \in D <=> i \in DOMAIN l /\ key[i] = x
    PROVE  OfKey(l, key, x) = Lines(l, D)
<1>1. D = {i \in DOMAIN l : key[i] = x}
  OBVIOUS
<1>2. QED
  BY <1>1 DEF OfKey

LEMMA LinesByKey ==
    ASSUME NEW l, NEW x
    PROVE  /\ O!OfNode(l, x) = OfKey(l, ByNode(l), x)
           /\ O!OfNamespace(l, x) = OfKey(l, ByNamespace(l), x)
           /\ O!OfPod(l, x) = OfKey(l, ByPod(l), x)
           /\ O!OfContainer(l, x) = OfKey(l, ByContainer(l), x)
<1>1. O!OfNode(l, x) = OfKey(l, ByNode(l), x)
  <2> DEFINE D == {i \in DOMAIN l : l[i].node = x}
  <2>1. O!OfNode(l, x) = Lines(l, D)
    BY DEF O!OfNode, O!RestrictValues, O!Restrict, Lines
  <2>2. \A i : i \in D <=> i \in DOMAIN l /\ ByNode(l)[i] = x
    BY DEF ByNode
  <2> HIDE DEF D
  <2>3. QED
    BY <2>1, <2>2, OfKeyIs
<1>2. O!OfNamespace(l, x) = OfKey(l, ByNamespace(l), x)
  <2> DEFINE D == {i \in DOMAIN l : l[i].namespace = x}
  <2>1. O!OfNamespace(l, x) = Lines(l, D)
    BY DEF O!OfNamespace, O!RestrictValues, O!Restrict, Lines
  <2>2. \A i : i \in D <=> i \in DOMAIN l /\ ByNamespace(l)[i] = x
    BY DEF ByNamespace
  <2> HIDE DEF D
  <2>3. QED
    BY <2>1, <2>2, OfKeyIs
<1>3. O!OfPod(l, x) = OfKey(l, ByPod(l), x)
  <2> DEFINE D == {i \in DOMAIN l : <<l[i].namespace, l[i].pod>> = x}
  <2>1. O!OfPod(l, x) = Lines(l, D)
    BY DEF O!OfPod, O!RestrictValues, O!Restrict, Lines
  <2>2. \A i : i \in D <=> i \in DOMAIN l /\ ByPod(l)[i] = x
    BY DEF ByPod
  <2> HIDE DEF D
  <2>3. QED
    BY <2>1, <2>2, OfKeyIs
<1>4. O!OfContainer(l, x) = OfKey(l, ByContainer(l), x)
  <2> DEFINE D == {i \in DOMAIN l : <<l[i].pod, l[i].container>> = x}
  <2>1. O!OfContainer(l, x) = Lines(l, D)
    BY DEF O!OfContainer, O!RestrictValues, O!Restrict, Lines
  <2>2. \A i : i \in D <=> i \in DOMAIN l /\ ByContainer(l)[i] = x
    BY DEF ByContainer
  <2> HIDE DEF D
  <2>3. QED
    BY <2>1, <2>2, OfKeyIs
<1>5. QED
  BY <1>1, <1>2, <1>3, <1>4

LEMMA KeysOfLines ==
    ASSUME NEW l
    PROVE  /\ O!NodesOf(l) = KeysOf(l, ByNode(l))
           /\ O!NamespacesOf(l) = KeysOf(l, ByNamespace(l))
           /\ O!PodsOf(l) = KeysOf(l, ByPod(l))
           /\ O!ContainersOf(l) = KeysOf(l, ByContainer(l))
  BY DEF KeysOf, ByNode, ByNamespace, ByPod, ByContainer, O!NodesOf, O!NamespacesOf, O!PodsOf,
         O!ContainersOf

LEMMA TotalsOf ==
    ASSUME NEW l, IsList(l), NEW key, NEW parts,
           parts = [x \in KeysOf(l, key) |-> O!Total(OfKey(l, key, x))]
    PROVE  O!SumFunction(parts) = O!Total(l)
<1>1. /\ \A x \in KeysOf(l, key) : parts[x] = O!Total(OfKey(l, key, x))
      /\ DOMAIN parts = KeysOf(l, key)
  OBVIOUS
<1>2. \A i \in DOMAIN l : key[i] \in KeysOf(l, key)
  BY DEF KeysOf
<1>3. Sum(parts, KeysOf(l, key)) = O!Total(l)
  BY <1>1, <1>2, KeysFinite, TotalsByKey
<1>4. QED
  BY <1>1, <1>3, FunctionSum

\* Namespaces and pods add up.
LEMMA NamespacesAndPodsAddUp ==
    ASSUME NEW l, IsList(l)
    PROVE  /\ O!SumFunction([ns \in O!NamespacesOf(l) |-> O!Total(O!OfNamespace(l, ns))])
                  = O!Total(l)
           /\ O!SumFunction([key \in O!PodsOf(l) |-> O!Total(O!OfPod(l, key))]) = O!Total(l)
<1> DEFINE f == [ns \in O!NamespacesOf(l) |-> O!Total(O!OfNamespace(l, ns))]
           g == [key \in O!PodsOf(l) |-> O!Total(O!OfPod(l, key))]
<1>1. f = [x \in KeysOf(l, ByNamespace(l)) |-> O!Total(OfKey(l, ByNamespace(l), x))]
  BY KeysOfLines, LinesByKey
<1>2. g = [x \in KeysOf(l, ByPod(l)) |-> O!Total(OfKey(l, ByPod(l), x))]
  BY KeysOfLines, LinesByKey
<1> HIDE DEF f, g
<1>3. O!SumFunction(f) = O!Total(l) /\ O!SumFunction(g) = O!Total(l)
  BY <1>1, <1>2, TotalsOf
<1>4. QED
  BY <1>3 DEF f, g

LEMMA TopConsumers ==
    ASSUME NEW l, IsList(l), NEW total, NEW n,
           NEW i \in DOMAIN O!getTopConsumers(l, total, n)
    PROVE  Cardinality({j \in DOMAIN l : l[j].value > O!getTopConsumers(l, total, n)[i].value}) < i
<1>1. i \in 1 .. Cardinality(DOMAIN l)
      /\ O!getTopConsumers(l, total, n)[i].value = l[O!Sorted(l)[i]].value
  BY SameCardinality DEF O!getTopConsumers
<1>2. QED
  BY <1>1, SortedFalls, FewAbove

LEMMA ResourcesDoAddUp ==
    ASSUME NEW text \in Texts, NEW view,
           view = O!GetResourceAnalytics(O!parsePrometheusMetrics(text), TopN)
    PROVE  O!ResourcesAddUp(text, view)
<1> DEFINE cpu == O!Numbered(text, "container_cpu")
           memory == O!Numbered(text, "container_memory")
           CPU == O!LastValue(O!Numbered(text, "allocatable_cpu"))
           Memory == O!LastValue(O!Numbered(text, "allocatable_memory"))
<1>1. IsList(cpu) /\ IsList(memory)
  BY NumberedLines
<1>2. O!Total(cpu) \in Nat /\ O!Total(memory) \in Nat
  BY <1>1, ListSum
<1>3. /\ view.TotalCPUAllocated = O!Total(cpu) /\ view.TotalMemoryAllocated = O!Total(memory)
      /\ view.CPUUtilizationPercent = O!percent(O!Total(cpu), CPU)
      /\ view.MemoryUtilizationPercent = O!percent(O!Total(memory), Memory)
      /\ view.CPUByNamespace = [ns \in O!NamespacesOf(cpu) |-> O!Total(O!OfNamespace(cpu, ns))]
      /\ view.MemoryByNamespace =
            [ns \in O!NamespacesOf(memory) |-> O!Total(O!OfNamespace(memory, ns))]
      /\ view.CPUByPod = [key \in O!PodsOf(cpu) |-> O!Total(O!OfPod(cpu, key))]
      /\ view.MemoryByPod = [key \in O!PodsOf(memory) |-> O!Total(O!OfPod(memory, key))]
      /\ view.TopCPUConsumers = O!getTopConsumers(cpu, O!Total(cpu), TopN)
  BY Scrape DEF O!GetResourceAnalytics
<1>4. O!OneNode(text) => view.CPUUtilizationPercent <= 100 /\ view.MemoryUtilizationPercent <= 100
  <2>1. HAVE O!OneNode(text)
  <2>2. /\ CPU \in Nat /\ (CPU = 0 \/ O!Total(cpu) <= CPU)
        /\ Memory \in Nat /\ (Memory = 0 \/ O!Total(memory) <= Memory)
    BY <2>1, Fits
  <2> HIDE DEF cpu, memory, CPU, Memory
  <2>3. QED
    BY <1>2, <1>3, <2>2, AtMostAll
<1> HIDE DEF cpu, memory, CPU, Memory
<1>5. /\ O!SumFunction(view.CPUByNamespace) = view.TotalCPUAllocated
      /\ O!SumFunction(view.CPUByPod) = view.TotalCPUAllocated
      /\ O!SumFunction(view.MemoryByNamespace) = view.TotalMemoryAllocated
      /\ O!SumFunction(view.MemoryByPod) = view.TotalMemoryAllocated
  BY <1>1, <1>3, NamespacesAndPodsAddUp
<1>6. ASSUME NEW i \in DOMAIN view.TopCPUConsumers
      PROVE  Cardinality({j \in DOMAIN cpu : cpu[j].value > view.TopCPUConsumers[i].value}) < i
  BY <1>1, <1>3, TopConsumers
<1>7. QED
  BY <1>4, <1>5, <1>6, SameCardinality DEF O!ResourcesAddUp, cpu

\* What the last lines of the keys say is no more than all, and as much where
\* each key has one line.
LEMMA LastsOf ==
    ASSUME NEW l, IsList(l), NEW key, NEW K, IsFiniteSet(K), \A i \in DOMAIN l : key[i] \in K,
           NEW lasts, \A x \in K : lasts[x] = O!LastValue(OfKey(l, key, x))
    PROVE  /\ Sum(lasts, K) <= O!Total(l)
           /\ (\A i, j \in DOMAIN l : key[i] = key[j] => i = j) => Sum(lasts, K) = O!Total(l)
<1> DEFINE parts == [x \in K |-> O!Total(OfKey(l, key, x))]
<1>1. ASSUME NEW x \in K
      PROVE  /\ parts[x] = O!Total(OfKey(l, key, x)) /\ parts[x] \in Nat
             /\ lasts[x] \in Nat /\ lasts[x] <= parts[x]
             /\ (\A i, j \in DOMAIN l : key[i] = key[j] => i = j) => lasts[x] = parts[x]
  <2> DEFINE D == {i \in DOMAIN l : key[i] = x}
             own == OfKey(l, key, x)
  <2>1. D \in SUBSET DOMAIN l /\ own = Lines(l, D)
    BY DEF OfKey
  <2>2. IsList(own) /\ DOMAIN own = D
    <3> HIDE DEF D, own
    <3>1. QED
      BY <2>1, ListPart
  <2>3. (\A i, j \in DOMAIN l : key[i] = key[j] => i = j) => \A i, j \in DOMAIN own : i = j
    BY <2>2
  <2>4. parts[x] = O!Total(own) /\ lasts[x] = O!LastValue(own)
    OBVIOUS
  <2> HIDE DEF own, D, parts
  <2>5. parts[x] \in Nat /\ lasts[x] \in Nat /\ lasts[x] <= parts[x]
    BY <2>2, <2>4, ListSum, LastAndTotal
  <2>6. (\A i, j \in DOMAIN l : key[i] = key[j] => i = j) => lasts[x] = parts[x]
    BY <2>2, <2>3, <2>4, LastAndTotal
  <2>7. QED
    BY <2>4, <2>5, <2>6 DEF own
<1> HIDE DEF parts
<1>2. \A x \in K : parts[x] = O!Total(OfKey(l, key, x))
  BY <1>1
<1>3. Sum(parts, K) = O!Total(l)
  BY <1>2, TotalsByKey
<1>4. Numbers(parts, K) /\ Numbers(lasts, K) /\ \A x \in K : 1 * lasts[x] <= 1 * parts[x]
  BY <1>1 DEF Numbers
<1>5. 1 * Sum(lasts, K) <= 1 * Sum(parts, K)
  BY <1>4, SumScales
<1>6. Sum(lasts, K) \in Int /\ Sum(parts, K) \in Int
  BY <1>4, SumType
<1>7. (\A i, j \in DOMAIN l : key[i] = key[j] => i = j) => Sum(lasts, K) = Sum(parts, K)
  BY <1>1, SumSame
<1>8. QED
  BY <1>3, <1>5, <1>6, <1>7

LEMMA ContainersFinite ==
    ASSUME NEW l, IsList(l)
    PROVE  IsFiniteSet(O!ContainersOf(l)) /\ \A i \in DOMAIN l : ByContainer(l)[i] \in O!ContainersOf(l)
<1>1. \A i \in DOMAIN l : ByContainer(l)[i] \in O!ContainersOf(l)
  BY DEF ByContainer, O!ContainersOf
<1>2. QED
  BY <1>1, KeysFinite, KeysOfLines

LEMMA ContainersAddUp ==
    ASSUME NEW l, IsList(l), NEW K, IsFiniteSet(K), O!ContainersOf(l) \subseteq K,
           NEW lasts, DOMAIN lasts = K, \A x \in K : lasts[x] = O!LastValue(O!OfContainer(l, x))
    PROVE  /\ O!SumFunction(lasts) <= O!Total(l)
           /\ O!Unique(l) => O!SumFunction(lasts) = O!Total(l)
<1>1. \A i \in DOMAIN l : ByContainer(l)[i] \in K
  BY ContainersFinite
<1>2. \A x \in K : lasts[x] = O!LastValue(OfKey(l, ByContainer(l), x))
  BY LinesByKey
<1>3. O!Unique(l) =>
          \A i, j \in DOMAIN l : ByContainer(l)[i] = ByContainer(l)[j] => i = j
  BY DEF O!Unique, ByContainer
<1>4. /\ Sum(lasts, K) <= O!Total(l)
      /\ (\A i, j \in DOMAIN l : ByContainer(l)[i] = ByContainer(l)[j] => i = j) =>
            Sum(lasts, K) = O!Total(l)
  BY <1>1, <1>2, LastsOf
<1>5. QED
  BY <1>3, <1>4, FunctionSum

\* The lines of one namespace.
LEMMA NamespacePart ==
    ASSUME NEW l, IsList(l), NEW ns
    PROVE  /\ IsList(O!OfNamespace(l, ns))
           /\ O!Total(O!OfNamespace(l, ns)) \in Nat
           /\ O!Total(O!OfNamespace(l, ns)) <= O!Total(l)
           /\ ns \notin O!NamespacesOf(l) => O!Total(O!OfNamespace(l, ns)) = 0
<1> DEFINE D == {i \in DOMAIN l : ByNamespace(l)[i] = ns}
           own == O!OfNamespace(l, ns)
<1>1. D \in SUBSET DOMAIN l /\ own = Lines(l, D)
  <2>1. D \in SUBSET DOMAIN l /\ \A i : i \in D <=> i \in DOMAIN l /\ ByNamespace(l)[i] = ns
    OBVIOUS
  <2>2. own = OfKey(l, ByNamespace(l), ns)
    BY LinesByKey
  <2> HIDE DEF D, own
  <2>3. QED
    BY <2>1, <2>2, OfKeyIs
<1>2. ns \notin O!NamespacesOf(l) => D = {}
  BY DEF ByNamespace, O!NamespacesOf
<1> HIDE DEF D, own
<1>3. IsList(own) /\ O!Total(own) <= O!Total(l) /\ O!Total(own) = Sum(Values(l), D)
  BY <1>1, ListPart
<1>4. O!Total(own) \in Nat
  BY <1>3, ListSum
<1>5. D = {} => Sum(Values(l), D) = 0
  BY FS_EmptySet, SumPick
<1>6. QED
  BY <1>2, <1>3, <1>4, <1>5 DEF own

LEMMA NamespaceDoesAddUp ==
    ASSUME NEW text \in Texts, NEW ns, NEW view,
           view = O!GetNamespaceBreakdown(O!parsePrometheusMetrics(text), ns)
    PROVE  O!NamespaceAddsUp(text, ns, view)
<1> DEFINE cpus == O!Numbered(text, "container_cpu")
           memories == O!Numbered(text, "container_memory")
           gpus == O!Numbered(text, "container_gpu")
           cpu == O!OfNamespace(cpus, ns)
           memory == O!OfNamespace(memories, ns)
           gpu == O!OfNamespace(gpus, ns)
           K == O!ContainersOf(cpu) \cup O!ContainersOf(memory) \cup O!ContainersOf(gpu)
           all == O!GetResourceAnalytics(O!parsePrometheusMetrics(text), 1)
<1>1. IsList(cpus) /\ IsList(memories) /\ IsList(gpus)
  BY NumberedLines
<1>2. /\ view.TotalCPU = O!Total(cpu) /\ view.TotalMemory = O!Total(memory)
      /\ view.CPUPercent = O!percent(O!Total(cpu), O!Total(cpus))
      /\ view.MemoryPercent = O!percent(O!Total(memory), O!Total(memories))
      /\ view.Containers =
            [key \in K |-> [cpu |-> O!LastValue(O!OfContainer(cpu, key)),
                            memory |-> O!LastValue(O!OfContainer(memory, key)),
                            gpu |-> O!LastValue(O!OfContainer(gpu, key))]]
  BY Scrape DEF O!GetNamespaceBreakdown
<1>3. all.CPUByNamespace = [x \in O!NamespacesOf(cpus) |-> O!Total(O!OfNamespace(cpus, x))]
  BY Scrape DEF O!GetResourceAnalytics
<1>4. view.TotalCPU = IF ns \in DOMAIN all.CPUByNamespace THEN all.CPUByNamespace[ns] ELSE 0
  <2>1. ns \notin O!NamespacesOf(cpus) => O!Total(cpu) = 0
    BY <1>1, NamespacePart
  <2> HIDE DEF cpus, all
  <2>2. QED
    BY <1>2, <1>3, <2>1
<1> HIDE DEF cpus, memories, gpus, all
<1>5. /\ IsList(cpu) /\ IsList(memory) /\ IsList(gpu)
      /\ O!Total(cpu) \in Nat /\ O!Total(cpu) <= O!Total(cpus)
      /\ O!Total(memory) \in Nat /\ O!Total(memory) <= O!Total(memories)
      /\ O!Total(cpus) \in Nat /\ O!Total(memories) \in Nat
  BY <1>1, NamespacePart, ListSum
<1>6. view.CPUPercent <= 100 /\ view.MemoryPercent <= 100
  <2> HIDE DEF cpu, memory
  <2>1. QED
    BY <1>2, <1>5, AtMostAll
<1> DEFINE of(field) == [key \in DOMAIN view.Containers |-> view.Containers[key][field]]
<1>7. /\ DOMAIN of("cpu") = K /\ \A x \in K : of("cpu")[x] = O!LastValue(O!OfContainer(cpu, x))
      /\ DOMAIN of("memory") = K
      /\ \A x \in K : of("memory")[x] = O!LastValue(O!OfContainer(memory, x))
  <2> HIDE DEF cpu, memory, gpu, K
  <2>1. QED
    BY <1>2
<1>8. IsFiniteSet(K) /\ O!ContainersOf(cpu) \subseteq K /\ O!ContainersOf(memory) \subseteq K
  <2> HIDE DEF cpu, memory, gpu
  <2>1. QED
    BY <1>5, ContainersFinite, FS_Union
<1> DEFINE cpuOf == of("cpu")
           memoryOf == of("memory")
<1>9. /\ DOMAIN cpuOf = K /\ \A x \in K : cpuOf[x] = O!LastValue(O!OfContainer(cpu, x))
      /\ DOMAIN memoryOf = K
      /\ \A x \in K : memoryOf[x] = O!LastValue(O!OfContainer(memory, x))
  BY <1>7
<1> HIDE DEF cpuOf, memoryOf, K, cpu, memory, gpu
<1>10. /\ O!SumFunction(cpuOf) <= O!Total(cpu)
       /\ O!Unique(cpu) => O!SumFunction(cpuOf) = O!Total(cpu)
       /\ O!SumFunction(memoryOf) <= O!Total(memory)
  BY <1>5, <1>8, <1>9, ContainersAddUp
<1>11. QED
  BY <1>2, <1>4, <1>6, <1>10
     DEF O!NamespaceAddsUp, cpuOf, memoryOf, cpu, memory, cpus, all

-----------------------------------------------------------------------------
(* The view of the cluster. *)

\* A set of keys that a set of keys gives is no larger.
LEMMA FewerKeys ==
    ASSUME NEW S, IsFiniteSet(S), NEW T, NEW f \in Surjection(S, T)
    PROVE  IsFiniteSet(T) /\ O!Cardinality(T) <= O!Cardinality(S)
  BY FS_Surjection, SameCardinality

LEMMA ClusterDoesAddUp ==
    ASSUME NEW text \in Texts, NEW view,
           view = O!GetClusterResourceSummary(O!parsePrometheusMetrics(text))
    PROVE  O!ClusterAddsUp(text, view)
<1> DEFINE cpu == O!Numbered(text, "container_cpu")
           capacity == O!LastValue(O!Numbered(text, "capacity_cpu"))
           pods == O!PodsOf(cpu)
           namespaces == O!NamespacesOf(cpu)
           containers == {<<cpu[i].namespace, cpu[i].pod, cpu[i].container>> : i \in DOMAIN cpu}
<1>1. /\ view.TotalNamespaces = O!Cardinality(namespaces)
      /\ view.TotalPods = O!Cardinality(pods)
      /\ view.TotalContainers = O!Cardinality(containers)
      /\ view.AvailableCPUCores = capacity - O!Total(cpu)
  BY Scrape DEF O!GetClusterResourceSummary
<1>2. IsList(cpu) /\ O!Total(cpu) \in Nat
  BY NumberedLines, ListSum
<1> HIDE DEF cpu, capacity
<1>3. [i \in DOMAIN cpu |-> <<cpu[i].namespace, cpu[i].pod, cpu[i].container>>]
         \in Surjection(DOMAIN cpu, containers)
  BY DEF Surjection
<1>4. [t \in containers |-> <<t[1], t[2]>>] \in Surjection(containers, pods)
  <2> DEFINE f == [t \in containers |-> <<t[1], t[2]>>]
             t(i) == <<cpu[i].namespace, cpu[i].pod, cpu[i].container>>
  <2>1. \A i \in DOMAIN cpu : t(i) \in containers /\ f[t(i)] = <<cpu[i].namespace, cpu[i].pod>>
    OBVIOUS
  <2>2. \A x \in containers : \E i \in DOMAIN cpu : x = t(i)
    OBVIOUS
  <2>3. DOMAIN f = containers /\ f = [x \in containers |-> f[x]]
    OBVIOUS
  <2> HIDE DEF f, t, containers
  <2>4. pods = {f[t(i)] : i \in DOMAIN cpu}
    BY <2>1 DEF O!PodsOf
  <2>5. \A x \in containers : f[x] \in pods
    BY <2>2, <2>4
  <2>6. \A p \in pods : \E x \in containers : f[x] = p
    BY <2>1, <2>4
  <2>7. f \in Surjection(containers, pods)
    BY <2>3, <2>5, <2>6 DEF Surjection
  <2>8. QED
    BY <2>7 DEF f
<1>5. [p \in pods |-> p[1]] \in Surjection(pods, namespaces)
  <2> DEFINE f == [p \in pods |-> p[1]]
             p(i) == <<cpu[i].namespace, cpu[i].pod>>
  <2>1. pods = {p(i) : i \in DOMAIN cpu} /\ namespaces = {cpu[i].namespace : i \in DOMAIN cpu}
    BY DEF O!PodsOf, O!NamespacesOf
  <2> HIDE DEF pods, namespaces
  <2>2. \A i \in DOMAIN cpu : p(i) \in pods /\ f[p(i)] = cpu[i].namespace
    BY <2>1
  <2>3. DOMAIN f = pods /\ f = [x \in pods |-> f[x]]
    OBVIOUS
  <2> HIDE DEF f, p
  <2>4. \A x \in pods : f[x] \in namespaces
    BY <2>1, <2>2
  <2>5. \A ns \in namespaces : \E x \in pods : f[x] = ns
    BY <2>1, <2>2
  <2>6. f \in Surjection(pods, namespaces)
    BY <2>3, <2>4, <2>5 DEF Surjection
  <2>7. QED
    BY <2>6 DEF f
<1> HIDE DEF containers, pods, namespaces
<1>6. IsFiniteSet(DOMAIN cpu)
  BY <1>2 DEF IsList
<1>7. IsFiniteSet(containers)
  BY <1>3, <1>6, FewerKeys
<1>8. IsFiniteSet(pods) /\ O!Cardinality(pods) <= O!Cardinality(containers)
  BY <1>4, <1>7, FewerKeys
<1>9. O!Cardinality(namespaces) <= O!Cardinality(pods)
  BY <1>5, <1>8, FewerKeys
<1>10. ASSUME O!OneNode(text), DOMAIN O!Numbered(text, "capacity_cpu") # {}
       PROVE  view.AvailableCPUCores >= 0
  <2>1. capacity \in Nat /\ O!Total(cpu) <= capacity
    BY <1>10, Fits DEF cpu, capacity
  <2>2. QED
    BY <1>1, <1>2, <2>1
<1>11. QED
  BY <1>1, <1>8, <1>9, <1>10 DEF O!ClusterAddsUp

-----------------------------------------------------------------------------
(* The allocation API. *)

LEMMA RowsFinite ==
    ASSUME NEW data \in DataSets
    PROVE  /\ IsFiniteSet(O!Allocations(data, Null))
           /\ \A row \in O!Allocations(data, Null) :
                 /\ row.set \in DOMAIN data /\ row.entry.cost \in Int
                 /\ row = [set |-> row.set, name |-> row.name, entry |-> data[row.set][row.name]]
<1>1. /\ Len(data) \in Nat /\ DOMAIN data = 1 .. Len(data)
      /\ \A i \in DOMAIN data :
            /\ IsFiniteSet(DOMAIN data[i])
            /\ \A n \in DOMAIN data[i] : data[i][n] # Null => data[i][n].cost \in Int
  BY DataSetsAssumption
<1> DEFINE Names(i) == {n \in DOMAIN data[i] : data[i][n] # Null}
           Rows(i) == {[set |-> i, name |-> name, entry |-> data[i][name]] : name \in Names(i)}
<1>2. O!Allocations(data, Null) = UNION {Rows(i) : i \in DOMAIN data}
  BY DEF O!Allocations
<1>3. ASSUME NEW i \in DOMAIN data PROVE IsFiniteSet(Rows(i))
  <2>1. IsFiniteSet(Names(i))
    BY <1>1, FS_Subset
  <2>2. [name \in Names(i) |-> [set |-> i, name |-> name, entry |-> data[i][name]]]
           \in Surjection(Names(i), Rows(i))
    BY DEF Surjection
  <2> HIDE DEF Names, Rows
  <2>3. QED
    BY <2>1, <2>2, FS_Surjection
<1>4. \A row \in UNION {Rows(i) : i \in DOMAIN data} :
         /\ row.set \in DOMAIN data /\ row.entry.cost \in Int
         /\ row = [set |-> row.set, name |-> row.name, entry |-> data[row.set][row.name]]
  BY <1>1
<1>5. IsFiniteSet(UNION {Rows(i) : i \in DOMAIN data})
  <2> DEFINE all == {Rows(i) : i \in DOMAIN data}
  <2>1. IsFiniteSet(DOMAIN data)
    BY <1>1, FS_Interval
  <2>2. [i \in DOMAIN data |-> Rows(i)] \in Surjection(DOMAIN data, all)
    BY DEF Surjection
  <2>3. \A rows \in all : IsFiniteSet(rows)
    BY <1>3
  <2> HIDE DEF all, Rows
  <2>4. IsFiniteSet(all)
    BY <2>1, <2>2, FS_Surjection
  <2>5. IsFiniteSet(UNION all)
    BY <2>3, <2>4, FS_UNION
  <2>6. QED
    BY <2>5 DEF all
<1>6. QED
  BY <1>2, <1>4, <1>5

\* Where no two things have the same key, what the keys have is what they have.
LEMMA OneEach ==
    ASSUME NEW S, IsFiniteSet(S), NEW f, Numbers(f, S), NEW key, NEW K, IsFiniteSet(K),
           \A y \in K : \E x \in S : key[x] = y,
           \A x, z \in S : key[x] = key[z] => x = z,
           NEW parts, \A x \in S : key[x] \in K /\ parts[key[x]] = f[x]
    PROVE  Sum(parts, K) = Sum(f, S)
<1>1. ASSUME NEW y \in K PROVE parts[y] = Sum(f, {x \in S : key[x] = y})
  <2>1. PICK x \in S : key[x] = y
    OBVIOUS
  <2>2. {z \in S : key[z] = y} = {x}
    BY <2>1
  <2>3. IsFiniteSet({x}) /\ Numbers(f, {x}) /\ f[x] \in Int
    BY FS_Singleton DEF Numbers
  <2>4. Sum(f, {x}) = f[x] + Sum(f, {x} \ {x})
    BY <2>3, SumAdds
  <2>5. {x} \ {x} = {}
    OBVIOUS
  <2>6. Sum(f, {x} \ {x}) = 0
    BY <2>5, FS_EmptySet, SumPick
  <2>7. Sum(f, {x}) = f[x]
    BY <2>3, <2>4, <2>6
  <2>8. QED
    BY <2>1, <2>2, <2>7
<1>2. QED
  BY <1>1, PartsAddUp

LEMMA SummaryDoesAddUp ==
    ASSUME NEW data \in DataSets, NEW view, view = O!GetCostSummary(data)
    PROVE  O!SummaryAddsUp(data, view)
<1> DEFINE rows == O!Allocations(data, Null)
           names == {row.name : row \in rows}
           costs == [row \in rows |-> row.entry.cost]
           last(name) == CHOOSE row \in rows :
               row.name = name /\ \A other \in rows : other.name = name => other.set <= row.set
<1>1. /\ view.TotalCost = O!SumFunction(costs)
      /\ view.ByNamespace = [name \in names |-> last(name).entry.cost]
  BY DEF O!GetCostSummary
<1>2. /\ IsFiniteSet(rows)
      /\ \A row \in rows :
            /\ row.set \in DOMAIN data /\ row.entry.cost \in Int
            /\ row = [set |-> row.set, name |-> row.name, entry |-> data[row.set][row.name]]
  BY RowsFinite
<1>3. DOMAIN costs = rows /\ \A row \in rows : costs[row] = row.entry.cost
  OBVIOUS
<1> HIDE DEF costs, rows
<1>4. ASSUME Len(data) = 1 PROVE O!SumFunction(view.ByNamespace) = view.TotalCost
  <2>1. \A row \in rows : row.set = 1
    BY <1>2, <1>4, DataSetsAssumption
  <2>2. \A row, other \in rows : row.name = other.name => row = other
    BY <1>2, <2>1
  <2>3. ASSUME NEW row \in rows PROVE last(row.name) = row
    <3>1. \A other \in rows : other.name = row.name => other = row
      BY <2>2
    <3>2. row.set <= row.set
      BY <2>1
    <3>3. QED
      BY <3>1, <3>2
  <2> DEFINE f == view.ByNamespace
             key == [row \in rows |-> row.name]
  <2>4. DOMAIN f = names /\ \A row \in rows : f[row.name] = costs[row] /\ key[row] = row.name
    <3>1. \A name \in names : f[name] = last(name).entry.cost
      BY <1>1
    <3>2. DOMAIN f = names /\ \A row \in rows : row.name \in names /\ key[row] = row.name
      BY <1>1
    <3> HIDE DEF last, f, names, key
    <3>3. QED
      BY <1>3, <2>3, <3>1, <3>2
  <2>5. IsFiniteSet(names)
    <3>1. key \in Surjection(rows, names)
      BY DEF Surjection
    <3> HIDE DEF key, names
    <3>2. QED
      BY <1>2, <3>1, FS_Surjection
  <2> HIDE DEF last, f, key
  <2>6. Numbers(costs, rows)
    BY <1>2, <1>3 DEF Numbers
  <2>7. \A name \in names : \E row \in rows : key[row] = name
    BY <2>4
  <2>8. /\ \A row \in rows : key[row] \in names /\ f[key[row]] = costs[row]
        /\ \A row, other \in rows : key[row] = key[other] => row = other
    BY <2>2, <2>4
  <2> HIDE DEF names
  <2>9. Sum(f, names) = Sum(costs, rows)
    BY <1>2, <2>5, <2>6, <2>7, <2>8, OneEach
  <2>10. QED
    BY <1>1, <1>3, <2>4, <2>9, FunctionSum DEF f
<1>5. view.TotalCost = O!SumFunction([row \in O!Allocations(data, Null) |-> row.entry.cost])
  BY <1>1 DEF costs, rows
<1>6. QED
  BY <1>4, <1>5 DEF O!SummaryAddsUp

-----------------------------------------------------------------------------
(* The view of the costs. *)

\* Some of the namespaces have no more than all.
LEMMA SomeNamespaces ==
    ASSUME NEW l, IsList(l), NEW K, IsFiniteSet(K),
           NEW parts, \A ns \in K : parts[ns] = O!Total(O!OfNamespace(l, ns))
    PROVE  Sum(parts, K) <= O!Total(l) /\ \A ns \in K : parts[ns] \in Nat
<1> DEFINE L == K \cup KeysOf(l, ByNamespace(l))
           f == [ns \in L |-> O!Total(O!OfNamespace(l, ns))]
<1>1. IsFiniteSet(L) /\ K \in SUBSET L
  BY KeysFinite, FS_Union
<1>2. \A i \in DOMAIN l : ByNamespace(l)[i] \in L
  BY DEF KeysOf
<1>3. \A ns \in L : f[ns] = O!Total(OfKey(l, ByNamespace(l), ns)) /\ f[ns] \in Nat
  BY LinesByKey, NamespacePart
<1>4. \A ns \in K : parts[ns] = f[ns]
  OBVIOUS
<1> HIDE DEF L, f
<1>5. Sum(f, L) = O!Total(l)
  BY <1>1, <1>2, <1>3, TotalsByKey
<1>6. Sum(f, K) <= Sum(f, L)
  BY <1>1, <1>3, SumOfSubset
<1>7. Sum(parts, K) = Sum(f, K)
  BY <1>4, SumSame
<1>8. QED
  BY <1>1, <1>3, <1>4, <1>5, <1>6, <1>7

LEMMA Quotient ==
    ASSUME NEW a \in Nat, NEW d \in Nat \ {0}
    PROVE  a \div d \in Nat /\ d * (a \div d) <= a
  OBVIOUS

LEMMA NoMoreThanHalf ==
    ASSUME NEW c \in Nat \ {0}, NEW h \in Nat, NEW t \in Nat, t <= c, NEW s \in Int,
           (2 * c) * s <= h * t
    PROVE  2 * s <= h
<1>1. SUFFICES ASSUME 2 * s >= h + 1 PROVE FALSE
  OBVIOUS
<1>2. h * t <= h * c
  OBVIOUS
<1>3. c * (2 * s) >= c * (h + 1)
  BY <1>1
<1>4. c * (h + 1) = h * c + c /\ (2 * c) * s = c * (2 * s)
  OBVIOUS
<1> DEFINE p == h * c
           q == c * (2 * s)
<1>5. p \in Int /\ q \in Int /\ q <= p /\ q >= p + c
  BY <1>2, <1>3, <1>4
<1> HIDE DEF p, q
<1>6. QED
  BY <1>5

\* The shares by one of CPU and memory are half of the cost at most.
LEMMA HalfOfCost ==
    ASSUME NEW l, IsList(l), NEW K, IsFiniteSet(K), NEW c \in Nat, c = 0 \/ O!Total(l) <= c,
           NEW h \in Nat,
           NEW half, \A ns \in K :
               half[ns] = IF c > 0 THEN (h * O!Total(O!OfNamespace(l, ns))) \div (2 * c) ELSE 0
    PROVE  Numbers(half, K) /\ Sum(half, K) \in Int /\ 2 * Sum(half, K) <= h
<1>1. CASE c = 0
  <2>1. \A ns \in K : half[ns] = 0
    BY <1>1
  <2>2. Numbers(half, K) /\ \A ns \in K : 1 * half[ns] <= 0 * half[ns]
    BY <2>1 DEF Numbers
  <2>3. 1 * Sum(half, K) <= 0 * Sum(half, K)
    BY <2>2, SumScales
  <2>4. Sum(half, K) \in Int
    BY <2>2, SumType
  <2>5. QED
    BY <2>2, <2>3, <2>4
<1>2. CASE c > 0
  <2> DEFINE parts == [ns \in K |-> O!Total(O!OfNamespace(l, ns))]
  <2>1. \A ns \in K : parts[ns] = O!Total(O!OfNamespace(l, ns))
    OBVIOUS
  <2> HIDE DEF parts
  <2>2. Sum(parts, K) <= O!Total(l) /\ \A ns \in K : parts[ns] \in Nat
    BY <2>1, SomeNamespaces
  <2>3. \A ns \in K : half[ns] = (h * parts[ns]) \div (2 * c)
    BY <1>2, <2>1
  <2>4. ASSUME NEW ns \in K PROVE half[ns] \in Nat /\ (2 * c) * half[ns] <= h * parts[ns]
    <3>1. h * parts[ns] \in Nat /\ 2 * c \in Nat \ {0}
      BY <1>2, <2>2
    <3>2. half[ns] = (h * parts[ns]) \div (2 * c)
      BY <2>3
    <3> DEFINE a == h * parts[ns]
               d == 2 * c
    <3>3. a \in Nat /\ d \in Nat \ {0} /\ half[ns] = a \div d
      BY <3>1, <3>2
    <3> HIDE DEF a, d
    <3>4. half[ns] \in Nat /\ d * half[ns] <= a
      BY <3>3, Quotient
    <3>5. QED
      BY <3>4 DEF a, d
  <2>5. Numbers(half, K) /\ Numbers(parts, K)
    BY <2>2, <2>4 DEF Numbers
  <2>6. Sum(half, K) \in Int /\ Sum(parts, K) \in Nat /\ O!Total(l) \in Nat
    BY <2>2, <2>5, SumType, SumPositive, ListSum
  <2>7. (2 * c) * Sum(half, K) <= h * Sum(parts, K)
    <3>1. 2 * c \in Int /\ \A ns \in K : (2 * c) * half[ns] <= h * parts[ns]
      BY <2>4
    <3> DEFINE d == 2 * c
    <3>2. d \in Int /\ h \in Int /\ \A ns \in K : d * half[ns] <= h * parts[ns]
      BY <3>1
    <3> HIDE DEF d
    <3>3. d * Sum(half, K) <= h * Sum(parts, K)
      BY <2>5, <3>2, SumScales
    <3>4. QED
      BY <3>3 DEF d
  <2>8. Sum(parts, K) <= c
    BY <1>2, <2>2, <2>6
  <2>9. 2 * Sum(half, K) <= h
    BY <1>2, <2>6, <2>7, <2>8, NoMoreThanHalf
  <2>10. QED
    BY <2>5, <2>6, <2>9
<1>3. QED
  BY <1>1, <1>2

LEMMA SharesFit ==
    ASSUME NEW cpu, IsList(cpu), NEW memory, IsList(memory), NEW K, IsFiniteSet(K),
           NEW capacity, NEW h \in Nat,
           capacity.cpu \in Nat, capacity.cpu = 0 \/ O!Total(cpu) <= capacity.cpu,
           capacity.memory \in Nat, capacity.memory = 0 \/ O!Total(memory) <= capacity.memory,
           NEW shares, DOMAIN shares = K,
           \A ns \in K : shares[ns] = O!Share(O!Total(O!OfNamespace(cpu, ns)),
                                              O!Total(O!OfNamespace(memory, ns)), capacity, h)
    PROVE  O!SumFunction(shares) <= h
<1> DEFINE half(l, c) ==
               [ns \in K |-> IF c > 0 THEN (h * O!Total(O!OfNamespace(l, ns))) \div (2 * c) ELSE 0]
           a == half(cpu, capacity.cpu)
           b == half(memory, capacity.memory)
<1>1. \A ns \in K :
         a[ns] = IF capacity.cpu > 0
                 THEN (h * O!Total(O!OfNamespace(cpu, ns))) \div (2 * capacity.cpu) ELSE 0
  OBVIOUS
<1>2. \A ns \in K :
         b[ns] = IF capacity.memory > 0
                 THEN (h * O!Total(O!OfNamespace(memory, ns))) \div (2 * capacity.memory) ELSE 0
  OBVIOUS
<1> HIDE DEF a, b
<1>3. Numbers(a, K) /\ Sum(a, K) \in Int /\ 2 * Sum(a, K) <= h
  BY <1>1, HalfOfCost
<1>4. Numbers(b, K) /\ Sum(b, K) \in Int /\ 2 * Sum(b, K) <= h
  BY <1>2, HalfOfCost
<1>5. \A ns \in K : shares[ns] = a[ns] + b[ns]
  BY <1>1, <1>2 DEF O!Share
<1>6. Sum(shares, K) = Sum(a, K) + Sum(b, K)
  BY <1>3, <1>4, <1>5, SumOfSums
<1>7. Sum(shares, K) <= h
  BY <1>3, <1>4, <1>6
<1>8. QED
  BY <1>7, FunctionSum

LEMMA NodesAddUp ==
    ASSUME NEW text \in Texts, NEW K, IsFiniteSet(K),
           O!NodesOf(O!Numbered(text, "node_total_cost")) \subseteq K,
           NEW lasts, DOMAIN lasts = K,
           \A node \in K :
               lasts[node] = O!LastValue(O!OfNode(O!Numbered(text, "node_total_cost"), node))
    PROVE  O!SumFunction(lasts) = O!Total(O!Numbered(text, "node_total_cost"))
<1> DEFINE l == O!Numbered(text, "node_total_cost")
<1>1. /\ IsList(l)
      /\ l = Lines(text, {i \in DOMAIN text : text[i].value # Null
                                              /\ text[i].name = "node_total_cost"})
  BY NumberedLines
<1>2. /\ O!NodesOf(l) \subseteq K
      /\ \A node \in K : lasts[node] = O!LastValue(O!OfNode(l, node))
  OBVIOUS
<1> HIDE DEF l
<1>3. \A i \in DOMAIN l : ByNode(l)[i] \in K
  BY <1>2 DEF ByNode, O!NodesOf
<1>4. \A i, j \in DOMAIN l : ByNode(l)[i] = ByNode(l)[j] => i = j
  <2>1. \A i \in DOMAIN l : /\ i \in DOMAIN text /\ text[i].name = "node_total_cost"
                            /\ ByNode(l)[i] = text[i].node
    BY <1>1 DEF ByNode, Lines
  <2>2. "node_total_cost" \in NodeMetrics
    BY DEF NodeMetrics
  <2>3. QED
    BY <2>1, <2>2, TextsAssumption
<1>5. \A node \in K : lasts[node] = O!LastValue(OfKey(l, ByNode(l), node))
  BY <1>2, LinesByKey
<1>6. Sum(lasts, K) = O!Total(l)
  BY <1>1, <1>3, <1>4, <1>5, LastsOf
<1>7. QED
  BY <1>6, FunctionSum DEF l

LEMMA NodesFinite ==
    ASSUME NEW text \in Texts, NEW name
    PROVE  IsFiniteSet(O!NodesOf(O!Numbered(text, name)))
  BY NumberedLines, KeysFinite, KeysOfLines

LEMMA CostsDoAddUp ==
    ASSUME NEW text \in Texts, NEW view,
           view = O!GetCostAnalytics(O!parsePrometheusMetrics(text))
    PROVE  O!CostsAddUp(text, view)
<1> DEFINE metrics == O!parsePrometheusMetrics(text)
           cpu == O!Numbered(text, "container_cpu")
           memory == O!Numbered(text, "container_memory")
           total == O!Numbered(text, "node_total_cost")
           h == O!Total(total)
           capacity == metrics.capacity
           nodes == O!NodesOf(O!Numbered(text, "node_cpu_cost"))
                       \cup O!NodesOf(O!Numbered(text, "node_ram_cost"))
                       \cup O!NodesOf(O!Numbered(text, "node_gpu_cost"))
                       \cup O!NodesOf(total) \cup O!NodesOf(O!Numbered(text, "node_gpu_count"))
           lasts == [node \in DOMAIN view.NodeCosts |-> view.NodeCosts[node].TotalHourlyCost]
<1>1. /\ view.TotalHourlyCost = h
      /\ DOMAIN view.NodeCosts = nodes
      /\ \A node \in nodes :
            view.NodeCosts[node].TotalHourlyCost = O!LastValue(O!OfNode(total, node))
      /\ view.CostByNamespace =
            [ns \in IF capacity.known /\ h > 0 THEN O!NamespacesOf(cpu) ELSE {} |->
                O!Share(O!Total(O!OfNamespace(cpu, ns)), O!Total(O!OfNamespace(memory, ns)),
                        capacity, h)]
  BY Scrape DEF O!GetCostAnalytics
<1>2. IsFiniteSet(nodes) /\ O!NodesOf(total) \subseteq nodes
  <2>1. \A name : IsFiniteSet(O!NodesOf(O!Numbered(text, name)))
    BY NodesFinite
  <2>2. QED
    BY <2>1, FS_Union
<1>3. O!SumFunction(lasts) = h
  <2>1. DOMAIN lasts = nodes
        /\ \A node \in nodes : lasts[node] = O!LastValue(O!OfNode(total, node))
    BY <1>1
  <2> HIDE DEF lasts, nodes
  <2>2. QED
    BY <1>2, <2>1, NodesAddUp
<1>4. ASSUME O!OneNode(text) PROVE O!SumFunction(view.CostByNamespace) <= h
  <2> DEFINE K == IF capacity.known /\ h > 0 THEN O!NamespacesOf(cpu) ELSE {}
             shares == view.CostByNamespace
  <2>1. IsList(cpu) /\ IsList(memory) /\ h \in Nat
    BY NumberedLines, ListSum
  <2>2. /\ capacity.cpu \in Nat /\ (capacity.cpu = 0 \/ O!Total(cpu) <= capacity.cpu)
        /\ capacity.memory \in Nat /\ (capacity.memory = 0 \/ O!Total(memory) <= capacity.memory)
    <3>1. /\ capacity.cpu = O!LastValue(O!Numbered(text, "capacity_cpu"))
          /\ capacity.memory = O!LastValue(O!Numbered(text, "capacity_memory"))
      BY Scrape
    <3>2. QED
      BY <1>4, <3>1, Fits
  <2>3. DOMAIN shares = K
        /\ \A ns \in K : shares[ns] = O!Share(O!Total(O!OfNamespace(cpu, ns)),
                                              O!Total(O!OfNamespace(memory, ns)), capacity, h)
    BY <1>1
  <2> HIDE DEF cpu, memory, total, h, capacity, metrics
  <2>4. IsFiniteSet(K)
    BY <2>1, KeysFinite, KeysOfLines, FS_EmptySet
  <2> HIDE DEF shares, K
  <2>5. O!SumFunction(shares) <= h
    BY <2>1, <2>2, <2>3, <2>4, SharesFit
  <2>6. QED
    BY <2>5 DEF shares
<1>5. QED
  BY <1>1, <1>3, <1>4 DEF O!CostsAddUp, lasts

-----------------------------------------------------------------------------
(* Views of OpenCost are shown as they were made. *)

\* What is shown on a path adds up to what it was made of.
RightView(ask, source, view) ==
    /\ ask.path = "opencost/analytics/resources" => O!ResourcesAddUp(source, view)
    /\ ask.path = "opencost/analytics/costs" => O!CostsAddUp(source, view)
    /\ ask.path = "opencost/analytics/cluster" => O!ClusterAddsUp(source, view)
    /\ ask.path = "opencost/namespace/" => O!NamespaceAddsUp(source, ask.parts[1], view)
    /\ ask.path = "opencost/summary" => O!SummaryAddsUp(source, view)

ViewRight(c) == request[c].data # Null => RightView(Ask(c), request[c].source, request[c].data)
ViewsInv == \A c \in Clients : ViewRight(c)

Views ==
    {"resource-analytics", "cost-analytics", "cluster-summary", "namespace-breakdown", "summary"}
PathOf(view) ==
    CASE view = "resource-analytics" -> "opencost/analytics/resources"
      [] view = "cost-analytics" -> "opencost/analytics/costs"
      [] view = "cluster-summary" -> "opencost/analytics/cluster"
      [] view = "namespace-breakdown" -> "opencost/namespace/"
      [] view = "summary" -> "opencost/summary"

StepsOf(view) == {"named", "atelier-or-error", "atelier-exists", "cost-enabled", view}

LEMMA StepsOfOpenCost ==
    ASSUME NEW view
    PROVE  /\ OpenCost(view).steps \in Seq(StepsOf(view) \X Nat)
           /\ GetOpenCostNamespaceBreakdown.steps \in Seq(StepsOf("namespace-breakdown") \X Nat)
<1>1. ASSUME NEW v PROVE OpenCost(v).steps \in Seq(StepsOf(v) \X Nat)
  <2> DEFINE S == StepsOf(v) \X Nat
             last == << <<v, 500>> >>
  <2>1. /\ <<"atelier-or-error", 500>> \in S /\ <<"atelier-exists", 500>> \in S
        /\ <<"cost-enabled", 400>> \in S /\ <<v, 500>> \in S
    BY DEF StepsOf
  <2> HIDE DEF S
  <2>2. getAtelier \in Seq(S) /\ createOpenCostClient \in Seq(S) /\ last \in Seq(S)
    BY <2>1 DEF getAtelier, createOpenCostClient
  <2> HIDE DEF last
  <2>3. getAtelier \o createOpenCostClient \in Seq(S)
    BY <2>2, Chained
  <2>4. (getAtelier \o createOpenCostClient) \o last \in Seq(S)
    BY <2>2, <2>3, Chained
  <2>5. QED
    BY <2>4 DEF OpenCost, Handler, S, last
<1>2. GetOpenCostNamespaceBreakdown.steps \in Seq(StepsOf("namespace-breakdown") \X Nat)
  <2> DEFINE S == StepsOf("namespace-breakdown") \X Nat
             first == << <<"named", 400>> >>
             rest == OpenCost("namespace-breakdown").steps
  <2>1. <<"named", 400>> \in S
    BY DEF StepsOf
  <2>2. rest \in Seq(S)
    BY <1>1
  <2> HIDE DEF S, rest
  <2>3. first \in Seq(S)
    BY <2>1
  <2> HIDE DEF first
  <2>4. first \o rest \in Seq(S)
    BY <2>2, <2>3, Chained
  <2>5. QED
    BY <2>4 DEF GetOpenCostNamespaceBreakdown, Handler, S, first, rest
<1>3. QED
  BY <1>1, <1>2

LEMMA ViewRoutes ==
    ASSUME NEW ask, NEW view \in Views, ask.path = PathOf(view)
    PROVE  Route(ask).steps \in Seq(StepsOf(view) \X Nat)
<1>1. CASE view = "namespace-breakdown"
  <2>1. Route(ask) = GetOpenCostNamespaceBreakdown
    BY <1>1 DEF PathOf, Route, RegisterRoutes
  <2>2. QED
    BY <1>1, <2>1, StepsOfOpenCost
<1>2. CASE view # "namespace-breakdown"
  <2>1. Route(ask) = OpenCost(view)
    BY <1>2 DEF Views, PathOf, Route, RegisterRoutes, GetOpenCostResourceAnalytics,
         GetOpenCostCostAnalytics, GetOpenCostClusterSummary, GetOpenCostSummary
  <2>2. QED
    BY <2>1, StepsOfOpenCost
<1>3. QED
  BY <1>1, <1>2

\* Only the step of the view reads anything that is shown.
LEMMA ViewSteps ==
    ASSUME NEW c \in Clients, NEW view \in Views, Ask(c).path = PathOf(view),
           request[c].step \in 1..Len(HandlerOf(c).steps)
    PROVE  Step(c) \in StepsOf(view)
<1>1. HandlerOf(c).steps \in Seq(StepsOf(view) \X Nat)
  BY ViewRoutes DEF HandlerOf, Route
<1> DEFINE s == HandlerOf(c).steps
           i == request[c].step
<1> HIDE DEF s, i
<1>2. s \in Seq(StepsOf(view) \X Nat) /\ i \in 1..Len(s)
  BY <1>1 DEF s, i
<1>3. s[i] \in StepsOf(view) \X Nat
  BY <1>2
<1>4. s[i][1] \in StepsOf(view)
  BY <1>3
<1>5. QED
  BY <1>4 DEF Step, s, i

LEMMA OtherPaths ==
    ASSUME NEW ask, \A view \in Views : ask.path # PathOf(view), NEW source, NEW data
    PROVE  RightView(ask, source, data)
<1>1. /\ ask.path # PathOf("resource-analytics") /\ ask.path # PathOf("cost-analytics")
      /\ ask.path # PathOf("cluster-summary") /\ ask.path # PathOf("namespace-breakdown")
      /\ ask.path # PathOf("summary")
  BY DEF Views
<1>2. QED
  BY <1>1 DEF PathOf, RightView

LEMMA ScrapesAddUp ==
    ASSUME NEW c \in Clients, NEW view \in Views, Ask(c).path = PathOf(view), Step(c) = view,
           view # "summary", NEW text \in Texts
    PROVE  RightView(Ask(c), text, View(c, text))
<1>1. CASE view = "resource-analytics"
  <2>1. View(c, text) = O!GetResourceAnalytics(O!parsePrometheusMetrics(text), TopN)
    BY <1>1 DEF View
  <2>2. O!ResourcesAddUp(text, View(c, text))
    BY <2>1, ResourcesDoAddUp
  <2>3. QED
    BY <1>1, <2>2 DEF RightView, PathOf
<1>2. CASE view = "cost-analytics"
  <2>1. View(c, text) = O!GetCostAnalytics(O!parsePrometheusMetrics(text))
    BY <1>2 DEF View
  <2>2. O!CostsAddUp(text, View(c, text))
    BY <2>1, CostsDoAddUp
  <2>3. QED
    BY <1>2, <2>2 DEF RightView, PathOf
<1>3. CASE view = "cluster-summary"
  <2>1. View(c, text) = O!GetClusterResourceSummary(O!parsePrometheusMetrics(text))
    BY <1>3 DEF View
  <2>2. O!ClusterAddsUp(text, View(c, text))
    BY <2>1, ClusterDoesAddUp
  <2>3. QED
    BY <1>3, <2>2 DEF RightView, PathOf
<1>4. CASE view = "namespace-breakdown"
  <2>1. View(c, text) = O!GetNamespaceBreakdown(O!parsePrometheusMetrics(text), Ask(c).parts[1])
    BY <1>4 DEF View
  <2>2. O!NamespaceAddsUp(text, Ask(c).parts[1], View(c, text))
    BY <2>1, NamespaceDoesAddUp
  <2>3. QED
    BY <1>4, <2>2 DEF RightView, PathOf
<1>5. QED
  BY <1>1, <1>2, <1>3, <1>4 DEF Views

LEMMA AllocationsAddUp ==
    ASSUME NEW c \in Clients, Ask(c).path = PathOf("summary"), Step(c) = "summary",
           NEW data \in DataSets
    PROVE  RightView(Ask(c), data, AllocationView(c, data))
<1>1. AllocationView(c, data) = O!GetCostSummary(data)
  BY DEF AllocationView
<1>2. O!SummaryAddsUp(data, AllocationView(c, data))
  BY <1>1, SummaryDoesAddUp
<1>3. QED
  BY <1>2 DEF RightView, PathOf

\* A step that passes keeps what is shown or shows something that adds up.
LEMMA ViewPasses ==
    ASSUME Phases, NEW c \in Clients, Handle(c), NEW view \in Views, Ask(c).path = PathOf(view),
           ViewRight(c)
    PROVE  \/ Failed(c)
           \/ \E r : /\ Like(r, request[c]) /\ Passed(c, r)
                     /\ r.data # Null => RightView(Ask(c), r.source, r.data)
<1>1. DOMAIN request[c] = Fields /\ Like(request[c], request[c])
  BY DEF Phases, Records, Like
<1>2. request[c].data # Null => RightView(Ask(c), request[c].source, request[c].data)
  BY DEF ViewRight
<1>3. Step(c) \in StepsOf(view)
  BY Handled, ViewSteps DEF Phases, Phase
<1>4. CASE Decide(c) \/ Read(c) \/ Operate(c) \/ WaitFails(c) \/ AnswerIsLost(c)
  <2>1. Failed(c) \/ Passed(c, request[c])
    BY <1>4 DEF Decide, Read, Operate, WaitFails, AnswerIsLost
  <2>2. QED
    BY <1>1, <1>2, <2>1
<1>5. CASE ReadTailoring(c) \/ Query(c) \/ QueryRange(c)
  <2>1. Step(c) \in {"tailoring", "P95CPU", "P99CPU", "P95Memory", "P99Memory", "time-series"}
    <3>1. CASE Query(c)
      BY <3>1 DEF Query, P!Queries
    <3>2. QED
      BY <1>5, <3>1 DEF ReadTailoring, QueryRange
  <2>2. QED
    BY <1>3, <2>1 DEF StepsOf, Views
<1>6. CASE ReadAtelier(c)
  <2>1. PICK atelier : Passed(c, [request[c] EXCEPT !.atelier = atelier])
    BY <1>6 DEF ReadAtelier
  <2> DEFINE r == [request[c] EXCEPT !.atelier = atelier]
  <2>2. Like(r, request[c]) /\ r.source = request[c].source /\ r.data = request[c].data
    BY <1>1 DEF Like, Fields
  <2>3. QED
    BY <1>2, <2>1, <2>2
<1>7. CASE GetMetricsOfOpenCost(c)
  <2>1. Step(c) = view /\ view # "summary"
    BY <1>3, <1>7 DEF GetMetricsOfOpenCost, StepsOf
  <2>2. PICK text \in Texts :
           Passed(c, [request[c] EXCEPT !.source = text, !.data = View(c, text)])
    BY <1>7 DEF GetMetricsOfOpenCost
  <2> DEFINE r == [request[c] EXCEPT !.source = text, !.data = View(c, text)]
  <2>3. Like(r, request[c]) /\ r.source = text /\ r.data = View(c, text)
    BY <1>1 DEF Like, Fields
  <2>4. RightView(Ask(c), text, View(c, text))
    BY <2>1, ScrapesAddUp
  <2>5. QED
    BY <2>2, <2>3, <2>4
<1>8. CASE GetAllocations(c)
  <2>1. Step(c) = view /\ view = "summary"
    BY <1>3, <1>8 DEF GetAllocations, StepsOf, Views
  <2>2. PICK data \in DataSets :
           Passed(c, [request[c] EXCEPT !.source = data, !.data = AllocationView(c, data)])
    BY <1>8 DEF GetAllocations
  <2> DEFINE r == [request[c] EXCEPT !.source = data, !.data = AllocationView(c, data)]
  <2>3. Like(r, request[c]) /\ r.source = data /\ r.data = AllocationView(c, data)
    BY <1>1 DEF Like, Fields
  <2>4. RightView(Ask(c), data, AllocationView(c, data))
    BY <2>1, AllocationsAddUp
  <2>5. QED
    BY <2>2, <2>3, <2>4
<1>9. QED
  BY <1>4, <1>5, <1>6, <1>7, <1>8 DEF Handle

LEMMA ViewHandle ==
    ASSUME Phases, ViewsInv, NEW c \in Clients, Handle(c)
    PROVE  ViewsInv'
<1>1. OnlyOf(c)
  BY Handled DEF Phases
<1>2. \A b \in Clients : b # c => ViewRight(b)'
  BY <1>1 DEF ViewsInv, ViewRight, OnlyOf, Ask
<1>3. CASE Failed(c)
  <2>1. ViewRight(c)'
    BY <1>3, FailedReads DEF Phases, ViewRight
  <2>2. QED
    BY <1>2, <2>1 DEF ViewsInv
<1>4. CASE \A view \in Views : Ask(c).path # PathOf(view)
  <2>1. Ask(c)' = Ask(c)
    BY <1>1 DEF OnlyOf, Ask
  <2>2. ViewRight(c)'
    BY <1>4, <2>1, OtherPaths DEF ViewRight
  <2>3. QED
    BY <1>2, <2>2 DEF ViewsInv
<1>5. ASSUME NEW view \in Views, Ask(c).path = PathOf(view), ~Failed(c)
      PROVE  ViewsInv'
  <2>1. PICK r : /\ Like(r, request[c]) /\ Passed(c, r)
                 /\ r.data # Null => RightView(Ask(c), r.source, r.data)
    BY <1>5, ViewPasses DEF ViewsInv
  <2>2. /\ request'[c].source = r.source /\ request'[c].data = r.data
        /\ request'[c].ask = request[c].ask
    BY <2>1, PassedReads DEF Phases
  <2>3. ViewRight(c)'
    BY <2>1, <2>2 DEF ViewRight, Ask
  <2>4. QED
    BY <1>2, <2>3 DEF ViewsInv
<1>6. QED
  BY <1>3, <1>4, <1>5

LEMMA ViewArrives ==
    ASSUME Phases, ViewsInv, NEW c \in Clients, NEW ask, Arrive(c, ask)
    PROVE  ViewsInv'
<1> DEFINE on == [Idle EXCEPT !.pc = "running", !.ask = ask, !.step = 1]
           end == [Idle EXCEPT !.pc = "done", !.ask = ask, !.got = Middleware(ask)]
           r == IF Accepted(ask) THEN on ELSE end
<1>1. request'[c] = r
  BY DEF Arrive, Accepted, Phases, Records
<1>2. r.data = Null
  BY DEF Idle
<1> HIDE DEF r
<1>3. ViewRight(c)'
  BY <1>1, <1>2 DEF ViewRight
<1>4. \A b \in Clients : b # c => ViewRight(b)'
  BY Arrived DEF Phases, ViewsInv, ViewRight, Ask
<1>5. QED
  BY <1>3, <1>4 DEF ViewsInv

LEMMA ViewKept ==
    ASSUME NEW c, ViewRight(c), ReadsNothing(c)
    PROVE  ViewRight(c)'
  BY DEF ReadsNothing, ViewRight, Ask

\* What the dashboard shows of a scrape or answer of OpenCost adds up: parts to
\* their total, on one node to no more than there is, and the views to each
\* other, whatever OpenCost says.
THEOREM ViewsAddUp == Spec => []BreakdownsAddUp
<1>1. Init => ViewsInv
  BY DEF Init, ViewsInv, ViewRight, Idle
<1>2. Phases /\ ViewsInv /\ [Next]_vars => ViewsInv'
  <2> SUFFICES ASSUME Phases, ViewsInv, [Next]_vars PROVE ViewsInv'
    OBVIOUS
  <2>1. ASSUME NEW c \in Clients, NEW ask, Arrive(c, ask) PROVE ViewsInv'
    BY <2>1, ViewArrives
  <2>2. ASSUME NEW c \in Clients, Handle(c) PROVE ViewsInv'
    BY <2>2, ViewHandle
  <2>3. ASSUME NEW c \in Clients, Disconnect(c) PROVE ViewsInv'
    <3>1. \A b \in Clients : ReadsNothing(b)
      BY <2>3 DEF Phases, Records, Disconnect, ReadsNothing, Fields
    <3>2. QED
      BY <3>1, ViewKept DEF ViewsInv
  <2>4. CASE Tick
    <3>1. \A b \in Clients : ReadsNothing(b)
      BY <2>4 DEF Phases, Records, Tick, ReadsNothing, Fields
    <3>2. QED
      BY <3>1, ViewKept DEF ViewsInv
  <2>5. CASE ShutdownTimesOut
    <3>1. \A b \in Clients : ReadsNothing(b)
      BY <2>5 DEF Phases, Records, ShutdownTimesOut, ReadsNothing, Fields, Running
    <3>2. QED
      BY <3>1, ViewKept DEF ViewsInv
  <2>6. CASE Signal \/ ShutdownReturns \/ UNCHANGED vars
    <3>1. \A b \in Clients : ReadsNothing(b)
      BY <2>6 DEF Signal, ShutdownReturns, vars, ReadsNothing
    <3>2. QED
      BY <3>1, ViewKept DEF ViewsInv
  <2>7. QED
    BY <2>1, <2>2, <2>3, <2>4, <2>5, <2>6 DEF Next
<1>3. ViewsInv => BreakdownsAddUp
  BY DEF ViewsInv, ViewRight, RightView, BreakdownsAddUp, Shown, Done
<1>4. QED
  BY <1>1, <1>2, <1>3, PhasesHold, PTL DEF Spec

================================================================================
