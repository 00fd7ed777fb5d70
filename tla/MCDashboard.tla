----------------------------- MODULE MCDashboard -----------------------------
(* Two browsers: one makes any request, the other lists the Tailorings. *)
EXTENDS Dashboard, SequencesExt

CONSTANTS c1, c2

Request(path, parts) ==
    [path |-> path, parts |-> parts, method |-> "GET", key |-> "key", complete |-> TRUE]

Paths == {"healthz", "mcp", "tailorings", "atelier", "dashboard/stats", "fitprofiles",
          "argocd/apps", "argocd/detect", "strategies", "prometheus/metrics",
          "opencost/allocations", "opencost/summary", "opencost/namespaces",
          "opencost/controllers", "opencost/health", "opencost/analytics/resources",
          "opencost/analytics/costs", "opencost/analytics/cluster", "opencost/metrics", "none"}

Named == {Request(path, parts) :
            path \in {"tailorings/", "recommendations/", "fitprofiles/", "metrics/"},
            parts \in {<<"">>, <<"ns1", "a">>}}

OfApps ==
    {[Request("argocd/apps/", parts) EXCEPT !.method = method] :
        parts \in {<<"argocd">>, <<"argocd", "app">>, <<"argocd", "sync">>,
                   <<"argocd", "app", "sync">>, <<"argocd", "app", "refresh">>},
        method \in {"GET", "POST"}}
    \cup {[Request("argocd/apps/", <<"argocd", "app", "sync">>) EXCEPT !.method = method, !.key = key] :
             method \in {"POST", "OPTIONS"}, key \in {Null, "old key", "key"}}

Others == {Request("strategies/", parts) : parts \in {<<"">>, <<"dsp">>, <<"ml">>}}
          \cup {Request("opencost/namespace/", parts) : parts \in {<<"">>, <<"ns1">>, <<"ns2">>}}
          \cup {[Request(path, <<>>) EXCEPT !.complete = FALSE] :
                   path \in {"argocd/detect", "prometheus/metrics"}}
          \cup {[Request("strategies", <<>>) EXCEPT !.method = "POST"],
                Request("opencost/controllers", <<"ns1">>)}

MCAsks == (c1 :> {Request(path, <<>>) : path \in Paths} \cup Named \cup OfApps \cup Others)
          @@ (c2 :> {Request("tailorings", <<>>)})

Atelier(argo, cost, prometheusSecret, window) ==
    [argo |-> argo, cost |-> cost, prometheusSecret |-> prometheusSecret, window |-> window]

MCAteliers ==
    {Atelier("off", "on", TRUE, 129600), Atelier("cluster", "off", FALSE, Null),
     Atelier("server-with-secret", "on", FALSE, Null)}

MCWindows == {5400}

Sample(pod, container, query, value) ==
    [pod |-> pod, container |-> container, query |-> query, value |-> value]

OfPods(pod, container, p95, p99) ==
    {Sample(pod, container, "P95CPU", p95), Sample(pod, container, "P99CPU", p99),
     Sample(pod, container, "P95Memory", p95), Sample(pod, container, "P99Memory", p99)}

\* Nothing; two pods of one container; a second container that has no memory yet,
\* in a pod that another workload owns.
MCSampleSets ==
    {{}, {Sample("a-1", "app", "P95CPU", 1), Sample("a-1", "app", "P99CPU", 2),
          Sample("a-2", "app", "P95CPU", 3), Sample("a-2", "app", "P99CPU", 4),
          Sample("a-2", "app", "P99Memory", 4)},
     OfPods("a-1", "app", 1, 2)
        \cup {Sample("ab-1", "side", "P95CPU", 5), Sample("ab-1", "side", "P99CPU", 5)}}

MCMatrices == {{}, {<<1, 2>>, <<1, 3>>}}

Line(name, node, ns, pod, value) ==
    [name |-> name, node |-> node, namespace |-> ns, pod |-> pod, container |-> "app",
     value |-> value]

OnNode(node, cpu, memory, cost) ==
    <<Line("capacity_cpu", node, Null, Null, cpu), Line("capacity_memory", node, Null, Null, memory),
      Line("allocatable_cpu", node, Null, Null, cpu),
      Line("allocatable_memory", node, Null, Null, memory),
      Line("node_total_cost", node, Null, Null, cost), Line("node_cpu_cost", node, Null, Null, 1)>>

Pod(node, ns, pod, cpu, memory) ==
    <<Line("container_cpu", node, ns, pod, cpu), Line("container_memory", node, ns, pod, memory)>>

\* Two nodes, with one pod that has moved from one to the other.
TwoNodes ==
    OnNode("n1", 4, 8, 10) \o OnNode("n2", 1, 2, 5) \o Pod("n1", "ns1", "a", 2, 4)
        \o Pod("n2", "ns1", "a", 1, 1) \o Pod("n2", "ns2", "b", 0, 1)

\* One node; a node that is full, with a line that is no number and a
\* metric that is not read; two nodes in either order; only allocations.
MCTexts ==
    {OnNode("n1", 4, 8, 10) \o Pod("n1", "ns1", "a", 2, 4) \o Pod("n1", "ns2", "b", 1, 4)
        \o Pod("n1", "ns1", "c", 1, 0) \o <<Line("container_gpu", "n1", "ns1", "a", 1)>>,
     OnNode("n1", 2, 1, 3) \o Pod("n1", "ns2", "b", 2, 1)
        \o <<Line("container_cpu", "n1", "ns1", "a", Null), Line("other", "n1", Null, Null, 7)>>,
     TwoNodes, Reverse(TwoNodes),
     Pod("n1", "ns1", "a", 1, 1) \o Pod("n1", "ns1", "b", 3, 1) \o Pod("n1", "ns2", "c", 2, 2)}

Entry(ns, cost) == [namespace |-> ns, cost |-> cost, efficiency |-> cost]

MCDataSets ==
    {<<("ns1" :> Entry("ns1", 3)) @@ ("ns2" :> Entry("ns2", 2)) @@ ("ns3" :> Null)>>,
     <<("ns1" :> Entry("ns1", 1)), ("ns1" :> Entry("ns1", 4))>>}
=============================================================================
