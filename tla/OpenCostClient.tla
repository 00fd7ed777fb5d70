---------------------------- MODULE OpenCostClient ----------------------------
(***************************************************************************)
(* internal/opencost/client.go: what the dashboard computes from OpenCost. *)
(* A text of the metrics exporter is a sequence of lines, a line a record  *)
(* [name, node, namespace, pod, container, value]; a list of lines is a    *)
(* function from their positions in the text.  An answer of the allocation *)
(* API is a sequence of data sets, each a function from names to           *)
(* [namespace, cost, efficiency] or Null.                                  *)
(* Abstracted: numbers are integers and quotients are rounded down; units; *)
(* of the eight components of a cost and the four of a capacity those kept *)
(* are treated like the others; metrics that no view reads (volume claims, *)
(* network prices, requests, cluster information) are skipped like lines   *)
(* that do not match.                                                      *)
(***************************************************************************)
EXTENDS Integers, Sequences, FiniteSets, Functions

CONSTANT Null

percent(part, whole) == IF whole > 0 THEN (part * 100) \div whole ELSE 0

Total(lines) == SumFunction([i \in DOMAIN lines |-> lines[i].value])

Named(text, name) == RestrictValues(text, LAMBDA line : line.name = name)
OfNode(lines, node) == RestrictValues(lines, LAMBDA line : line.node = node)
OfNamespace(lines, ns) == RestrictValues(lines, LAMBDA line : line.namespace = ns)
OfPod(lines, key) == RestrictValues(lines, LAMBDA line : <<line.namespace, line.pod>> = key)
OfContainer(lines, key) == RestrictValues(lines, LAMBDA line : <<line.pod, line.container>> = key)

NodesOf(lines) == {lines[i].node : i \in DOMAIN lines}
NamespacesOf(lines) == {lines[i].namespace : i \in DOMAIN lines}
PodsOf(lines) == {<<lines[i].namespace, lines[i].pod>> : i \in DOMAIN lines}
ContainersOf(lines) == {<<lines[i].pod, lines[i].container>> : i \in DOMAIN lines}

\* A field that every line overwrites: what the last one said, or the zero value.
LastValue(lines) ==
    IF DOMAIN lines = {} THEN 0
    ELSE lines[CHOOSE i \in DOMAIN lines : \A j \in DOMAIN lines : j <= i].value

-----------------------------------------------------------------------------
(* The metrics exporter. *)

\* One field for the capacity of the node, whatever node a line is about; it is
\* known, that is not nil, with the first line.
Capacity(text, cpu, memory) ==
    [known |-> DOMAIN Named(text, cpu) \cup DOMAIN Named(text, memory) # {},
     cpu |-> LastValue(Named(text, cpu)), memory |-> LastValue(Named(text, memory))]

processNodeCapacity(text) == Capacity(text, "capacity_cpu", "capacity_memory")

processNodeAllocatable(text) == Capacity(text, "allocatable_cpu", "allocatable_memory")

processContainerAllocation(text) ==
    [cpu |-> Named(text, "container_cpu"), memory |-> Named(text, "container_memory"),
     gpu |-> Named(text, "container_gpu")]

processNodeCost(text) ==
    [cpu |-> Named(text, "node_cpu_cost"), ram |-> Named(text, "node_ram_cost"),
     gpu |-> Named(text, "node_gpu_cost"), total |-> Named(text, "node_total_cost")]

\* The lists keep the order of the text; what occurs once is overwritten.
processMetric(text) ==
    [containers |-> processContainerAllocation(text), costs |-> processNodeCost(text),
     gpuCounts |-> Named(text, "node_gpu_count"), volumes |-> Named(text, "pv_cost"),
     balancers |-> Named(text, "load_balancer_cost"),
     management |-> LastValue(Named(text, "management_cost")),
     capacity |-> processNodeCapacity(text), allocatable |-> processNodeAllocatable(text)]

\* Lines that do not match, or whose value is no number, are skipped.
parsePrometheusMetrics(text) ==
    processMetric(RestrictValues(text, LAMBDA line : line.value # Null))

-----------------------------------------------------------------------------
(* The views of a scrape. *)

\* The positions of the lines with the largest values first.  sort.Slice is not
\* stable, but equal values look the same here.
Sorted(lines) ==
    CHOOSE order \in Bijection(1 .. Cardinality(DOMAIN lines), DOMAIN lines) :
        \A i, j \in DOMAIN order : i < j => lines[order[i]].value >= lines[order[j]].value

getTopConsumers(lines, total, n) ==
    [i \in {k \in 1 .. Cardinality(DOMAIN lines) : k <= n} |->
        LET line == lines[Sorted(lines)[i]]
        IN  [value |-> line.value, percent |-> percent(line.value, total)]]

GetResourceAnalytics(metrics, TopN) ==
    LET cpu == metrics.containers.cpu
        memory == metrics.containers.memory
        allocatable == metrics.allocatable
    IN  [TotalCPUCapacity |-> metrics.capacity.cpu,
         TotalCPUAllocatable |-> allocatable.cpu,
         TotalCPUAllocated |-> Total(cpu), TotalMemoryAllocated |-> Total(memory),
         TotalGPUAllocated |-> Total(metrics.containers.gpu),
         CPUUtilizationPercent |-> percent(Total(cpu), allocatable.cpu),
         MemoryUtilizationPercent |-> percent(Total(memory), allocatable.memory),
         CPUByNamespace |-> [ns \in NamespacesOf(cpu) |-> Total(OfNamespace(cpu, ns))],
         MemoryByNamespace |-> [ns \in NamespacesOf(memory) |-> Total(OfNamespace(memory, ns))],
         CPUByPod |-> [key \in PodsOf(cpu) |-> Total(OfPod(cpu, key))],
         MemoryByPod |-> [key \in PodsOf(memory) |-> Total(OfPod(memory, key))],
         TopCPUConsumers |-> getTopConsumers(cpu, Total(cpu), TopN),
         TopMemoryConsumers |-> getTopConsumers(memory, Total(memory), TopN)]

\* A container that the scrape names twice, on two nodes, counts twice in the
\* totals and shows what its last line said.
GetNamespaceBreakdown(metrics, ns) ==
    LET cpu == OfNamespace(metrics.containers.cpu, ns)
        memory == OfNamespace(metrics.containers.memory, ns)
        gpu == OfNamespace(metrics.containers.gpu, ns)
    IN  [TotalCPU |-> Total(cpu), TotalMemory |-> Total(memory), TotalGPU |-> Total(gpu),
         CPUPercent |-> percent(Total(cpu), Total(metrics.containers.cpu)),
         MemoryPercent |-> percent(Total(memory), Total(metrics.containers.memory)),
         Containers |->
            [key \in ContainersOf(cpu) \cup ContainersOf(memory) \cup ContainersOf(gpu) |->
                [cpu |-> LastValue(OfContainer(cpu, key)),
                 memory |-> LastValue(OfContainer(memory, key)),
                 gpu |-> LastValue(OfContainer(gpu, key))]]]

GetClusterResourceSummary(metrics) ==
    LET cpu == metrics.containers.cpu
        capacity == metrics.capacity
    IN  [TotalNodes |-> 1,
         TotalCPUCores |-> capacity.cpu, TotalMemory |-> capacity.memory,
         AllocatedCPUCores |-> Total(cpu), AllocatedMemory |-> Total(metrics.containers.memory),
         AvailableCPUCores |-> capacity.cpu - Total(cpu),
         AvailableMemory |-> capacity.memory - Total(metrics.containers.memory),
         CPUUtilization |-> percent(Total(cpu), capacity.cpu),
         MemoryUtilization |-> percent(Total(metrics.containers.memory), capacity.memory),
         TotalNamespaces |-> Cardinality(NamespacesOf(cpu)),
         TotalPods |-> Cardinality(PodsOf(cpu)),
         TotalContainers |->
            Cardinality({<<cpu[i].namespace, cpu[i].pod, cpu[i].container>> : i \in DOMAIN cpu})]

\* Mutant of Share: both ratios in full instead of their mean.
ShareUnweighted(cpu, memory, capacity, cost) ==
    (IF capacity.cpu > 0 THEN (cost * cpu) \div capacity.cpu ELSE 0)
        + (IF capacity.memory > 0 THEN (cost * memory) \div capacity.memory ELSE 0)

\* The mean of the ratios of CPU and memory, each zero where the capacity is.
Share(cpu, memory, capacity, cost) ==
    (IF capacity.cpu > 0 THEN (cost * cpu) \div (2 * capacity.cpu) ELSE 0)
        + (IF capacity.memory > 0 THEN (cost * memory) \div (2 * capacity.memory) ELSE 0)

\* Only namespaces with CPU get a share, and only of one node's capacity.
GetCostAnalytics(metrics) ==
    LET costs == metrics.costs
        hourly == Total(costs.total)
        cpu == metrics.containers.cpu
        memory == metrics.containers.memory
        nodes == NodesOf(costs.cpu) \cup NodesOf(costs.ram) \cup NodesOf(costs.gpu)
                    \cup NodesOf(costs.total) \cup NodesOf(metrics.gpuCounts)
    IN  [TotalHourlyCost |-> hourly, CPUHourlyCost |-> Total(costs.cpu),
         RAMHourlyCost |-> Total(costs.ram), GPUHourlyCost |-> Total(costs.gpu),
         StorageHourlyCost |-> Total(metrics.volumes),
         LoadBalancerHourlyCost |-> Total(metrics.balancers),
         ClusterManagementCost |-> metrics.management,
         DailyCost |-> hourly * 24, MonthlyCost |-> hourly * 730,
         NodeCosts |->
            [node \in nodes |->
                [CPUHourlyCost |-> LastValue(OfNode(costs.cpu, node)),
                 RAMHourlyCost |-> LastValue(OfNode(costs.ram, node)),
                 GPUHourlyCost |-> LastValue(OfNode(costs.gpu, node)),
                 TotalHourlyCost |-> LastValue(OfNode(costs.total, node)),
                 GPUCount |-> LastValue(OfNode(metrics.gpuCounts, node))]],
         CostByNamespace |->
            [ns \in IF metrics.capacity.known /\ hourly > 0 THEN NamespacesOf(cpu) ELSE {} |->
                Share(Total(OfNamespace(cpu, ns)), Total(OfNamespace(memory, ns)),
                      metrics.capacity, hourly)]]

-----------------------------------------------------------------------------
(* The allocation API. *)

\* What GetOpenCostAllocations and its like make of an answer: one row for each
\* entry of each data set that is not null.  ns is Null where the handler does
\* not filter.
Allocations(data, ns) ==
    UNION {{[set |-> i, name |-> name, entry |-> data[i][name]] :
               name \in {n \in DOMAIN data[i] :
                            /\ data[i][n] # Null
                            /\ ns = Null \/ data[i][n].namespace = ns}} : i \in DOMAIN data}

\* The cost of a namespace is what the last data set says, the total the sum of all.
GetCostSummary(data) ==
    LET rows == Allocations(data, Null)
        last(name) == CHOOSE row \in rows :
            row.name = name /\ \A other \in rows : other.name = name => other.set <= row.set
        efficiency == SumFunction([row \in rows |-> row.entry.efficiency])
    IN  [TotalCost |-> SumFunction([row \in rows |-> row.entry.cost]),
         Efficiency |-> IF rows = {} THEN 0 ELSE efficiency \div Cardinality(rows),
         ByNamespace |-> [name \in {row.name : row \in rows} |-> last(name).entry.cost]]

-----------------------------------------------------------------------------
(* What has to hold between a view and the text or answer it is made of.   *)

Numbered(text, name) == Named(RestrictValues(text, LAMBDA line : line.value # Null), name)

\* The text of a cluster with one node, on which no more is allocated than fits.
OneNode(text) ==
    LET cpu == Total(Numbered(text, "container_cpu"))
        memory == Total(Numbered(text, "container_memory"))
        fits(part, name) == DOMAIN Numbered(text, name) # {} => part <= Total(Numbered(text, name))
    IN  /\ Cardinality(NodesOf(text)) = 1
        /\ fits(cpu, "capacity_cpu") /\ fits(memory, "capacity_memory")
        /\ fits(cpu, "allocatable_cpu") /\ fits(memory, "allocatable_memory")

Unique(lines) ==
    \A i, j \in DOMAIN lines :
        <<lines[i].pod, lines[i].container>> = <<lines[j].pod, lines[j].container>> => i = j

\* Namespaces and pods add up to the total, and who is not shown as a top
\* consumer has no more than who is.
ResourcesAddUp(text, view) ==
    LET cpu == Numbered(text, "container_cpu")
        shown == view.TopCPUConsumers
    IN  /\ SumFunction(view.CPUByNamespace) = view.TotalCPUAllocated
        /\ SumFunction(view.CPUByPod) = view.TotalCPUAllocated
        /\ SumFunction(view.MemoryByNamespace) = view.TotalMemoryAllocated
        /\ SumFunction(view.MemoryByPod) = view.TotalMemoryAllocated
        /\ \A i \in DOMAIN shown :
              Cardinality({j \in DOMAIN cpu : cpu[j].value > shown[i].value}) < i
        /\ OneNode(text) => /\ view.CPUUtilizationPercent <= 100
                            /\ view.MemoryUtilizationPercent <= 100

\* The containers of a namespace add up to its total, which is what the view of
\* all namespaces says of it.
NamespaceAddsUp(text, ns, view) ==
    LET all == GetResourceAnalytics(parsePrometheusMetrics(text), 1)
        of(field) == SumFunction([key \in DOMAIN view.Containers |-> view.Containers[key][field]])
    IN  /\ view.TotalCPU = IF ns \in DOMAIN all.CPUByNamespace THEN all.CPUByNamespace[ns] ELSE 0
        /\ view.CPUPercent <= 100 /\ view.MemoryPercent <= 100
        /\ of("cpu") <= view.TotalCPU /\ of("memory") <= view.TotalMemory
        /\ Unique(OfNamespace(Numbered(text, "container_cpu"), ns)) => of("cpu") = view.TotalCPU

\* On one node the namespaces share no more than the node costs, and the costs
\* of nodes add up.
CostsAddUp(text, view) ==
    /\ OneNode(text) => SumFunction(view.CostByNamespace) <= view.TotalHourlyCost
    /\ SumFunction([node \in DOMAIN view.NodeCosts |-> view.NodeCosts[node].TotalHourlyCost])
           = view.TotalHourlyCost

ClusterAddsUp(text, view) ==
    /\ view.TotalNamespaces <= view.TotalPods /\ view.TotalPods <= view.TotalContainers
    /\ OneNode(text) /\ DOMAIN Numbered(text, "capacity_cpu") # {} => view.AvailableCPUCores >= 0

\* Where OpenCost answers with one data set, the namespaces add up to the total.
SummaryAddsUp(data, view) ==
    /\ Len(data) = 1 => SumFunction(view.ByNamespace) = view.TotalCost
    /\ view.TotalCost = SumFunction([row \in Allocations(data, Null) |-> row.entry.cost])
=============================================================================
