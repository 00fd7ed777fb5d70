--------------------------- MODULE OOMInterceptor ---------------------------
(***************************************************************************)
(* The OOM controller (src/internal/controller/oom_controller.go) and the  *)
(* interceptor it calls (src/internal/oom/interceptor.go), with the actors *)
(* they share the cluster with.                                            *)
(*                                                                         *)
(* One worker takes pods from a workqueue.  For each OOM-killed container  *)
(* of the pod it reads the workload (is the cooldown over?), reads it      *)
(* again, changes the copy and sends an Update, which the API server       *)
(* refuses when the copy is not of the latest version.  Both reads are     *)
(* answered by the informer cache, which trails the API server.            *)
(*                                                                         *)
(* Around it: kubelets kill containers for lack of memory or for another   *)
(* reason, rollouts replace pods by pods of the current template, users    *)
(* and GitOps tools write and delete workloads, the clock ticks, and the   *)
(* controller restarts.                                                    *)
(*                                                                         *)
(* Abstractions: pods are read as the informer shows them (nothing reads   *)
(* them elsewhere); resourceVersion is compared with the latest one only,  *)
(* so a Boolean says whether the copy is still current; findTailoring, the *)
(* log lines and PatchResult change no state and are left out.             *)
(***************************************************************************)
EXTENDS Workload, Sequences

CONSTANTS
    Enabled,         \* InterceptorConfig.Enabled
    Pods,
    Owner,           \* Owner[p]: what findOwner resolves, or NoOwner
    NoOwner,
    StatusOrder,     \* StatusOrder[c]: place of c in pod.Status.ContainerStatuses
    InjectedLimit,   \* memory limit of a container that is not in the template
    Need,            \* Need[c]: the memory c uses; it is OOM-killed below that
    UserWorkloads,   \* the workloads that users write to and delete
    UserLimits,      \* the limits users write
    UserRequests,    \* the requests users write
    MaxLag           \* bound: versions the cache may be behind

ASSUME EnabledAssumption  == Enabled \in BOOLEAN
ASSUME OwnerAssumption    == Owner \in [Pods -> Workloads \cup {NoOwner}]
                             /\ NoOwner \notin Workloads
ASSUME StatusAssumption   == /\ StatusOrder \in [Containers -> Nat]
                             /\ \A c, d \in Containers :
                                   StatusOrder[c] = StatusOrder[d] => c = d
ASSUME InjectedAssumption == InjectedLimit \in Limit
ASSUME NeedAssumption     == Need \in [Containers -> Nat]
ASSUME UserAssumption     == /\ UserWorkloads \subseteq Workloads
                             /\ UserLimits \subseteq Limit /\ UserRequests \subseteq Limit
ASSUME LagAssumption      == MaxLag \in Nat

VARIABLES
    versions,  \* versions[w]: the versions of w from the one the cache holds
               \* (first) to the one the API server holds (last)
    pods,      \* pods[p]: limits the pod runs with, containers last OOM-killed
    queue,     \* pods waiting in the workqueue
    delayed,   \* pods waiting for RequeueAfter
    pc,        \* the worker: "idle", "cooldown", "patch" or "update"
    cur,       \* the pod being reconciled
    events,    \* OOM events not handled yet: container -> limit in the pod's spec
    draft,     \* the changed copy that Update will send
    fresh,     \* is the copy of the latest version?
    sameRead   \* has the cache stood still since the cooldown was checked?

world  == <<versions, pods>>
locals == <<draft, fresh, sameRead>>
worker == <<pc, cur, events, draft, sameRead>>
vars   == <<versions, pods, queue, delayed, pc, cur, events, draft, fresh, sameRead>>

Pod == [limit : [Containers -> Limit], oomKilled : SUBSET Containers]

NoEvents == [c \in {} |-> NoLimit]

Cached(w)  == Head(versions[w])
Current(w) == versions[w][Len(versions[w])]

-----------------------------------------------------------------------------
(* Pure parts of the interceptor. *)

\* The limits a pod created from the object gets.
PodLimits(o) ==
    [c \in Containers |-> IF c \in Template THEN o.limit[c] ELSE InjectedLimit]

\* DetectOOMKilled: an event per container whose last termination was an OOM
\* kill, with the limit the pod's own spec gives that container.
DetectOOMKilled(pod) == [c \in pod.oomKilled |-> pod.limit[c]]

\* The SetupWithManager predicate: events of a pod reach the queue only when a
\* container of it was OOM-killed.
Watched(pod) == pod.oomKilled # {}

\* The event being handled: the first one left, in the order of the statuses.
EventContainer ==
    CHOOSE c \in DOMAIN events :
        \A d \in DOMAIN events : StatusOrder[c] <= StatusOrder[d]

\* Mutant of NewLimit: starts from the limit the workload has now.
NewLimitFromWorkload ==
    calculateNewMemoryLimit(Cached(Owner[cur]).limit[EventContainer])

NewLimit == calculateNewMemoryLimit(events[EventContainer])

-----------------------------------------------------------------------------
(* The controller's worker. *)

\* Mutant of NextEvent: the requeue names the workload and not the pod.
NextEventRequeuesOwner ==
    /\ events' = [c \in DOMAIN events \ {EventContainer} |-> events[c]]
    /\ draft' = Absent /\ fresh' = FALSE /\ sameRead' = FALSE
    /\ IF DOMAIN events' = {}
       THEN pc' = "idle" /\ delayed' = delayed \cup {Owner[cur]}
       ELSE pc' = "cooldown" /\ UNCHANGED delayed

\* The loop of Reconcile goes to the next event.  After the last it asks to be
\* called again for this pod after 30 seconds.  Errors only lead here.
NextEvent ==
    /\ events' = [c \in DOMAIN events \ {EventContainer} |-> events[c]]
    /\ draft' = Absent /\ fresh' = FALSE /\ sameRead' = FALSE
    /\ IF DOMAIN events' = {}
       THEN pc' = "idle" /\ delayed' = delayed \cup {cur}
       ELSE pc' = "cooldown" /\ UNCHANGED delayed

\* Reconcile: take a pod, read it, detect its OOM events.  Without any the pod
\* is done and not asked for again.
Start(p) ==
    /\ pc = "idle"
    /\ p \in queue
    /\ queue' = queue \ {p}
    /\ cur' = p
    /\ events' = DetectOOMKilled(pods[p])
    /\ pc' = IF DOMAIN events' = {} THEN "idle" ELSE "cooldown"
    /\ UNCHANGED <<world, delayed, locals>>

\* HandleOOMEvent returns without a patch: it is disabled or cooling down.
Skip ==
    /\ pc = "cooldown"
    /\ \/ ~Enabled
       \/ Owner[cur] # NoOwner /\ shouldSkipDueToCooldown(Owner[cur], Cached(Owner[cur]))
    /\ NextEvent
    /\ UNCHANGED <<world, queue, cur>>

\* The cooldown check lets the event through; a failed Get does too.
PassCooldown ==
    /\ pc = "cooldown"
    /\ Enabled
    /\ Owner[cur] # NoOwner => ~shouldSkipDueToCooldown(Owner[cur], Cached(Owner[cur]))
    /\ pc' = "patch"
    /\ sameRead' = TRUE
    /\ UNCHANGED <<world, queue, delayed, cur, events, draft, fresh>>

Patchable(w) == w # NoOwner /\ Kind[w] \in PatchableKinds /\ Cached(w).exists

\* patchWorkload reads the workload again and changes the copy.
ReadAndModify ==
    LET w == Owner[cur]
    IN  /\ pc = "patch"
        /\ Patchable(w)
        /\ draft' = Patched(Cached(w), EventContainer, NewLimit)
        /\ fresh' = (Len(versions[w]) = 1)
        /\ pc' = "update"
        /\ UNCHANGED <<world, queue, delayed, cur, events, sameRead>>

\* patchWorkload returns an error: no such kind, or the Get failed.
ReadFails ==
    /\ pc = "patch"
    /\ ~Patchable(Owner[cur])
    /\ NextEvent
    /\ UNCHANGED <<world, queue, cur>>

\* Mutant of UpdateCommits: the write does not carry the resourceVersion.
UpdateCommitsAnyVersion ==
    LET w == Owner[cur]
    IN  /\ pc = "update"
        /\ Current(w).exists
        /\ versions' = [versions EXCEPT ![w] = Append(@, draft)]
        /\ NextEvent
        /\ UNCHANGED <<pods, queue, cur>>

\* client.Update succeeds: the copy becomes the latest version.
UpdateCommits ==
    LET w == Owner[cur]
    IN  /\ pc = "update"
        /\ fresh
        /\ versions' = [versions EXCEPT ![w] = Append(@, draft)]
        /\ NextEvent
        /\ UNCHANGED <<pods, queue, cur>>

\* Mutant of UpdateFails: Reconcile gives up, with an empty Result.
UpdateFailsDropsPod ==
    /\ pc = "update"
    /\ pc' = "idle" /\ events' = NoEvents
    /\ draft' = Absent /\ fresh' = FALSE /\ sameRead' = FALSE
    /\ UNCHANGED <<world, queue, delayed, cur>>

\* client.Update returns an error: a conflict, or the API server did not answer.
UpdateFails ==
    /\ pc = "update"
    /\ NextEvent
    /\ UNCHANGED <<world, queue, cur>>

Worker ==
    \/ \E p \in Pods : Start(p)
    \/ Skip \/ PassCooldown \/ ReadAndModify \/ ReadFails \/ UpdateCommits \/ UpdateFails

-----------------------------------------------------------------------------
(* controller-runtime: informer, delayed queue, start of the process. *)

\* The watch delivers the next version of w to the cache.
Informer(w) ==
    /\ Len(versions[w]) > 1
    /\ versions' = [versions EXCEPT ![w] = Tail(@)]
    /\ sameRead' = (sameRead /\ w # Owner[cur])
    /\ UNCHANGED <<pods, queue, delayed, pc, cur, events, draft, fresh>>

RequeueAfterExpires(p) ==
    /\ p \in delayed
    /\ delayed' = delayed \ {p}
    /\ queue' = queue \cup {p}
    /\ UNCHANGED <<world, worker, fresh>>

\* The process dies and starts again: queue, timers and the handler's locals
\* are gone, the caches are filled by a new List, and every listed pod that the
\* predicate accepts is queued.
Restart ==
    /\ versions' = [w \in Workloads |-> <<Current(w)>>]
    /\ queue' = {p \in Pods : Watched(pods[p])}
    /\ delayed' = {}
    /\ pc' = "idle" /\ events' = NoEvents
    /\ draft' = Absent /\ fresh' = FALSE /\ sameRead' = FALSE
    /\ UNCHANGED <<pods, cur>>

-----------------------------------------------------------------------------
(* The cluster. *)

PodEvent(p, pod) ==
    /\ pods' = [pods EXCEPT ![p] = pod]
    /\ queue' = IF Watched(pod) THEN queue \cup {p} ELSE queue

\* A container without a limit is killed when its node runs out of memory.
TooSmall(l, c) == l # NoLimit => l < Need[c]

\* Container c of p needs more memory than its limit and is OOM-killed.
OOMKill(p, c) ==
    /\ TooSmall(pods[p].limit[c], c)
    /\ PodEvent(p, [pods[p] EXCEPT !.oomKilled = @ \cup {c}])
    /\ UNCHANGED <<versions, delayed, worker, fresh>>

\* c terminates for another reason, which becomes its last termination state.
OtherTermination(p, c) ==
    /\ c \in pods[p].oomKilled
    /\ PodEvent(p, [pods[p] EXCEPT !.oomKilled = @ \ {c}])
    /\ UNCHANGED <<versions, delayed, worker, fresh>>

\* p is replaced by a pod of the current template: a rollout or an eviction.
Replace(p) ==
    /\ Owner[p] # NoOwner
    /\ Current(Owner[p]).exists
    /\ PodEvent(p, [limit |-> PodLimits(Current(Owner[p])), oomKilled |-> {}])
    /\ UNCHANGED <<versions, delayed, worker, fresh>>

\* The pod runs with limits that are not those of the template any more.
Outdated(p) == Owner[p] # NoOwner /\ pods[p].limit # PodLimits(Current(Owner[p]))

\* Somebody else's write makes a new version, and the worker's copy, if it is
\* of the same workload, an old one.
Write(w, o) ==
    /\ Len(versions[w]) < MaxLag
    /\ versions' = [versions EXCEPT ![w] = Append(@, o)]
    /\ fresh' = (fresh /\ w # Owner[cur])
    /\ UNCHANGED <<pods, queue, delayed, worker>>

UserWrite(w) ==
    \E c \in Template, limit \in UserLimits, request \in UserRequests :
        LET o == UserWritten(Current(w), c, limit, request)
        IN  ResourcesValid(o) /\ Write(w, o)

Delete(w) == Current(w).exists /\ Write(w, Absent)

\* Another field of the object changes (a rollout's progress in its status).
StatusWrite(w) == Current(w).exists /\ Write(w, Current(w))

Tick ==
    /\ versions' = [w \in Workloads |->
                       [i \in 1 .. Len(versions[w]) |-> Older(versions[w][i])]]
    /\ draft' = Older(draft)
    /\ versions' # versions \/ draft' # draft
    /\ UNCHANGED <<pods, queue, delayed, pc, cur, events, fresh, sameRead>>

UserStep == \E w \in UserWorkloads : UserWrite(w) \/ Delete(w)

Cluster ==
    \/ \E p \in Pods, c \in Containers : OOMKill(p, c) \/ OtherTermination(p, c)
    \/ \E p \in Pods : Replace(p) \/ RequeueAfterExpires(p)
    \/ \E w \in Workloads : Informer(w) \/ StatusWrite(w)
    \/ Tick \/ Restart

-----------------------------------------------------------------------------
\* Every workload starts without an annotation and with limits users chose.
InitialObjects ==
    {[exists |-> TRUE, limit |-> limit, request |-> request, age |-> OOMPatchCooldown] :
        limit \in [Template -> UserLimits], request \in [Template -> UserRequests]}

Init ==
    /\ versions \in [Workloads -> {<<o>> : o \in {x \in InitialObjects : ResourcesValid(x)}}]
    /\ pods = [p \in Pods |->
                  [limit |-> IF Owner[p] = NoOwner THEN [c \in Containers |-> InjectedLimit]
                             ELSE PodLimits(Current(Owner[p])),
                   oomKilled |-> {}]]
    /\ queue = {} /\ delayed = {}
    /\ pc = "idle" /\ events = NoEvents
    /\ cur \in Pods
    /\ draft = Absent /\ fresh = FALSE /\ sameRead = FALSE

Next == Worker \/ Cluster \/ UserStep

Spec == Init /\ [][Next]_vars

(***************************************************************************)
(* Fairness.  controller-runtime keeps the worker, the informers and the   *)
(* timers running, and the API server, reachable again and again, answers  *)
(* some of the Updates it could accept (SF).  Kubelets kill a container    *)
(* that outgrows its limit whenever it does, rollouts replace the outdated *)
(* pods, time passes.  Nothing is assumed of users, of Restart, or of the  *)
(* other writers.                                                          *)
(***************************************************************************)
Fairness ==
    /\ WF_vars(Worker)
    /\ SF_vars(UpdateCommits)
    /\ \A p \in Pods : /\ SF_vars(Start(p))
                       /\ WF_vars(RequeueAfterExpires(p))
    /\ \A w \in Workloads : WF_vars(Informer(w))
    /\ \A p \in Pods, c \in Containers :
          WF_vars(pods[p].limit[c] # NoLimit /\ OOMKill(p, c))
    /\ WF_vars(Tick)

RolloutFairness == \A p \in Pods : WF_vars(Outdated(p) /\ Replace(p))

FairSpec == Spec /\ Fairness /\ RolloutFairness

\* Steps of the parts that are expected to keep running.
Regular ==
    \/ Worker \/ Tick
    \/ \E w \in Workloads : Informer(w)
    \/ \E p \in Pods : \/ RequeueAfterExpires(p) \/ (Outdated(p) /\ Replace(p))
                       \/ \E c \in Containers : OOMKill(p, c)

\* What may undo the worker's progress: a user's write, another writer, a
\* restart or the end of a pod, unless it does no more than a regular step (a
\* restart may do what a timer does).
Disturbance == (UserStep \/ Cluster) /\ ~Regular

-----------------------------------------------------------------------------
(* Properties. *)

\* Every variable has its type.
TypeOK ==
    /\ versions \in [Workloads -> Seq(Object) \ {<<>>}]
    /\ pods \in [Pods -> Pod]
    /\ queue \subseteq Pods /\ delayed \subseteq Pods
    /\ pc \in {"idle", "cooldown", "patch", "update"}
    /\ cur \in Pods
    /\ DOMAIN events \subseteq Containers /\ events \in [DOMAIN events -> Limit]
    /\ draft \in Object
    /\ fresh \in BOOLEAN /\ sameRead \in BOOLEAN

\* A pod with an OOM-killed container is queued, waits for its RequeueAfter or
\* is being reconciled, whatever failed before: a skipped event, an Update that
\* conflicts or a Get that fails never loses the pod.
OOMKilledPodStaysScheduled ==
    \A p \in Pods :
        Watched(pods[p]) => p \in queue \cup delayed \/ (pc # "idle" /\ cur = p)

\* Handling the same OOM kill again and again (every 30 seconds, after
\* conflicts, after restarts, for several pods) does not compound: a limit is
\* one that users wrote or one increase above a limit that was too small.
NoCompounding ==
    \A w \in Workloads, c \in Template :
        \/ Current(w).limit[c] \in UserLimits \cup {NoLimit}
        \/ \E l \in {NoLimit} \cup 0 .. Need[c] :
              /\ TooSmall(l, c)
              /\ Current(w).limit[c] = calculateNewMemoryLimit(l)

\* The copy that an accepted Update would store is a valid object: raising or
\* lowering the limit never leaves the container's request above it.
UpdateStaysValid == pc = "update" /\ fresh => ResourcesValid(draft)

\* A workload is patched inside the cooldown only when the cache moved between
\* the cooldown check's read and the patch's read: an Update that follows two
\* equal reads finds no annotation younger than the cooldown.
CooldownGate ==
    pc = "update" /\ fresh /\ sameRead /\ Kind[Owner[cur]] \in CooldownKinds
        => Current(Owner[cur]).age = OOMPatchCooldown

\* A limit as a number of bytes; no limit counts as zero, for the interceptor
\* does replace it by the default.
Bytes(l) == IF l = NoLimit THEN 0 ELSE l

\* Every limit of c that is around is at least k: that of the workload, of its
\* pods and of its events being handled.
AllAtLeast(w, c, k) ==
    /\ Bytes(Current(w).limit[c]) >= k
    /\ \A p \in Pods : Owner[p] = w => Bytes(pods[p].limit[c]) >= k
    /\ Owner[cur] = w /\ c \in DOMAIN events => Bytes(events[c]) >= k

\* The lowest of these limits never falls but by a user's write (or to
\* MaxMemory): an outdated pod can pull the workload's limit down, never below
\* every limit that is still in use.
FloorKept ==
    [][\A w \in Workloads, c \in Template :
          \A k \in {Bytes(Current(w).limit[c])} \cup {Bytes(pods[p].limit[c]) : p \in Pods} :
              /\ ~UserStep
              /\ MaxMemory # NoLimit => k <= MaxMemory
              /\ AllAtLeast(w, c, k)
              => AllAtLeast(w, c, k)']_vars

\* Every container of a patchable workload that has a limit has enough.
Enough ==
    \A w \in {Owner[p] : p \in Pods} \ {NoOwner}, c \in Template :
        Kind[w] \in PatchableKinds /\ Current(w).exists /\ Current(w).limit[c] # NoLimit
            => Current(w).limit[c] >= Need[c]

\* Under FairSpec: unless somebody interferes again and again, the limits end
\* up, for good, at what the containers need, although outdated pods pull them
\* down, one cooldown holds back all containers of a workload, and Updates
\* conflict.
LimitsSettle == []<><<Disturbance>>_vars \/ <>[]Enough

\* The two reads and the conditional write together are atomic: an accepted
\* Update changes one container of the object as it is at that moment.
Store == [w \in Workloads |-> Current(w)]
Atomic == INSTANCE AtomicLimitPatch WITH store <- Store
ImplementsAtomicPatch == Atomic!Spec

-----------------------------------------------------------------------------
(* What the documentation says and the code does not do: each is the property *)
(* of a run that finds it violated. *)

\* README.md: "Automatically patches memory limits on OOMKilled events".  An OOM
\* kill of a container that the template declares leads to a higher limit or a
\* new pod, unless somebody interferes for ever.  An OOM-killed sidecar that is
\* listed first defeats it: its event stamps the workload's annotation without
\* changing any resources, so the cooldown skips every later event.
OOMKillsAnswered ==
    \A p \in Pods, c \in Template :
        \/ []<><<Disturbance>>_vars
        \/ c \in pods[p].oomKilled
               ~> \/ c \notin pods[p].oomKilled
                  \/ Outdated(p)

\* interceptor.go: "MemoryIncreasePercent is the percentage to increase memory
\* after OOM": an OOM kill does not lower the container's limit.  It does when
\* the pod is older than the workload's present limit.
OOMNeverLowers ==
    [][UpdateCommits =>
          \A c \in Template : Bytes(Current(Owner[cur]).limit[c])
                              <= Bytes(Current(Owner[cur]).limit[c])']_vars
=============================================================================
