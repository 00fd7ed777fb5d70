-------------------------- MODULE TailoringReconciler --------------------------
(***************************************************************************)
(* The Tailoring controller, src/internal/controller/tailoring_controller.go *)
(* for one Tailoring, with the recommendation engine of Recommender.       *)
(*                                                                         *)
(* A reconcile reads the Tailoring, the Atelier, the target workload and   *)
(* Prometheus one after the other, computes recommendations, decides what  *)
(* the Ready condition says and writes the status in one Update, which the *)
(* API server refuses when the Tailoring has changed since it was read.    *)
(* Users write every one of these objects meanwhile.  The controller       *)
(* watches the Tailoring only, its own status writes included; the rest it *)
(* sees at the next reconcile, which every path but that of a deleted      *)
(* Tailoring schedules.                                                    *)
(*                                                                         *)
(* Abstractions: objects nobody here writes are read as the cache shows    *)
(* them, and Prometheus, the ResourceQuotas and the FitProfile, read one   *)
(* after the other, in one step; a condition is its reason, which          *)
(* determines its status, and the errors of one step share a reason; time  *)
(* is not measured, so that timers may expire at any moment and the second *)
(* that timestamps are rounded to may or may not have passed; VPADetected, *)
(* always false, is left out, and so are peak detection and normalization, *)
(* off unless a parameter turns them on.                                   *)
(***************************************************************************)
EXTENDS Recommender, Sequences

CONSTANTS
    Containers,       \* containers that the target may have
    Measured,         \* containers of the metrics: of every pod whose name begins
                      \* with the target's, injected ones and those of other
                      \* workloads included
    Excluded,         \* spec.excludeContainers
    Rails,            \* the Atelier's safety rails: Rails[r] is a Rail
    Quota,            \* Quota[r]: limit of the first ResourceQuota, or NoQuantity
    MinChangePercent, \* the Atelier's threshold for a Cut
    Profile,          \* the FitProfile that the Tailoring refers to
    CoolingDown,      \* is status.lastPRUpdateTime less than the cooldown ago?
                      \* (no code sets it)
    Targets,          \* resources that users may give the target
    Usages,           \* usage that Prometheus may report
    NoTarget, NoAnalysis,
    Changing,         \* bound: the objects that users change
    MaxLag            \* bound: versions the cache may be behind

\* The resources of a target by its containers.
Resourceful(t) ==
    DOMAIN t \subseteq Containers /\ t \in [DOMAIN t -> [Resources -> Values]]

Measurements == [Measured -> [Resources -> Values]]

ASSUME RailsAssumption     == Rails \in [Resources -> Rail]
ASSUME QuotaAssumption     == Quota \in [Resources -> Quantity]
ASSUME MinChangeAssumption == MinChangePercent \in Nat
ASSUME ProfileAssumption   == Profile \in FitProfile
ASSUME CooldownAssumption  == CoolingDown \in BOOLEAN
ASSUME TargetsAssumption   == \A t \in Targets : Resourceful(t) /\ t # NoTarget
ASSUME UsagesAssumption    == Usages \subseteq Measurements
ASSUME LagAssumption       == MaxLag \in Nat

VARIABLES
    versions,    \* the Tailoring, from the version the cache holds (first) to
                 \* the one the API server holds (last)
    atelier,     \* is there an Atelier?
    fitProfile,  \* does the FitProfile exist?
    target,      \* the target's resources, or NoTarget
    prometheus,  \* what a query gets: "ok", "error" or "empty"
    usage,       \* what Prometheus knows
    queue,       \* is the Tailoring in the workqueue?
    delayed,     \* is it waiting for RequeueAfter or for the retry of an error?
    pc,          \* the worker: "idle", "atelier", "target", "metrics", "update"
    draft,       \* the worker's copy of the Tailoring
    fresh,       \* is the copy of the latest version?
    resources,   \* the target's resources as read
    failed       \* is the status to be written that of handleReconcileError?

cluster == <<atelier, fitProfile, target, prometheus, usage>>
worker  == <<pc, draft, resources, failed>>
vars    == <<versions, cluster, queue, delayed, worker, fresh>>

-----------------------------------------------------------------------------
ReadyReasons    == {"Paused", "CooldownActive", "BelowThreshold", "Ready"}
AnalysisErrors  == {"MetricsQueryError", "NoMetrics"}

\* What filterExcludedContainers leaves, and those of them that are not the
\* target's.
Analyzable == Measured \ Excluded
Foreign(t) == Analyzable \ DOMAIN t

Analyzed == [Analyzable -> [Resources -> Values]]
Analysis == [current : Analyzed, recommended : Analyzed]

Tailoring == [exists   : BOOLEAN,
              paused   : BOOLEAN,
              ready    : ReadyReasons \cup {"", "AtelierNotFound"},
              found    : {"", "TargetFound", "TargetNotFound"},
              analyzed : AnalysisErrors \cup {"", "AnalysisComplete"},
              analysis : Analysis \cup {NoAnalysis}]

New(paused) == [exists |-> TRUE, paused |-> paused, ready |-> "", found |-> "",
                analyzed |-> "", analysis |-> NoAnalysis]
Absent      == [New(FALSE) EXCEPT !.exists = FALSE]

Cached  == Head(versions)
Current == versions[Len(versions)]

\* applySafetyRailsOverride, field by field.
RailsWith(profile) ==
    [r \in Resources |-> [min |-> OrElse(profile.override[r].min, Rails[r].min),
                          max |-> OrElse(profile.override[r].max, Rails[r].max)]]

NoOverride == [r \in Resources |-> [min |-> NoQuantity, max |-> NoQuantity]]

\* resolveFitProfile: without the FitProfile, the percentile strategy without
\* parameters.
Defaults == [strategy |-> "percentile", buffer |-> NoValues, maxChange |-> NoQuantity,
             method |-> "fft", margin |-> 20, override |-> NoOverride]

resolveFitProfile == IF fitProfile THEN Profile ELSE Defaults

NoQuota == [r \in Resources |-> NoQuantity]

Unset == [r \in Resources |-> NoValues]

\* currentResources[name]: a container that the target does not have has the zero
\* value.
CurrentOf(t) == [c \in Analyzable |-> IF c \in DOMAIN t THEN t[c] ELSE Unset]

\* What the calculator recommends for the containers that are not excluded.
Recommendations(measured, current, profile, quota) ==
    [c \in Analyzable |->
        [r \in Resources |->
            Calculate(measured[c][r], current[c][r], profile, RailsWith(profile)[r], quota[r])]]

\* The reason of the Ready condition after a complete analysis.
Decision(paused, recommendations, current) ==
    IF paused THEN "Paused"
    ELSE IF CoolingDown THEN "CooldownActive"
    ELSE IF ~ShouldCreateCut(recommendations, current, MinChangePercent)
    THEN "BelowThreshold"
    ELSE "Ready"

-----------------------------------------------------------------------------
(* The worker. *)

\* The worker's locals are dropped.
Done == pc' = "idle" /\ draft' = Absent /\ fresh' = FALSE
        /\ resources' = NoTarget /\ failed' = FALSE

\* Reconcile begins: read the Tailoring.  A deleted one is not asked for again.
Start ==
    /\ pc = "idle" /\ queue
    /\ queue' = FALSE
    /\ IF Cached.exists
       THEN /\ draft' = Cached /\ fresh' = (Len(versions) = 1)
            /\ pc' = "atelier"
       ELSE UNCHANGED <<draft, fresh, pc>>
    /\ UNCHANGED <<versions, cluster, delayed, resources, failed>>

\* Mutant of Fail: every condition gets the reason.
FailEverything(condition, reason) ==
    /\ draft' = [draft EXCEPT !.ready = reason, !.found = reason, !.analyzed = reason]
    /\ failed' = TRUE
    /\ pc' = "update"

\* handleReconcileError, up to its Update: one condition becomes false.
Fail(condition, reason) ==
    /\ draft' = [draft EXCEPT ![condition] = reason]
    /\ failed' = TRUE
    /\ pc' = "update"

GetAtelier ==
    /\ pc = "atelier"
    /\ \/ ~atelier /\ Fail("ready", "AtelierNotFound")
       \/ atelier /\ pc' = "target" /\ UNCHANGED <<draft, failed>>
    /\ UNCHANGED <<versions, cluster, queue, delayed, fresh, resources>>

getTargetResources ==
    /\ pc = "target"
    /\ \/ target = NoTarget /\ Fail("found", "TargetNotFound") /\ UNCHANGED resources
       \/ /\ target # NoTarget
          /\ resources' = target
          /\ draft' = [draft EXCEPT !.found = "TargetFound"]
          /\ pc' = "metrics" /\ UNCHANGED failed
    /\ UNCHANGED <<versions, cluster, queue, delayed, fresh>>

\* Prometheus fails, knows nothing of the target, or only excluded containers.
AnalysisFails ==
    /\ pc = "metrics"
    /\ \/ prometheus = "error" /\ Fail("analyzed", "MetricsQueryError")
       \/ /\ prometheus = "empty" \/ (prometheus = "ok" /\ Analyzable = {})
          /\ Fail("analyzed", "NoMetrics")
    /\ UNCHANGED <<versions, cluster, queue, delayed, fresh, resources>>

\* The analysis and the decision.  quota is what getResourceQuota returned: it
\* is ignored when it cannot be read.
Analyze(quota) ==
    LET current     == CurrentOf(resources)
        recommended == Recommendations(usage, current, resolveFitProfile, quota)
    IN  /\ pc = "metrics"
        /\ prometheus = "ok" /\ Analyzable # {}
        /\ draft' = [draft EXCEPT
                        !.analysis = [current |-> current, recommended |-> recommended],
                        !.analyzed = "AnalysisComplete",
                        !.ready    = Decision(draft.paused, recommended, resources)]
        /\ pc' = "update"
        /\ UNCHANGED <<versions, cluster, queue, delayed, fresh, resources, failed>>

\* Mutant of UpdateCommits: the write does not carry the resourceVersion.
UpdateCommitsAnyVersion ==
    /\ pc = "update" /\ Current.exists
    /\ versions' = Append(versions, [draft EXCEPT !.paused = Current.paused])
    /\ delayed' = TRUE /\ Done
    /\ UNCHANGED <<cluster, queue>>

\* Mutant of UpdateCommits: no RequeueAfter.
UpdateCommitsForGood ==
    /\ pc = "update" /\ fresh
    /\ \/ /\ draft # Current \/ ~failed
          /\ versions' = Append(versions, draft)
       \/ draft = Current /\ UNCHANGED versions
    /\ Done
    /\ UNCHANGED <<cluster, queue, delayed>>

\* Status().Update succeeds and RequeueAfter follows.  A status equal to the
\* stored one makes no new version; that of an analysis differs by its
\* timestamps unless the second is the same.
UpdateCommits ==
    /\ pc = "update" /\ fresh
    /\ \/ /\ draft # Current \/ ~failed
          /\ versions' = Append(versions, draft)
       \/ draft = Current /\ UNCHANGED versions
    /\ delayed' = TRUE /\ Done
    /\ UNCHANGED <<cluster, queue>>

\* Mutant of UpdateFails: neither a requeue nor an error to retry.
UpdateFailsForgets ==
    /\ pc = "update"
    /\ Done
    /\ UNCHANGED <<versions, cluster, queue, delayed>>

\* Status().Update fails: handleReconcileError swallows that and requeues, the
\* other paths return the error, which is retried after a backoff.
UpdateFails ==
    /\ pc = "update"
    /\ delayed' = TRUE /\ Done
    /\ UNCHANGED <<versions, cluster, queue>>

Analyzes == Analyze(Quota)

\* The ResourceQuotas could not be listed.
AnalyzesWithoutQuota == Quota # NoQuota /\ Analyze(NoQuota)

Worker ==
    \/ Start \/ GetAtelier \/ getTargetResources \/ AnalysisFails
    \/ Analyzes \/ AnalyzesWithoutQuota \/ UpdateCommits \/ UpdateFails

-----------------------------------------------------------------------------
(* controller-runtime. *)

\* The watch delivers the next version; no predicate filters the event.
Informer ==
    /\ Len(versions) > 1
    /\ versions' = Tail(versions)
    /\ queue' = TRUE
    /\ UNCHANGED <<cluster, delayed, worker, fresh>>

TimerExpires ==
    /\ delayed /\ delayed' = FALSE
    /\ queue' = TRUE
    /\ UNCHANGED <<versions, cluster, worker, fresh>>

\* The process dies and starts again: what the new List finds is queued.
Restart ==
    /\ versions' = <<Current>>
    /\ queue' = Current.exists /\ delayed' = FALSE
    /\ Done
    /\ UNCHANGED cluster

-----------------------------------------------------------------------------
(* Users and the cluster. *)

SpecWrite(t) ==
    /\ "tailoring" \in Changing /\ Len(versions) < MaxLag
    /\ versions' = Append(versions, t) /\ fresh' = FALSE
    /\ UNCHANGED <<cluster, queue, delayed, worker>>

Pause  == Current.exists /\ SpecWrite([Current EXCEPT !.paused = ~@])
Delete == Current.exists /\ SpecWrite(Absent)
Create == ~Current.exists /\ SpecWrite(New(FALSE))

ChangeAtelier    == /\ "atelier" \in Changing /\ atelier' = ~atelier
                    /\ UNCHANGED <<fitProfile, target, prometheus, usage>>
ChangeFitProfile == /\ "fitProfile" \in Changing /\ fitProfile' = ~fitProfile
                    /\ UNCHANGED <<atelier, target, prometheus, usage>>
ChangeTarget     == /\ "target" \in Changing
                    /\ target' \in (Targets \cup {NoTarget}) \ {target}
                    /\ UNCHANGED <<atelier, fitProfile, prometheus, usage>>
ChangePrometheus == /\ "prometheus" \in Changing
                    /\ prometheus' \in {"ok", "error", "empty"} \ {prometheus}
                    /\ UNCHANGED <<atelier, fitProfile, target, usage>>
ChangeUsage      == /\ "usage" \in Changing
                    /\ usage' \in Usages \ {usage}
                    /\ UNCHANGED <<atelier, fitProfile, target, prometheus>>

ClusterChange ==
    /\ \/ ChangeAtelier \/ ChangeFitProfile \/ ChangeTarget
       \/ ChangePrometheus \/ ChangeUsage
    /\ UNCHANGED <<versions, queue, delayed, worker, fresh>>

\* The API server's rule for resources.
ResourcesValid(t) ==
    \A c \in DOMAIN t, r \in Resources :
        t[c][r]["requests"] # NoQuantity /\ t[c][r]["limits"] # NoQuantity
            => t[c][r]["requests"] <= t[c][r]["limits"]

\* The target with an analysis's recommendations for its own containers.
WithRecommendations(t, analysis) ==
    [c \in DOMAIN t |-> [r \in Resources |-> [s \in Sections |->
        IF c \in Analyzable THEN OrElse(analysis.recommended[c][r][s], t[c][r][s])
                            ELSE t[c][r][s]]]]

\* Somebody applies the recommendations of the last analysis where the Ready
\* condition says that there is something to change.
Apply ==
    /\ Current.ready = "Ready" /\ Current.analysis # NoAnalysis
    /\ target # NoTarget
    /\ target' = WithRecommendations(target, Current.analysis)
    /\ target' # target /\ ResourcesValid(target')
    /\ UNCHANGED <<versions, atelier, fitProfile, prometheus, usage, queue, delayed,
                   worker, fresh>>

Environment == Pause \/ Delete \/ Create \/ ClusterChange

-----------------------------------------------------------------------------
Init ==
    /\ versions = <<New(FALSE)>>
    /\ atelier = TRUE /\ fitProfile = TRUE
    /\ target \in Targets
    /\ prometheus = "ok"
    /\ usage \in Usages
    /\ queue = TRUE /\ delayed = FALSE
    /\ pc = "idle" /\ draft = Absent /\ fresh = FALSE
    /\ resources = NoTarget /\ failed = FALSE

Next == Worker \/ Informer \/ TimerExpires \/ Restart \/ Apply \/ Environment

Spec == Init /\ [][Next]_vars

(***************************************************************************)
(* Fairness: controller-runtime runs the worker, the informer and the      *)
(* timers, and of the Updates that the API server could accept again and   *)
(* again it accepts some.  Recommendations that stay are applied.  The      *)
(* first conjunct is WF_vars(Worker): the worker can take a step unless it  *)
(* is idle with nothing in the queue.                                      *)
(***************************************************************************)
Fairness ==
    /\ []<>(pc = "idle" /\ ~queue) \/ []<><<Worker>>_vars
    /\ SF_vars(UpdateCommits)
    /\ WF_vars(Informer) /\ WF_vars(TimerExpires)
    /\ WF_vars(Apply)

FairSpec == Spec /\ Fairness

\* Steps of the parts that are expected to keep running.
Regular ==
    \/ Start \/ GetAtelier \/ getTargetResources \/ AnalysisFails \/ Analyzes
    \/ UpdateCommits \/ UpdateFails \/ Informer \/ TimerExpires \/ Apply

\* What may undo the worker's progress: a step that none of these could take
\* (a restart, for instance, may do no more than a timer).
Disturbance == (Environment \/ Restart \/ AnalyzesWithoutQuota) /\ ~Regular

-----------------------------------------------------------------------------
(* Properties. *)

TypeOK ==
    /\ versions \in Seq(Tailoring) \ {<<>>}
    /\ atelier \in BOOLEAN /\ fitProfile \in BOOLEAN
    /\ target = NoTarget \/ Resourceful(target)
    /\ prometheus \in {"ok", "error", "empty"}
    /\ usage \in Measurements
    /\ queue \in BOOLEAN /\ delayed \in BOOLEAN
    /\ pc \in {"idle", "atelier", "target", "metrics", "update"}
    /\ draft \in Tailoring /\ fresh \in BOOLEAN
    /\ resources = NoTarget \/ Resourceful(resources)
    /\ failed \in BOOLEAN

\* An existing Tailoring is queued, waits for a timer, is being reconciled or
\* has an event under way: no error path, lost Update or restart ends its
\* reconciliation.
TailoringStaysScheduled ==
    Current.exists => queue \/ delayed \/ pc # "idle" \/ Len(versions) > 1

Published == {versions[i].analysis : i \in 1 .. Len(versions)} \ {NoAnalysis}

\* Whatever the FitProfile, the usage and the quota, no published value of the
\* percentile strategy is above the maximum of the rails that were in force:
\* the Atelier's, or the FitProfile's where it overrides them.
RailsRespected ==
    \A a \in Published, c \in Analyzable, r \in Resources, s \in Sections :
        a.recommended[c][r][s] # NoQuantity =>
            \E max \in {Rails[r].max, RailsWith(Profile)[r].max} :
                max # NoQuantity => a.recommended[c][r][s] <= max

\* A published recommendation fits the resources published beside it: it is at
\* most maxChange percent away from them, or a rail or the quota says so.
GradualFromPublished ==
    \A a \in Published, c \in Analyzable, r \in Resources, s \in Sections :
        LET now  == a.current[c][r][s]
            then == a.recommended[c][r][s]
        IN  now \notin {NoQuantity, 0} /\ then # NoQuantity =>
                \/ \E p \in {Profile, Defaults} :
                      LET m == getIntentConfigFromParameters(p).maxChange
                      IN  \/ m >= 100
                          \/ /\ then * 100 <= now * (100 + m)
                             /\ then * 100 + 100 > now * (100 - m)
                \/ then \in {Quota[r]} \cup {Rails[r].min, Rails[r].max}
                             \cup {RailsWith(Profile)[r].min, RailsWith(Profile)[r].max}

\* "Paused stops Sartor from creating new Cuts": a status write never announces
\* recommendations to be applied for a Tailoring that is paused by then.
PauseWins ==
    [][UpdateCommits /\ versions' # versions /\ ~failed
          => (Current'.ready = "Paused" <=> Current.paused)]_vars

\* What the status should say of the world as it is.
Diagnosed ==
    Current.exists =>
        IF ~atelier THEN Current.ready = "AtelierNotFound"
        ELSE IF target = NoTarget THEN Current.found = "TargetNotFound"
        ELSE /\ Current.found = "TargetFound"
             /\ prometheus = "error" => Current.analyzed = "MetricsQueryError"
             /\ prometheus = "empty" => Current.analyzed = "NoMetrics"
             /\ prometheus = "ok" /\ Analyzable # {} =>
                   LET current     == CurrentOf(target)
                       recommended == Recommendations(usage, current, resolveFitProfile, Quota)
                   IN  /\ Current.analyzed = "AnalysisComplete"
                       /\ Current.analysis = [current |-> current, recommended |-> recommended]
                       /\ Current.ready = Decision(Current.paused, recommended, target)

\* Unless somebody interferes again and again, the status ends up describing
\* the world for good, although only the Tailoring is watched, Updates
\* conflict and fail, and the target moves with every recommendation applied.
StatusSettles == []<><<Disturbance>>_vars \/ <>[]Diagnosed

\* Applying recommendations comes to an end: with steady usage every step
\* towards it is followed by the next, then the target rests, and Ready is not
\* shown any more unless a container that the target does not have is measured
\* and not excluded, which counts as a change at every reconcile.
RecommendationsConverge ==
    \/ []<><<Disturbance>>_vars
    \/ /\ <>[][UNCHANGED target]_vars
       /\ <>[](atelier /\ target # NoTarget /\ prometheus = "ok"
                  => (Current.ready = "Ready" => Foreign(target) # {}))
=============================================================================
