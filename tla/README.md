# A TLA+ model of Sartor

Sartor is a Kubernetes operator that right-sizes workloads.  It reads usage
from Prometheus, recommends requests and limits, announces them in the status
of `Tailoring` objects (later: as pull requests, "Cuts"), and raises memory
limits of containers that were OOM-killed.  These modules model its
controllers, the cluster around them, and its recommendation engine; TLC checks
them on small instances and TLAPS proves the main results for all values of
the constants.

    tlc -workers 2 -config oom_safety.cfg MCOOMInterceptor
    tlapm TailoringReconcilerProofs.tla

Paths below are relative to the repository (`src/` is its root).

## 1. The system

One process (`src/cmd/controller/main.go`) runs four controllers under one
manager of controller-runtime, each with one worker and a workqueue; they share
the informer cache, which trails the API server.  A second process
(`src/cmd/server/main.go`) serves a dashboard.  Controllers never call each
other: they interact through the objects in the API server, and so with users,
GitOps tools, kubelets and rollouts.

| component | state | operations | interacts with | what is hard | what makes it correct |
|---|---|---|---|---|---|
| OOM controller and interceptor (`internal/controller/oom_controller.go`, `internal/oom/interceptor.go`) | workqueue, 30 s timers; in the cluster: memory limits, the annotation `oom-patched` | Reconcile: detect OOM kills, cooldown, new limit, Get + Update of a workload | every other writer of the workload; pods of several generations | stale cache, conflicts, handling one kill many times, one annotation for all containers, restart | an OOM-killed pod is never forgotten; increases do not compound; patches are atomic; limits settle |
| Tailoring controller (`internal/controller/tailoring_controller.go`) | `Tailoring.status` with conditions and analysis | Reconcile: Atelier, target, metrics, recommendations, decision, status Update | Atelier, FitProfile, target, quota, Prometheus | nothing but the Tailoring is watched; five reads at different moments; the metrics' containers are not only the target's; errors at each step; pause during a reconcile | never dropped; rails respected in what is published; pause wins; status ends up true; applying recommendations ends |
| Calculator and strategies (`internal/recommender/`) | none | percentile and DSP strategies, rails, quota, threshold | called by the Tailoring controller | order of buffer, gradual change, rails and quota; truncation | maximum, limits above requests, bounded change |
| DSP, preprocessing (`internal/recommender/dsp`, `.../preprocessing`) | none | outliers, peaks, detection of a period, forecasts | called by the DSP strategy | index arithmetic, the order of steps on one series | outliers go away, peaks are thinned fairly, the forecast covers what was seen |
| Atelier controller (`atelier_controller.go`) | `Atelier.status` | connection checks, count of Tailorings | Prometheus, GitHub, ArgoCD, secrets | checks that are skipped keep old answers; own status writes trigger it | the status describes the last checks |
| FitProfile controller (`fitprofile_controller.go`) | `FitProfile.status` | validation, usage count | strategy registry, Tailorings | Tailorings are not watched and nothing requeues | validity follows the spec; count follows Tailorings |
| GitHub provider (`internal/gitops/provider/github`) | branches, commits, pull requests (remote) | CreateBranch, Commit, CreatePullRequest, AddLabels | other pushers | five calls for one commit; labels after the pull request | no foreign commit is lost; one commit per call |
| Manifest writers (`internal/gitops/writer`) | YAML trees | raw, Helm, Kustomize updates | called by nobody yet | containers missing in the tree, patches by index | what was asked is what is read; only that changes |
| ArgoCD client (`internal/gitops/argocd`) | Application annotations or operations | Sync, Refresh, Detect | ArgoCD server or API server | Get + Update of a busy object | no field of another writer is lost |
| Webhook notifier (`internal/notification`) | none | Send with retries | receivers, several callers | answers lost or late, one webhook failing, cancelled callers | nil means accepted by all, in order; bounded retries; failures stay apart; Send returns |
| Prometheus client (`internal/metrics/prometheus`) | none | four queries, merge | Prometheus | any error drops all; several pods per container | answers of one container are combined soundly |
| OpenCost client (`internal/opencost`) | none | parsing of a scrape, four views of it, allocations and their summary | OpenCost | fields that are overwritten beside lists that add up; four views of one scrape | parts add up to totals, views to each other |
| Dashboard (`internal/server/api`, `cmd/server`) | API keys, loaded once | 24 routes, two middlewares, shutdown | browsers, API server, ArgoCD, Prometheus, OpenCost | three layers of timeouts, lost answers, clients that leave, routing by the last part of a path | ArgoCD is operated only as asked and with a key; requests end; answers arrive in time |
| API types (`api/v1alpha1`) | CRDs | defaults, validation | all | | |
| CLI and utilities, tests, charts, UI | | | | | |

Two facts shape the whole: the Git part is not wired in ("Git operations not
yet implemented", `tailoring_controller.go:238`), so that recommendations are
applied by whoever reads the status; and the OOM controller runs with a fixed
configuration (`main.go`: 20 %, no MaxMemory).

## 2. Modules

    Workload  <---- AtomicLimitPatch          abstract: an atomic patch
       ^                ^
       |                |  refinement (INSTANCE AtomicLimitPatch)
    OOMInterceptor -----+      <---- MCOOMInterceptor, OOMInterceptorProofs

    Preprocessing <---- DSPStrategy <---- MCDSPStrategy, DSPStrategyProofs
                             |  (INSTANCE, to compare)
                             v
    Recommender
       ^
    TailoringReconciler  <---- MCTailoringReconciler, TailoringReconcilerProofs

    StatusReconcilers    <---- MCStatusReconcilers, StatusReconcilersProofs

    GitHubProvider <--- GitOps <---- MCGitOps, GitOpsProofs
    ArgoCDClient   <------+  (INSTANCE, its branch is the provider's)

    Manifests            <---- MCManifests, ManifestsProofs

    WebhookNotifier      <---- MCWebhookNotifier, WebhookNotifierProofs

    PrometheusClient, OpenCostClient <---- Dashboard <---- MCDashboard, DashboardProofs

`Workload` -- pure operators over the part of a Deployment, StatefulSet or
DaemonSet the interceptor touches: the new limit, the patch, the cooldown check.

`OOMInterceptor` -- the worker of the OOM controller as a small machine
(`pc` = idle, cooldown, patch, update) around the calls that other actors can
come between:

| action | code |
|---|---|
| `Start` | `Reconcile`: Get of the pod, `DetectOOMKilled` |
| `Skip`, `PassCooldown` | `HandleOOMEvent` up to `shouldSkipDueToCooldown`, the first read of the workload |
| `ReadAndModify`, `ReadFails` | `patchWorkload`: second Get, change of the copy |
| `UpdateCommits`, `UpdateFails` | `client.Update`, accepted or refused |
| `NextEvent` (part of these) | the loop over events and the final `RequeueAfter` |
| `Informer`, `RequeueAfterExpires`, `Restart` | controller-runtime (external) |
| `OOMKill`, `OtherTermination`, `Replace`, `UserWrite`, `Delete`, `StatusWrite`, `Tick` | kubelet, rollouts, users, time (external) |

`versions[w]` is the stretch of the history of `w` between the version the
cache shows (first) and the one the API server holds (last); an Update succeeds
when the copy was taken from the last one and nothing was written since
(`fresh`).  Time is the age of the annotation, counted up to the cooldown.

`AtomicLimitPatch` -- the promise to the owner of a workload: each patch is one
atomic read-modify-write that changes the memory of at most one container.

`Recommender` -- the calculator and both strategies as operators on integers
(milli-cores or bytes, whole percentages).  Requests and limits, CPU and memory
are handled alike by the code and are indices.

`TailoringReconciler` -- the worker of the Tailoring controller for one
Tailoring (`pc` = idle, atelier, target, metrics, update):

| action | code |
|---|---|
| `Start` | `Reconcile`: Get of the Tailoring |
| `GetAtelier` | `getAtelier` |
| `getTargetResources` | `getTargetResources`, condition TargetFound |
| `AnalysisFails`, `Analyzes`, `AnalyzesWithoutQuota` | metrics, FitProfile, quota, `calculateRecommendations`, analysis, Ready condition |
| `UpdateCommits`, `UpdateFails` | `Status().Update` of the main path and of `handleReconcileError` |
| `Informer`, `TimerExpires`, `Restart` | controller-runtime (external) |
| `Pause`, `Delete`, `Create`, `ClusterChange`, `Apply` | users, the cluster, whoever applies recommendations (external) |

`Containers` are those that the target may have, `Measured` those that Prometheus knows of for
pods with the target's name as prefix, `Foreign` those that are recommended for
although the target does not have them.

`StatusReconcilers` -- the Atelier and the FitProfile controller, which have the
same shape and do not influence each other; the variable `kind` says which one
a behaviour is about:

| action | Atelier | FitProfile |
|---|---|---|
| `Start` | Get | Get |
| `Check` | one of the connection checks and its condition | strategy, then parameters |
| `Count`, `CountFails` | all Tailorings | `countUsage` |
| `UpdateCommits`, `UpdateFails` | `Status().Update`, then five minutes or a retry | `Status().Update`, then nothing or a retry |
| `Informer`, `TimerExpires`, `Resync`, `Restart` | controller-runtime (external) | |
| `Edit`, `Delete`, `Create`, `ChangeTailoring`, `ChangeService` | users, services (external) | |

`Resync` is the informers' ten-hourly repetition of what they hold.  It is an
action here because nothing else brings a FitProfile back when Tailorings come
and go; the other two controllers have timers that do the same sooner, and
their models leave it out.

`GitHubProvider` -- a repository and the calls of the provider that write it.
What a call holds between two requests to GitHub is in `call`; a commit is its
tree and its past (itself and its ancestors):

| action | code |
|---|---|
| `PrepareCommit` | `Commit`: GetRef, GetCommit, CreateTree, CreateCommit |
| `UpdateRef` | `Commit`: the update without force, answered or not |
| `PrepareBranch`, `CreateRef` | `CreateBranch`: its two requests |
| `Fails` | every error return, and the end of the process |
| `Push`, `ForcePush`, `DeleteBranch` | other users of the repository (external) |

`ArgoCDClient` -- the requests of the dashboard that write one Application:

| action | code |
|---|---|
| `Get` | `syncViaCluster`, `refreshViaCluster`: the read of the Application |
| `Update`, `UpdateFails` | their Update with the annotation |
| `refreshViaAPI` | the refresh that ArgoCD itself performs |
| `syncViaAPI` | the operation that ArgoCD starts, one at a time |
| `Refreshed`, `Polls`, `Operated`, `EditSpec` | ArgoCD, the owner of the Application (external) |

`GitOps` -- both together: the branch that ArgoCD deploys is the provider's
`Main`, so that a refresh shows what was committed and pushed.  No controller
calls the provider yet; the model takes its interface
(`provider/interface.go`) at its word and lets any caller come at any time.

`Manifests` -- the writers that put recommendations into files, on trees of YAML
nodes.  All of them end in the same three functions of `raw.go`
(`updateResourceSection`, `updateScalarValue` and, written out in each,
what `WithSections` says) and differ in how they find the place and in what
they refuse:

| action | code | refuses |
|---|---|---|
| `UpdateManifest` | `RawWriter.UpdateManifest` | a container that is not there |
| `UpdateValues` | `HelmWriter.UpdateValues` | a missing parent of the value path |
| `UpdateValuesMultiContainer` | the same, with a map that may come from `DetectHelmStructure` | a scalar on the way |
| `GeneratePatch`, `UpdatePatch` | `KustomizeWriter`'s | an update of a patch without containers, such as one generated from no updates |
| `UpdateKustomization` | the entry under `patches` or `patchesStrategicMerge` of kustomization.yaml | |

A new scalar of the raw and Helm writers and of `UpdatePatch` has no tag and is read
with that of its text; the values of a generated patch are strings of Go, which the
encoder quotes where they look like numbers (`Quoted`).

Nothing calls the writers yet; the model lets the calls of one write-back type
come in any order, but for `GeneratePatch`, which makes a file that is not there or has no containers.

`Preprocessing`, `DSPStrategy` -- the way of one series through the DSP strategy,
with `stage` saying how far it is.  `Preprocessing` has the operators of its
package, `DSPStrategy` the strategy and package `dsp`:

| action | code |
|---|---|
| `Process` | `Process`: `RemoveOutliers` by percentiles |
| `DetectPeaks`, `FilterPeak` | `DetectPeaks`, then one round of the loop of `filterByDistance` |
| `Predict` | `DetectPeriod`, `PredictMaxValue` or `PredictFFT`, `predictResource` |

The Fourier transforms come from a library.  A series is given with its
amplitudes, its autocorrelation and the amplitudes of its shuffled copies;
what the inverse transform makes of a filtered spectrum is `Inverted`, any series
within what the components allow.  `Recommender` has only the constant series that
`extractTimeSeries` builds today; `RecommenderAgrees` says that both say the same
of it.

`WebhookNotifier` -- concurrent calls of `Send`, each going from webhook to webhook:

| action | code |
|---|---|
| `Notify` | the `Notify...` functions: the event, then `Send` up to the first webhook |
| `Try` | one attempt of `sendToWebhook`: the request goes out, or cannot |
| `Answered`, `TimesOut` | `client.Do` returns a response or an error |
| `Wake` | the end of `time.Sleep` between attempts |
| `GiveUp` | the loop that a negative RetryCount never enters |
| `Cancel`, `Receive` | the caller's context; the receiver, in any order, also late (external) |

`PrometheusClient`, `OpenCostClient` -- what both clients make of the answers they
get, as operators: the merging of the four queries, the range, the joined time
series; the parsing of a scrape into its lists and the four views of it.  A list of lines
is a function from their positions in the text, so that what is selected keeps its order.

`Dashboard` -- the server with its requests.  A handler is a timeout and a sequence of
steps, each with the status its failure is answered with, in the order of
`handlers.go`; `RegisterRoutes` says which handler a path has.  The actions are
kinds of steps:

| action | code |
|---|---|
| `Arrive` | net/http, `AuthMiddleware`, `CORSMiddleware`, the mux |
| `Decide` | checks of the method, of parts of the path, of parameters, of the Atelier's fields |
| `Read`, `ReadTailoring`, `ReadAtelier` | reads from the API server and from ArgoCD |
| `Query`, `QueryRange` | one query of Prometheus |
| `GetMetricsOfOpenCost`, `GetAllocations` | a scrape or the allocation API, and the view made of it |
| `Operate`, `AnswerIsLost` | a sync or refresh in ArgoCD, answered or not |
| `WaitFails` | an error of any of these, or the end of the context |
| `Signal`, `ShutdownReturns`, `ShutdownTimesOut` | the end of `main` |
| `Disconnect`, `Tick` | browsers, the clock (external) |

What a Sync or Refresh does to the Application is in `ArgoCDClient`.

## 3. Runs

| run | what it asks | answer |
|---|---|---|
| `oom_safety` | one Deployment, two pods, users writing and deleting, a cache up to two versions behind, conflicts, restarts: is a killed pod ever forgotten, do increases compound, can an accepted Update hold an invalid object, is the cooldown kept when the two reads agree, is each patch atomic, do limits fall below every limit in use? | all hold |
| `oom_liveness` | two containers that need more than they have, one annotation: do the limits end up sufficient? | yes, unless somebody interferes for ever |
| `oom_lowers_limit` | can handling an OOM kill lower the limit? | yes (finding 2) |
| `oom_sidecar_starvation` | is every OOM kill answered? | no (finding 3) |
| `tailoring_safety` | Tailoring, Atelier, FitProfile and usage change at any moment, with a quota and an excluded sidecar: is the Tailoring ever dropped, do published values obey the rails and the gradual change, is a paused Tailoring ever announced as ready? | all hold |
| `tailoring_liveness` | target and Prometheus change and recommendations are applied, one injected container is excluded, another is in the target at times: does the status end up true, does applying end, and is Ready then shown for no other reason than a container that the target does not have? | yes (finding 14) |
| `gitops` | calls of the provider against pushes, forced pushes and deletions; refreshes against ArgoCD and the owner: is a foreign commit ever lost, does a call put its change and nothing else on the branch, does a hard refresh show what was there, is the rest of the Application kept? | all hold |
| `manifests` | calls of the writers in any order on files with and without resources, with numbers and empty keys: is what was asked last what is read, does anything else in the file change? | all hold, with the exceptions that `AskedIsRead` states (finding 6) |
| `status_reconcilers` | Atelier or FitProfile edited, deleted and created, services and Tailorings changing: are connections checked again and again, can a verdict on an older spec stay, does the status end up true? | all hold |
| `webhooks` | two callers, three events, three webhooks (one that asks for nothing, one with a retry, one whose URL is broken), answers that are lost or late, cancelled callers: does nil mean that everybody accepted the event in order, does one failing webhook cost another its event, are retries bounded, does Send return? | all hold |
| `dsp_strategy` | every series of up to seven samples, four days with any of several spectra and autocorrelations, the constant week of today: do outliers go away, are peaks thinned fairly, does the forecast cover the past, is Recommender's shortcut right? | all hold, with the exceptions that the properties state |
| `dashboard` | one client that asks for anything on any route, one that lists Tailorings, all upstream failures, lost answers, a shutdown: is ArgoCD operated only as asked, do timeouts nest, do requests end, is what is shown consistent? | all hold, with the exceptions that the properties state |

Bounds.  `MaxLag = 2`: the cache is up to date or one version behind (the
guards of other writers stop at two versions, and the worker's own write may
make three); a longer backlog adds no reaction, since the code only asks
whether its copy is the latest.  Two pods give pods of different generations
and conflicting events; two containers share an annotation only in
`oom_liveness` and `oom_sidecar_starvation`.  A cooldown of two ticks has
"just patched", "inside" and "over"; memory values are chosen around one
increase (`10 -> 12`, need 12, default 11, user values 10 and 20).  The
Tailoring runs have one or two containers and memory, because containers and resources
do not influence each other in the code but through the one question whether
any of them changes enough; the values make each cap bite once: usage 60
buffered to 72 (requests) and 80 to 104 (limits), half as much again as 40 is
60, rails 20..80, a maximum of 75 from the FitProfile, a quota of 75 where
the FitProfile is missing, and a usage of 55,
whose 66 is below the threshold of 72.  In `tailoring_liveness` the target either has
the injected container and two steps to go, or lacks it and is at rest, so that
both answers of `Foreign` occur; the usage stays there, and changes in
`tailoring_safety`.
`status_reconcilers` has one Tailoring, which may use the FitProfile, another
one or not exist, two services that change and every kind of spec.  `gitops` has
one call of the provider and one request through the cluster, because each has
its rivals beside it: `Push` does to the branch what another call's `UpdateRef`
would do, and `refreshViaAPI`, `syncViaAPI`, ArgoCD and the owner write the Application between
`Get` and `Update`; three commits allow one to come between the two requests of a
call and another after it; two files let a commit lose what another one wrote.

`webhooks` tells two events one after the other, so that a late arrival can overtake,
and one beside them; a webhook that retries once, one that never tries and one
that cannot be reached are the three ways through the loop, and three retries
(RetryCount 0) occur at the webhook that cannot be reached.  `dsp_strategy` has
series of up to seven samples with three values, enough for plateaus, runs of
outliers, equal peaks and peaks on both sides of the minimum distance; some of
eleven, for peaks that lose to peaks that lose; a series of 16 samples, since
DetectPeriod finds nothing below 14, with amplitudes as those of a usage and as
those of a series without its mean, where a period is found; and a week's constant
series.  Outliers are what lies beyond the percentiles 10 and 90, or, with the
default thresholds, a panic.  `dashboard` counts time in steps of ten seconds,
since every timeout is a multiple of that but the connection's 15 s, which lie
between two steps; ages end at 30 s, the longest timeout.  Two clients are
enough: handlers share nothing but ArgoCD and the end of the process.
`manifests` has two containers and calls for one, for both, with an empty section and
with nothing; its files hold complete resources, none, an empty key at either
level, and a chart with two blocks that detection gives the same name; its
kustomization.yaml lists nothing, patches under the older key, under both keys, or has
a key with nothing behind it.

Fairness.  `WF` for the worker (written out, for the Tailoring's, as idle with an empty
queue or stepping, again and again), the informers and the timers, which
controller-runtime runs in goroutines of their own; `SF` for `UpdateCommits`:
the API server, which may refuse or fail any single Update, accepts some of
those it could accept again and again; kubelets, rollouts and the clock are
weakly fair in the OOM model, `Apply` in the Tailoring model.  Users, restarts
and other writers get none.  In `webhooks` the callers run on and a wait always ends, because every request has a
timeout; receivers owe nothing.  In `dashboard` time passes and the server's own steps
are taken, but no upstream service is bound to answer: a wait ends
because its context does.  `gitops`, `manifests` and `dsp_strategy` check safety
only and assume no fairness: nothing retries there.  Liveness is stated as "`Disturbance` happens for
ever, or ...": the code retries with timers and can be starved by an endless
stream of writes, and nothing in it prevents that.  `Disturbance` leaves out
every step that a running part of the system could have taken as well (a
restart that does what a timer does, a failing List that would have found the
old count): otherwise ordinary cycles would count as disturbed and the
properties would say little.

## 4. Findings

Findings 2 and 3 have runs of their own, 5 and 7 are theorems; the others are places
where a model follows the code and the properties state the exception.

1. `shouldSkipDueToCooldown` has no case for DaemonSets (`interceptor.go:225`), though
   they are patched and stamped.  `CooldownGate` speaks of the kinds that have one.
2. `oom_lowers_limit` -- the new limit is computed from the killed pod, so a pod
   from before the last raise lowers the limit.  What does hold is `FloorKept`:
   it never falls below every limit still in use.
3. `oom_sidecar_starvation` -- an event of a container that is not in the
   template changes nothing but renews the annotation of the workload; listed
   first, it keeps every other container waiting for ever.
4. Error paths of the Tailoring controller write one condition and leave Ready as it
   was (`tailoring_controller.go:259`): it stays true when the target is gone.
5. `DspRequestAboveMaximum` -- the DSP strategy caps limits at the maximum and
   raises requests to the minimum, not the reverse, so that requests exceed the
   maximum, and their own limit.
6. `updateScalarValue` replaces the text of a YAML scalar and
   keeps the tag that was resolved when it was read (`raw.go:259`): `cpu: 1`
   becomes `cpu: !!int 500m`, which cannot be read.  A whole number of CPUs
   that Sartor wrote leads there at the next change.  `Manifests` models the
   tag and remembers the first that each place had (`tags`), and `AskedIsRead` says that a number's place, while the
   quantity is none, and a null's are the only ones.
7. `PeriodIsNeverFound` -- the noise threshold of `DetectPeriod` includes component 0
   (`dsp.go:86`), the sum of the samples, which shuffling keeps and no other
   component of a non-negative series exceeds: no usage has a period, and the
   default of a day is always taken.
8. Behind it, `verifyPeak` is given a frequency index where a lag is meant
   (`dsp.go:128`), and "Ensure minimum number of components" (`dsp.go:386`) can only
   remove more of them.
9. `percentile` of the preprocessor expects fractions and the defaults are 0.1 and 99.9:
   once outlier removal is enabled it panics (`preprocessor.go:186`, operator
   `Panics`).  Nothing enables it today.
10. The capacity of a scrape is that of the last node it names (`client.go:1098`) while
   allocations are those of all nodes: utilisation exceeds 100 %.
   `BreakdownsAddUp` bounds it on one node.
11. Authentication is outside of CORS (`cmd/server/main.go:129`): where keys are
   loaded, preflights are refused, and with them every browser of another origin.
12. Connections are closed for writing after 15 s (`cmd/server/main.go:138`), handlers of
   metrics and costs may take 30 s (`handlers.go:752`): what takes between the two is
   computed and lost.  `TimeoutsNest` names the handlers that are safe.
13. RetryCount 0 of a webhook means three retries (`webhook.go:132`).
14. The Prometheus query asks for all pods whose name begins with
   the target's, and a container of theirs that the target does not have, an injected
   one for instance, is a significant change at every reconcile (`calculator.go:153`):
   Ready stays, whatever is applied.  `RecommendationsConverge` says that the target
   rests all the same, and that this is the only reason (`Foreign`).
15. Where `patches:` has nothing behind it the entry goes to
   the children of a null, which the encoder does not write (`kustomize.go:404`), and no
   error is returned (`WithEntry`).
16. The older key is looked for only where there is no
   `patches` (`kustomize.go:348`): a path that it lists is listed again under the other (`PatchesKey`).

Observed as well: disabling ArgoCD in the Atelier leaves
`ArgoCDConnected` and its condition as the last check found them
(`atelier_controller.go:103`); a Refresh of the ArgoCD client overwrites the
annotation of a hard refresh that is still pending (`argocd/client.go:496`); the
provider reports GitHub's states open and closed where the interface promises
merged as well (`provider/interface.go:29`); a missing FitProfile silently becomes
the default percentile strategy (`tailoring_controller.go:483` expects an error
downstream); a container without limit gets 256Mi even above MaxMemory
(`interceptor.go:264`); the DSP forecast with `maxValue` recommends requests of
zero, because the sample it reads lies behind the data; the quota is applied
last and may push a value below the minimum of the rails; the status write of
each analysis triggers the next one at once, because its timestamps differ
every second and no predicate filters the event, so that the interval in the
spec bounds the rate from one side only; after a forced push between the first
and the last request of `Commit` the update without force can bring back what
was removed, because GitHub sees a fast forward (`github.go:214`); the pull
request that `CreatePullRequest` returns has none of the labels it has just added
(`github.go:250`); `BranchExists` takes any error whose text contains 404
for a missing branch (`github.go:155`); `Sync` through the cluster only asks for
a hard refresh and drops revision, prune and dry run (`client.go:355`); of a
manifest with several documents the writers read the first and return only that
(`raw.go:56`); where `resources:` has nothing behind it (and is not `{}`) an
update is lost without an error, because the encoder writes no children of a
scalar (`raw.go:187`); `UpdateValues` drops all updates but the first
(`helm.go:98`); detection joins keys with dots, so that a key with a dot in it
leads an update astray (`helm.go:260`); the name of a patch file has no namespace, so that
two workloads of one kind and name share it (`kustomize.go:418`); a patch is added
to `patchesStrategicMerge` as a mapping where only paths belong
(`kustomize.go:387`); JSON patches address containers by index although updates name
them (`kustomize.go:272`); an event is sent to webhooks one after the other, so that the
retries of one delay the next, and cancelling does not wake `time.Sleep`
(`webhook.go:140`, where the comment calls the squares of the attempts exponential); of
several pods of a container the last sample of a query wins, each query for
itself, so that a P95 can exceed the P99 beside it (`prometheus/client.go:233`), and
their time series are joined one behind the other; `GetTailoring` answers every
error with 404, `DetectArgoCDApp` with success and no application; an application
called `sync` or `refresh` cannot be asked for by its name, since routes look at the last part
of the path (`handlers.go:1446`); handlers give requests for ArgoCD no deadline, so
that through the cluster they have none but the client's leaving, and through ArgoCD's
API the 30 s of its HTTP client for each request (`argocd/client.go:75`), which
`Dashboard` leaves out: `HandlersEnd` speaks of them only once the client has left; keys are read once,
at the start.

## 5. Proofs

TLAPS proves, for all values of the constants allowed by the modules'
assumptions (any number of workloads, pods, containers, any lag, any rails):

| theorem | statement |
|---|---|
| `OOMInterceptorProofs!TypeCorrect` | `Spec => []TypeOK` |
| `OOMInterceptorProofs!NoOOMKilledPodForgotten` | `Spec => []OOMKilledPodStaysScheduled` |
| `OOMInterceptorProofs!UpdatesStayValid` | `Spec => []UpdateStaysValid` |
| `OOMInterceptorProofs!IncreasesDoNotCompound` | `Spec => []NoCompounding` |
| `OOMInterceptorProofs!CooldownHolds` | `Spec => []CooldownGate` |
| `OOMInterceptorProofs!FloorsKept` | `Spec => FloorKept` |
| `OOMInterceptorProofs!PatchesAreAtomic` | `Spec => ImplementsAtomicPatch`: the refinement of `AtomicLimitPatch` |
| `TailoringReconcilerProofs!PercentileWithinMaximum` | no percentile recommendation exceeds the maximum or the quota |
| `TailoringReconcilerProofs!RequestsWithinLimits` | with P95 at most P99, current requests at most current limits and a smaller buffer for requests, recommended requests do not exceed limits |
| `TailoringReconcilerProofs!GradualChangeTooSmall` | with `maxChangePercent` below the threshold no usage makes `ShouldCreateCut` true, for percentile profiles, present requests of 100 units or more that rails and quota allow (`Settled`), and metrics of the target's containers only |
| `TailoringReconcilerProofs!DspRequestAboveMaximum` | of every usage above the maximum the DSP strategy recommends a request above it, beside a limit within it |
| `DSPStrategyProofs!PeaksAreThinned` | `Spec => []PeaksThinned` |
| `DSPStrategyProofs!PeriodIsNeverFound` | `Spec => []UsageHasNoPeriod` |
| `DSPStrategyProofs!OutliersAreRemoved` | `Spec => []OutliersGoAway` |
| `DSPStrategyProofs!ForecastsCover` | `Spec => []ForecastCovers` |
| `DSPStrategyProofs!RecommenderIsRight` | `Spec => []RecommenderAgrees` |
| `TailoringReconcilerProofs!TypeCorrect` | `Spec => []TypeOK` |
| `TailoringReconcilerProofs!NoTailoringForgotten` | `Spec => []TailoringStaysScheduled` |
| `TailoringReconcilerProofs!RailsAlwaysRespected` | `Spec => []RailsRespected`, for profiles other than dsp |
| `TailoringReconcilerProofs!GradualAlwaysFromPublished` | `Spec => []GradualFromPublished`, likewise |
| `TailoringReconcilerProofs!PauseAlwaysWins` | `Spec => PauseWins` |
| `StatusReconcilersProofs!TypeCorrect` | `Spec => []TypeOK` |
| `StatusReconcilersProofs!AtelierNeverForgotten` | `Spec => []AtelierStaysScheduled` |
| `StatusReconcilersProofs!VerdictsAreCurrent` | `Spec => []QuietFitProfileIsJudged` |
| `GitOpsProofs!TypeCorrect` | `Spec => []TypeOK` |
| `GitOpsProofs!NoAcknowledgedCommitLost` | `Spec => []AcknowledgedCommitsStay` |
| `GitOpsProofs!CommitsAreChangesOnTop` | `Spec => ChangesOnTop` |
| `GitOpsProofs!RepositoryInComposition` | `GitOpsSpec => Spec`: ArgoCD takes nothing from the provider's promises |
| `GitOpsProofs!HardRefreshesShow` | `GitOpsSpec => []HardRefreshShows` |
| `GitOpsProofs!OtherWritersAreKept` | `GitOpsSpec => OthersKept` |
| `ManifestsProofs!TypeCorrect` | `Spec => []TypeOK`: files keep to their schema |
| `ManifestsProofs!AskedAlwaysReads` | `Spec => []AskedIsRead`: text and tag of a place give the reader what was asked |
| `ManifestsProofs!NothingElseChanges` | `Spec => OthersKept` |
| `WebhookNotifierProofs!NilMeansAccepted` | `Spec => []AcknowledgedInOrder` |
| `WebhookNotifierProofs!OneWebhookFailsAlone` | `Spec => []FailuresIsolated` |
| `DashboardProofs!OnlyWhatWasAsked` | `Spec => []OperationsAsked` |
| `DashboardProofs!DeadlinesNest` | `Spec => []TimeoutsNest` |
| `DashboardProofs!MetricsAreWhole` | `Spec => []MetricsMerged` |
| `DashboardProofs!ViewsAddUp` | `Spec => []BreakdownsAddUp` |

How.  Type correctness is inductive in the Tailoring model.  In the OOM model
it is not, and `TypeInv` adds that a busy worker has an event
(`BusyHasEvents`); the choice of the first event needs a
least element of a set of naturals (`LeastNatural`).  `TailoringStaysScheduled`
and `OOMKilledPodStaysScheduled` are inductive relative to the type invariant.
`RailsRespected` and `GradualFromPublished` speak of published analyses only and
are not inductive: `AllComputed` says that the draft's and every stored analysis is
what `Recommendations` gives for some usage, some resources, one of the two
profiles and with or without the quota; what the percentile strategy guarantees
then follows from the lemmas on `Recommender`.  The restriction to
profiles other than dsp is needed: finding 5 is the counterexample.  `PauseWins`
needs `Decided`: a fresh draft has the `paused` of the current version, and a
draft about to be written has the decision that belongs to its own `paused`.
`AtelierStaysScheduled` and `QuietFitProfileIsJudged` are inductive together with
what is known of the worker's progress: the draft of a worker that has passed
the validation carries the verdict on the copy it was taken from.  In `GitOps`
the pasts must be well formed (a commit is in its own past, and its past
contains the past of each of its members) and what a call has prepared must
sit on the head it read.  Then a fast forward never loses a commit
(`AcknowledgedCommitsStay` is inductive relative to that), and for `ChangesOnTop`
an accepted update of a branch that nobody rewrote has found the head that was
read: the branch only grew since (`Grows`), the update needs the present head
in the past of the new commit, and pasts order commits antisymmetrically
(`HeadIsWhatWasRead`).  `PeaksThinned` is inductive together with a bound that the loop keeps: every peak that
is kept or dropped is at least as prominent as each that is still to come, and
the three sets are parts of those found.  `PeriodIsNeverFound` needs no arithmetic but
the maximum: the threshold is at least the amplitude of component 0, no amplitude
of a usage exceeds that, so there are no candidates.  `HardRefreshShows` needs that while a hard refresh is pending
the commit it asked for is in the past of the branch.


In the OOM model four more invariants carry four more properties.  `AllValid`: every
version that is around is a valid object, and so is the copy, since a patch
writes its limit to the request as well, if there is one.  `LimitsJustified`: what a pod
was killed with was too small, so are the limits in the events that it became, and so every
limit is a user's or one increase above such a one; that handling an event
again gives the same limit once more is the point.  `CopyIsCurrent`: while
nothing was written since the copy was taken, cache and API server hold one and
the same version and the copy is that version patched; `SameReadCooledDown`
adds that the check has found it outside the cooldown.  They say why the
refinement holds: an accepted Update stores `Patched` of the current object, which
is the step of `AtomicLimitPatch`; every other step is a user's write, a tick or
a stutter there.  `FloorKept` follows from `CopyIsCurrent` step by step: a step copies a limit of the workload to a
pod, of a pod to an event, or of an event, increased, to the workload.

In `WebhookNotifier`, `Inv` says where each caller is: the events it has told are the
first of its plan (`TellsInOrder`), it stands at a webhook that wants the event (`AtHook`), and
requests are only of events that are begun (`SentInv`).  A webhook has therefore seen nothing
later than the event that is being told, and a success is in `seen` for good
(`Receipts`); `AckInv` carries both from webhook to webhook up to the answer of Send.
That retries are bounded is counting: requests of one event to one webhook differ in
their attempt, and each is received at most once (`Counted`).

In `Dashboard` the proof begins with the table of handlers: of which steps each
consists, which timeout it has, and that only two of them have a step that operates
ArgoCD, behind the check of the method (`Served`).  `OperationsAsked` is inductive with
`Unanswered` (nothing is started before the last step, which is the answer), and
`TimeoutsNest` with the ages (`InTime`): a handler is never older than its timeout, and
during the shutdown nothing is younger than the shutdown.  `MetricsMerged`
needs what is true after k queries (`Gathered`).

`BreakdownsAddUp` is about sums, which the community modules define by a choice of a function on
all subsets (`SumFunction`).  `SmallestSubset` -- of the subsets of a finite set that lack a
property one has no smaller one -- takes the place of an induction: the function exists
(`AddingExists`) and is the only one (`AddingUnique`), a sum does not depend on which element comes
first (`SumAdds`), the parts by any key add up to the whole (`PartsAddUp`), and what holds of
each element up to factors holds of the sums (`SumScales`).  With these each view adds up
(`ResourcesDoAddUp`, `NamespaceDoesAddUp`, `CostsDoAddUp`, `ClusterDoesAddUp`,
`SummaryDoesAddUp`): the lines by namespace, pod or container are parts of all lines
(`TotalsByKey`), the last line of each key is at most its part (`LastsOf`), each half of
the shares is at most half of the cost, also after rounding (`HalfOfCost`), and an order by
falling values exists and has fewer above a place than the place says (`SortedFalls`, `FewAbove`).  The
invariant `ViewsInv` says this of every request that holds a view; it is kept because
of the handlers of these paths only the step of the view reads something that is shown
(`ViewSteps`).

In `DSPStrategy` removing outliers is a recursion on the result, which TLA+
defines by a choice: `RemovalRecurs` gives a function that solves the recursion (go back
to the last sample that is no outlier), and the properties of the chosen one follow by
a least counterexample.  The same way a series has a largest sample
(`SequenceBounded`, `Greatest`), and then `ForecastsCover` is arithmetic: the
margin does not reverse an order, and a sample is at its position modulo the
period.  `RecommenderIsRight` runs the constant week through all of it: no
period, a forecast that is zero from the 169th sample on, and the 1369th as the request.

`Manifests` defines ways through a tree, the tree after an update and the trees
after a series of updates by recursion.  The prover has no induction with an
operator for the predicate; `SetInduction` has a set for it, and from it follow that the
functions chosen obey their recursions (`WayRecurs`, `UpdateRecurs`,
`UpdatesRecur`) and what is true of every index.  `UpdatedWay` says what an update makes of every
node of a way: it is as before, or lies on the way to what is written and is `Turned` (by
`Put`, `WithSections` or `updateResourceSection`, depending on how deep it is).  `Grown(a, b, W)` is
what a reader of the files cares about: `b` still keeps to the schema, has every place of
`a`, has each quantity of `W` wherever mappings lead to it, and every other scalar as it
was.  One update grows a file (`UpdateGrows`); so do two that write different places
(`GrownTwice`), hence a series (`UpdatesGrow`), and what is asked for is what is written
(`AskingIsWritten`).  A generated patch is no update of a tree, and that it grows is
proved of its ways (`PatchWay`, `PatchGrows`).  The inductive invariant is `TypeOK`, that a
file is a mapping or a patch that does not exist yet or has no containers (`Rooted`),
`AskedStands`: the text of a place is the one last asked for, wherever mappings lead
there, and `TagsStand`: its tag is the first that it had.  `AskedIsRead` is both together.  It
is not inductive without the schema: a call for another place could turn a scalar into
something else.

`GradualChangeTooSmall` follows a request through buffer, gradual change, rails and
quota: after the gradual change it is less than the threshold away from the present one
(`SmallGradualChange`), and rails and quota, which leave the present one as it is, bring
it no further away (`ClampsApproach`).  Without containers of others nothing else can make a Cut.

Assumptions.  Besides types the modules assume: what users and pods start with is a valid
object; samples are finite sets in which a higher percentile of one container of one pod is not below
a lower one (`SamplesAssumption`: Prometheus computes both from the same data);
windows are any integers; an exporter says no negative number and each thing of a node once
(`TextsAssumption`: a series occurs once in a scrape); an answer of the
allocation API is finite, with any costs (`DataSetsAssumption`); in `Manifests` a file keeps to a schema in which nothing is below a scalar
(`LeavesAssumption`; `Fits`), a document starts as a mapping, since the writers refuse any other
(`StartsAssumption`), one call has one update for a container (`UpdatesAssumption`), wherever
resources are put the schema has a place for them, and one call's containers have different
places (`HomesAssumption`: with one place for two the later one would win); each call of a `Notify...` function builds an event of
its own (`PlanAssumption`); the margin is one that `ValidateParameters` accepts.

What proof attempts have shown.  With a RetryCount below -1 the bound on
attempts was stated too weakly; a window of zero or less is accepted by the API, and
the range of the queries has then no relation to it; a margin below
zero, which makes a FitProfile invalid and is used all the same, puts forecasts
below the past.  The properties and assumptions now say so.

Only model-checked.  All liveness, which is out of the prover's reach.

## 6. What is not modelled

Floating-point mathematics (Fourier transforms, normalisation, confidence): the
models have integers and percentages, and what a library computes is an input or
a choice.  Transport, rendering, logging, log levels and HTTP plumbing; the
half-second in which `Shutdown` polls.  Generated code and CRDs hold no
behaviour; `VPADetected` is constantly false.  Of the GitHub provider the pull
requests, of the ArgoCD client what a sync deploys, and the rules of listing and
detection, which only read; of the writers JSON patches,
files with several documents, anchors, and the text of pull requests; of the
strategies the validation of parameters (a FitProfile is valid or not in
`StatusReconcilers`), their defaults as shown by the dashboard, and charts, which
nothing calls; of the preprocessor `Normalize`, which is off, and `DetectAnomalies`,
which nothing calls; of OpenCost network costs and cluster information, which are
copied and shown.  CLI, UI, tests and Helm charts.

## 7. Plan

1. OOM controller: `Workload`, `AtomicLimitPatch`, `OOMInterceptor` -- done.
2. Tailoring controller: `Recommender`, `TailoringReconciler` -- done.
3. Atelier and FitProfile controllers: `StatusReconcilers` -- done.
4. `GitHubProvider`: branches and commits with other pushers -- done; pull
   requests and their labels to come.
5. `ArgoCDClient`: refreshes and syncs, composed with 4 in `GitOps` -- done; the detection
   rules to come.
6. `WebhookNotifier`: retries, lost answers, cancellation -- done.
7. `Manifests`: YAML trees as functions -- done; JSON patches to come.
8. `PrometheusClient`, `OpenCostClient`, `Preprocessing`, `DSPStrategy` -- done.
9. `Dashboard`: routes, middlewares, timeouts, shutdown -- done.
10. `Composition`: OOM controller and Tailoring controller on one workload -- an
    applied recommendation may take away a limit that an OOM kill raised.

Proofs.  Every safety property that a run checks is a theorem.
