--------------------------- MODULE StatusReconcilers ---------------------------
(***************************************************************************)
(* The controllers of the two configuration objects,                       *)
(* src/internal/controller/atelier_controller.go and                       *)
(* fitprofile_controller.go.  Both read their object, find facts about it  *)
(* one after the other, count Tailorings and write the status in one       *)
(* Update that the API server refuses when the object has changed.  They   *)
(* differ in the facts (connections, or validity of the spec), in what     *)
(* they count, and in that only the Atelier asks to be called again.       *)
(*                                                                         *)
(* The two do not influence each other, so that a behaviour has one object *)
(* and kind says which.  Neither controller watches Tailorings.            *)
(*                                                                         *)
(* Abstractions: a connection check (secret, client, request) is one step  *)
(* that finds the service reachable or not; a field of the status and the  *)
(* condition beside it always say the same and are one fact; timestamps    *)
(* make an Update a new version unless the second is that of the last.     *)
(***************************************************************************)
EXTENDS Integers, Sequences, FiniteSets

CONSTANTS
    Tailorings,  \* the Tailorings there may be
    Changing,    \* bound: the services whose reachability changes
    Specs,       \* bound: the specs that users write
    MaxLag       \* bound: versions the cache may be behind

Services == {"PrometheusConnected", "GitProviderConnected", "ArgoCDConnected"}
Validity == {"StrategyValid", "ParametersValid"}
Facts    == Services \cup Validity

\* Specs, by what the controllers ask of them.
AtelierSpecs    == {"withArgoCD", "withoutArgoCD"}
FitProfileSpecs == {"valid", "invalidParameters", "unknownStrategy"}

ASSUME ChangingAssumption   == Changing \subseteq Services
ASSUME SpecsAssumption      == Specs \subseteq AtelierSpecs \cup FitProfileSpecs
ASSUME TailoringsAssumption == IsFiniteSet(Tailorings)
ASSUME LagAssumption        == MaxLag \in Nat

VARIABLES
    kind,       \* "Atelier" or "FitProfile"
    versions,   \* the object, from the version the cache holds (first) to the
                \* one the API server holds (last)
    reference,  \* reference[t]: "none" (no such Tailoring), "this" FitProfile
                \* or an "other" one
    reachable,  \* reachable[s]: would a check of s succeed?
    queue,      \* is the object in the workqueue?
    delayed,    \* is it waiting for RequeueAfter or for the retry of an error?
    pc,         \* the worker: "idle", "check", "count", "update"
    left,       \* facts still to be found
    draft,      \* the worker's copy of the object
    fresh       \* is the copy of the latest version?

world  == <<kind, reference, reachable>>
worker == <<pc, left, draft, fresh>>
vars   == <<world, versions, queue, delayed, worker>>

Object == [exists : BOOLEAN,
           spec   : AtelierSpecs \cup FitProfileSpecs,
           fact   : [Facts -> BOOLEAN],
           count  : Nat]

New(spec)    == [exists |-> TRUE, spec |-> spec, fact |-> [f \in Facts |-> FALSE], count |-> 0]
Absent       == [New("valid") EXCEPT !.exists = FALSE]
SpecsOf(k)   == Specs \cap (IF k = "Atelier" THEN AtelierSpecs ELSE FitProfileSpecs)

Cached  == Head(versions)
Current == versions[Len(versions)]

-----------------------------------------------------------------------------
(* The worker. *)

\* The order of the checks in Reconcile.
Checks(spec) ==
    CASE spec = "withArgoCD"    -> <<"PrometheusConnected", "GitProviderConnected", "ArgoCDConnected">>
      [] spec = "withoutArgoCD" -> <<"PrometheusConnected", "GitProviderConnected">>
      [] OTHER                  -> <<"StrategyValid", "ParametersValid">>

\* Validation of a FitProfile.  Parameters of an unknown strategy are invalid.
Valid(spec, fact) ==
    IF fact = "StrategyValid" THEN spec # "unknownStrategy" ELSE spec = "valid"

Outcome(spec, fact) == IF fact \in Services THEN reachable[fact] ELSE Valid(spec, fact)

\* Mutant of Counted: every Tailoring uses the FitProfile.
CountedAll == {t \in Tailorings : reference[t] # "none"}

\* Tailorings that are counted: an Atelier counts all of them.
Counted ==
    {t \in Tailorings : reference[t] = "this" \/ (kind = "Atelier" /\ reference[t] = "other")}

Done == pc' = "idle" /\ left' = <<>> /\ draft' = Absent /\ fresh' = FALSE

\* Reconcile begins: read the object.  A deleted one is not asked for again.
Start ==
    /\ pc = "idle" /\ queue
    /\ queue' = FALSE
    /\ IF Cached.exists
       THEN /\ draft' = Cached /\ fresh' = (Len(versions) = 1)
            /\ left' = Checks(Cached.spec)
            /\ pc' = "check"
       ELSE UNCHANGED worker
    /\ UNCHANGED <<world, versions, delayed>>

\* One check and the field and condition it sets.
Check ==
    /\ pc = "check"
    /\ draft' = [draft EXCEPT !.fact[Head(left)] = Outcome(draft.spec, Head(left))]
    /\ left' = Tail(left)
    /\ pc' = IF Len(left) = 1 THEN "count" ELSE "check"
    /\ UNCHANGED <<world, versions, queue, delayed, fresh>>

Count ==
    /\ pc = "count"
    /\ draft' = [draft EXCEPT !.count = Cardinality(Counted)]
    /\ pc' = "update"
    /\ UNCHANGED <<world, versions, queue, delayed, left, fresh>>

\* Mutant of CountFails: the count of a failing List is written.
CountFailsWithMinusOne ==
    /\ pc = "count"
    /\ draft' = [draft EXCEPT !.count = -1]
    /\ pc' = "update"
    /\ UNCHANGED <<world, versions, queue, delayed, left, fresh>>

\* The List fails: logged, and the old count stays.
CountFails ==
    /\ pc = "count"
    /\ pc' = "update"
    /\ UNCHANGED <<world, versions, queue, delayed, left, draft, fresh>>

\* Mutant of Requeued: nobody asks to be called again.
NeverRequeued == delayed

\* After a successful Update: the Atelier returns RequeueAfter.
Requeued == delayed \/ kind = "Atelier"

\* Status().Update succeeds.
UpdateCommits ==
    /\ pc = "update" /\ fresh
    /\ \/ versions' = Append(versions, draft)
       \/ draft = Current /\ UNCHANGED versions
    /\ delayed' = Requeued /\ Done
    /\ UNCHANGED <<world, queue>>

\* Mutant of UpdateFails: the error is logged and not returned.
UpdateFailsForgets ==
    /\ pc = "update"
    /\ Done
    /\ UNCHANGED <<world, versions, queue, delayed>>

\* Status().Update fails: the error is returned and retried after a backoff.
UpdateFails ==
    /\ pc = "update"
    /\ delayed' = TRUE /\ Done
    /\ UNCHANGED <<world, versions, queue>>

Worker == Start \/ Check \/ Count \/ CountFails \/ UpdateCommits \/ UpdateFails

-----------------------------------------------------------------------------
(* controller-runtime. *)

\* The watch delivers the next version; no predicate filters the event.
Informer ==
    /\ Len(versions) > 1
    /\ versions' = Tail(versions)
    /\ queue' = TRUE
    /\ UNCHANGED <<world, delayed, worker>>

TimerExpires ==
    /\ delayed /\ delayed' = FALSE
    /\ queue' = TRUE
    /\ UNCHANGED <<world, versions, worker>>

\* Every ten hours, unless configured otherwise (main.go does not), informers
\* deliver what they hold once more.
Resync ==
    /\ Cached.exists /\ ~queue
    /\ queue' = TRUE
    /\ UNCHANGED <<world, versions, delayed, worker>>

\* The process dies and starts again: what the new List finds is queued.
Restart ==
    /\ versions' = <<Current>>
    /\ queue' = Current.exists /\ delayed' = FALSE
    /\ Done
    /\ UNCHANGED world

-----------------------------------------------------------------------------
(* Users and the cluster. *)

Write(o) ==
    /\ Len(versions) < MaxLag
    /\ versions' = Append(versions, o) /\ fresh' = FALSE
    /\ UNCHANGED <<world, queue, delayed, pc, left, draft>>

Edit   == Current.exists /\ \E s \in SpecsOf(kind) \ {Current.spec} :
                                Write([Current EXCEPT !.spec = s])
Delete == Current.exists /\ Write(Absent)
Create == ~Current.exists /\ \E s \in SpecsOf(kind) : Write(New(s))

ChangeTailoring ==
    /\ \E t \in Tailorings : \E r \in {"none", "this", "other"} \ {reference[t]} :
          reference' = [reference EXCEPT ![t] = r]
    /\ UNCHANGED <<kind, reachable, versions, queue, delayed, worker>>

ChangeService ==
    /\ \E s \in Changing : reachable' = [reachable EXCEPT ![s] = ~@]
    /\ UNCHANGED <<kind, reference, versions, queue, delayed, worker>>

Environment == Edit \/ Delete \/ Create \/ ChangeTailoring \/ ChangeService

-----------------------------------------------------------------------------
Init ==
    /\ kind \in {"Atelier", "FitProfile"}
    /\ \E s \in SpecsOf(kind) : versions = <<New(s)>>
    /\ reference = [t \in Tailorings |-> "none"]
    /\ reachable = [s \in Services |-> TRUE]
    /\ queue = TRUE /\ delayed = FALSE
    /\ pc = "idle" /\ left = <<>> /\ draft = Absent /\ fresh = FALSE

Next == Worker \/ Informer \/ TimerExpires \/ Resync \/ Restart \/ Environment

Spec == Init /\ [][Next]_vars

(***************************************************************************)
(* Fairness: controller-runtime runs the worker, the informer, the timers  *)
(* and the resync, and of the Updates that the API server could accept     *)
(* again and again it accepts some.                                        *)
(***************************************************************************)
Fairness ==
    /\ WF_vars(Worker) /\ SF_vars(UpdateCommits)
    /\ WF_vars(Informer) /\ WF_vars(TimerExpires) /\ WF_vars(Resync)

FairSpec == Spec /\ Fairness

\* Steps of the parts that are expected to keep running.
Regular ==
    \/ Start \/ Check \/ Count \/ UpdateCommits \/ UpdateFails
    \/ Informer \/ TimerExpires \/ Resync

\* What may undo the worker's progress: a step that none of these could take.
Disturbance == (Environment \/ Restart \/ CountFails) /\ ~Regular

-----------------------------------------------------------------------------
(* Properties. *)

TypeOK ==
    /\ kind \in {"Atelier", "FitProfile"}
    /\ versions \in Seq(Object) \ {<<>>}
    /\ reference \in [Tailorings -> {"none", "this", "other"}]
    /\ reachable \in [Services -> BOOLEAN]
    /\ queue \in BOOLEAN /\ delayed \in BOOLEAN
    /\ pc \in {"idle", "check", "count", "update"}
    /\ left \in Seq(Facts) /\ (pc = "check" => left # <<>>)
    /\ draft \in Object /\ fresh \in BOOLEAN

Quiet == ~queue /\ ~delayed /\ pc = "idle" /\ Len(versions) = 1

\* Connections are checked again and again: an Atelier that exists is never
\* left without a timer, an event or a worker that will come back to it.
AtelierStaysScheduled == kind = "Atelier" /\ Current.exists => ~Quiet

\* Nothing is left to be done for a FitProfile only when its status judges the
\* spec it has now: no edit during a validation, lost Update or restart leaves
\* the verdict on an older spec behind.
QuietFitProfileIsJudged ==
    kind = "FitProfile" /\ Current.exists /\ Quiet =>
        \A f \in Validity : Current.fact[f] = Valid(Current.spec, f)

\* What the status should say of the world as it is.  The connection to an
\* ArgoCD that is not used any more is not checked.
Described ==
    Current.exists =>
        /\ Current.count = IF kind = "Atelier"
                           THEN Cardinality({t \in Tailorings : reference[t] # "none"})
                           ELSE Cardinality({t \in Tailorings : reference[t] = "this"})
        /\ \A i \in 1 .. Len(Checks(Current.spec)) :
              LET f == Checks(Current.spec)[i]
              IN  Current.fact[f] = Outcome(Current.spec, f)

\* Unless somebody interferes again and again, the status describes the world
\* in the end and for good, although Tailorings and services are not watched.
\* For the usage count of a FitProfile this takes the resync.
StatusSettles == []<><<Disturbance>>_vars \/ <>[]Described
=============================================================================
