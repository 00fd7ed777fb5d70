------------------------------ MODULE Workload ------------------------------
(***************************************************************************)
(* The part of a Deployment, StatefulSet or DaemonSet that Sartor's OOM    *)
(* interceptor reads and writes (src/internal/oom/interceptor.go): the     *)
(* memory limit and request of each container of the pod template and the  *)
(* age of the annotation sartor.sartorproj.io/oom-patched.  All operators  *)
(* are pure; OOMInterceptor and AtomicLimitPatch share them.               *)
(*                                                                         *)
(* Data that the properties do not tell apart is left out: CPU resources,  *)
(* the three informational annotations of a Deployment, names, namespaces. *)
(***************************************************************************)
EXTENDS Naturals

CONSTANTS
    Workloads,             \* the workloads Sartor may patch
    Kind,                  \* Kind[w]: the workload's Kubernetes kind
    Containers,            \* names of the containers seen in pods
    Template,              \* those the pod template declares; the others are
                           \* injected into pods at admission (sidecars)
    NoLimit,               \* stands for an absent limit, request or MaxMemory
    MemoryIncreasePercent, \* InterceptorConfig.MemoryIncreasePercent
    MaxMemory,             \* InterceptorConfig.MaxMemory, a Nat or NoLimit
    DefaultMemory,         \* the 256Mi given to a container without a limit
    OOMPatchCooldown       \* length of the cooldown, in clock ticks

Kinds == {"Deployment", "StatefulSet", "DaemonSet", "Job"}

\* A memory quantity that may be absent.
Limit == Nat \cup {NoLimit}

ASSUME NoLimitAssumption   == NoLimit \notin Nat
ASSUME KindAssumption      == Kind \in [Workloads -> Kinds]
ASSUME TemplateAssumption  == Template \subseteq Containers
ASSUME PercentAssumption   == MemoryIncreasePercent \in Nat
ASSUME MaxMemoryAssumption == MaxMemory \in Limit
ASSUME DefaultAssumption   == DefaultMemory \in Nat
ASSUME CooldownAssumption  == OOMPatchCooldown \in Nat

(***************************************************************************)
(* age counts the ticks since the time the annotation holds and stops at   *)
(* OOMPatchCooldown, which therefore also stands for "never patched": the  *)
(* code asks the annotation one question only, whether it is younger than  *)
(* the cooldown.                                                           *)
(***************************************************************************)
Object == [exists  : BOOLEAN,
           limit   : [Template -> Limit],
           request : [Template -> Limit],
           age     : 0 .. OOMPatchCooldown]

\* No object: what a Get that finds nothing leaves in the caller's variable.
Absent == [exists |-> FALSE, limit |-> [c \in Template |-> NoLimit],
           request |-> [c \in Template |-> NoLimit], age |-> OOMPatchCooldown]

\* The API server's rule for resources: a request does not exceed its limit.
ResourcesValid(o) ==
    \A c \in Template :
        o.request[c] # NoLimit /\ o.limit[c] # NoLimit => o.request[c] <= o.limit[c]

-----------------------------------------------------------------------------
\* Mutant of Increased: forgets to add the current limit.
IncreaseOnly(bytes) == (bytes * MemoryIncreasePercent) \div 100

\* newBytes := currentBytes + currentBytes*percent/100, before the cap.
Increased(bytes) == bytes + (bytes * MemoryIncreasePercent) \div 100

\* calculateNewMemoryLimit: the default for a nil limit (which the cap does not
\* touch), else the increased limit, cut to MaxMemory when that is configured.
calculateNewMemoryLimit(current) ==
    IF current = NoLimit THEN DefaultMemory
    ELSE IF MaxMemory # NoLimit /\ Increased(current) > MaxMemory
         THEN MaxMemory
         ELSE Increased(current)

\* Mutants of Patched: the request stays; the first container gets the limit.
PatchedLimitOnly(o, c, newLimit) ==
    [o EXCEPT !.limit = [d \in Template |-> IF d = c THEN newLimit ELSE o.limit[d]],
              !.age   = 0]

PatchedFirstContainer(o, c, newLimit) ==
    LET first == CHOOSE d \in Template : TRUE
    IN  [o EXCEPT !.limit[first] = newLimit, !.age = 0]

\* What patchDeployment, patchStatefulSet and patchDaemonSet do to the object
\* they have read.  A container the template does not declare is not found and
\* changes no resources, but the annotation is written all the same.
Patched(o, c, newLimit) ==
    [exists  |-> o.exists,
     limit   |-> [d \in Template |-> IF d = c THEN newLimit ELSE o.limit[d]],
     request |-> [d \in Template |-> IF d = c /\ o.request[d] # NoLimit
                                     THEN newLimit ELSE o.request[d]],
     age     |-> 0]

\* The kinds shouldSkipDueToCooldown has a case for, and those patchWorkload has.
CooldownKinds == {"Deployment", "StatefulSet"}
PatchableKinds == {"Deployment", "StatefulSet", "DaemonSet"}

\* Mutant of shouldSkipDueToCooldown: the cooldown ends a tick early.
CooldownEndsEarly(w, o) ==
    /\ Kind[w] \in CooldownKinds
    /\ o.exists
    /\ o.age + 1 < OOMPatchCooldown

shouldSkipDueToCooldown(w, o) ==
    /\ Kind[w] \in CooldownKinds
    /\ o.exists
    /\ o.age < OOMPatchCooldown

-----------------------------------------------------------------------------
\* What the rest of the world may do to an object.

\* A user, a GitOps sync or another controller sets the resources of one
\* container; annotations stay.  Creating a workload starts without one.
UserWritten(o, c, limit, request) ==
    [o EXCEPT !.exists = TRUE, !.limit[c] = limit, !.request[c] = request]

Older(o) == [o EXCEPT !.age = IF @ < OOMPatchCooldown THEN @ + 1 ELSE @]
=============================================================================
