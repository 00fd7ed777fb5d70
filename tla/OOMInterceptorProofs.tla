------------------------ MODULE OOMInterceptorProofs ------------------------
(***************************************************************************)
(* Theorems about OOMInterceptor, for any workloads, pods, containers,     *)
(* limits, lengths of the cooldown and lag of the cache.                   *)
(***************************************************************************)
EXTENDS OOMInterceptor, WellFoundedInduction, TLAPS

-----------------------------------------------------------------------------
(* The least of a set of numbers. *)

LEMMA LeastNatural ==
    ASSUME NEW T \in SUBSET Nat, T # {}
    PROVE  \E x \in T : \A y \in T : x <= y
<1>1. PICK x \in T : \A y \in T : <<y, x>> \notin OpToRel(<, Nat)
  BY NatLessThanWellFounded, WFMin
<1>2. ASSUME NEW y \in T PROVE x <= y
  <2>1. x \in Nat /\ y \in Nat
    OBVIOUS
  <2>2. ~(y < x)
    BY <1>1, <2>1 DEF OpToRel
  <2>3. QED
    BY <2>1, <2>2
<1>3. QED
  BY <1>2

-----------------------------------------------------------------------------
(* Lemmas about the operators on objects. *)

LEMMA IncreasedType == \A l \in Nat : Increased(l) \in Nat /\ Increased(l) >= l
<1> SUFFICES ASSUME NEW l \in Nat PROVE Increased(l) \in Nat /\ Increased(l) >= l
  OBVIOUS
<1>1. l * MemoryIncreasePercent \in Nat
  BY PercentAssumption
<1>2. (l * MemoryIncreasePercent) \div 100 \in Nat
  BY <1>1
<1>3. QED
  BY <1>2 DEF Increased

\* calculateNewMemoryLimit always returns a number.
LEMMA NewLimitType == \A l \in Limit : calculateNewMemoryLimit(l) \in Nat
  BY IncreasedType, MaxMemoryAssumption, DefaultAssumption
  DEF calculateNewMemoryLimit, Limit

LEMMA AbsentType == Absent \in Object /\ ResourcesValid(Absent)
  BY CooldownAssumption DEF Absent, Object, ResourcesValid, Limit

LEMMA PatchedType ==
    ASSUME NEW o \in Object, NEW c, NEW l \in Nat
    PROVE  Patched(o, c, l) \in Object
  BY CooldownAssumption DEF Patched, Object, Limit

LEMMA OlderType ==
    ASSUME NEW o \in Object
    PROVE  /\ Older(o) \in Object
           /\ Older(o).exists = o.exists
           /\ Older(o).limit = o.limit /\ Older(o).request = o.request
           /\ o.age = OOMPatchCooldown => Older(o).age = OOMPatchCooldown
  BY CooldownAssumption DEF Older, Object

LEMMA UserWrittenType ==
    ASSUME NEW o \in Object, NEW c \in Template, NEW l \in Limit, NEW r \in Limit
    PROVE  UserWritten(o, c, l, r) \in Object
  BY DEF UserWritten, Object

\* A patch keeps an object valid: the request of the patched container, when it
\* has one, becomes equal to the limit.
LEMMA PatchedValid ==
    ASSUME NEW o \in Object, ResourcesValid(o), NEW c, NEW l \in Nat
    PROVE  ResourcesValid(Patched(o, c, l))
  BY DEF Patched, Object, Limit, ResourcesValid

-----------------------------------------------------------------------------
(* Lemmas about sequences of versions. *)

LEMMA AppendFacts ==
    ASSUME NEW S, NEW s \in Seq(S) \ {<<>>}, NEW o \in S
    PROVE  /\ Append(s, o) \in Seq(S) \ {<<>>}
           /\ Len(Append(s, o)) = Len(s) + 1
           /\ Head(Append(s, o)) = Head(s)
           /\ Append(s, o)[Len(Append(s, o))] = o
           /\ \A i \in 1 .. Len(s) : Append(s, o)[i] = s[i]
  OBVIOUS

LEMMA TailFacts ==
    ASSUME NEW S, NEW s \in Seq(S) \ {<<>>}, Len(s) > 1
    PROVE  /\ Tail(s) \in Seq(S) \ {<<>>}
           /\ Len(Tail(s)) = Len(s) - 1
           /\ Tail(s)[Len(Tail(s))] = s[Len(s)]
           /\ \A i \in 1 .. Len(Tail(s)) : Tail(s)[i] = s[i + 1]
  OBVIOUS

LEMMA OlderVersions ==
    ASSUME NEW s \in Seq(Object) \ {<<>>},
           NEW t, t = [i \in 1 .. Len(s) |-> Older(s[i])]
    PROVE  /\ t \in Seq(Object) \ {<<>>}
           /\ Len(t) = Len(s)
           /\ Head(t) = Older(Head(s))
           /\ t[Len(t)] = Older(s[Len(s)])
           /\ \A i \in 1 .. Len(s) : t[i] = Older(s[i])
<1>1. \A i \in 1 .. Len(s) : Older(s[i]) \in Object
  BY OlderType
<1>2. QED
  BY <1>1

LEMMA VersionTypes ==
    ASSUME TypeOK, NEW w \in Workloads
    PROVE  /\ versions[w] \in Seq(Object) \ {<<>>}
           /\ Cached(w) \in Object /\ Current(w) \in Object
           /\ Len(versions[w]) \in Nat \ {0}
           /\ Len(versions[w]) = 1 => Cached(w) = Current(w)
           /\ \A i \in 1 .. Len(versions[w]) : versions[w][i] \in Object
  BY DEF TypeOK, Cached, Current

-----------------------------------------------------------------------------
(* Every nonempty set of events has a first one. *)

LEMMA EventContainerType ==
    ASSUME TypeOK, DOMAIN events # {}
    PROVE  /\ EventContainer \in DOMAIN events
           /\ EventContainer \in Containers
           /\ events[EventContainer] \in Limit
           /\ NewLimit \in Nat
<1> DEFINE T == {StatusOrder[c] : c \in DOMAIN events}
<1>1. DOMAIN events \subseteq Containers
  BY DEF TypeOK
<1>2. T \in SUBSET Nat /\ T # {}
  BY <1>1, StatusAssumption
<1>3. \E x \in T : \A y \in T : x <= y
  BY <1>2, LeastNatural
<1>4. \E c \in DOMAIN events : \A d \in DOMAIN events : StatusOrder[c] <= StatusOrder[d]
  BY <1>3
<1>5. EventContainer \in DOMAIN events
  BY <1>4, Zenon DEF EventContainer
<1>6. events[EventContainer] \in Limit
  BY <1>5 DEF TypeOK
<1>7. QED
  BY <1>1, <1>5, <1>6, NewLimitType DEF NewLimit

-----------------------------------------------------------------------------
(***************************************************************************)
(* The inductive invariant.  TypeInv is TypeOK with what it needs to be    *)
(* inductive: the worker is busy only while it has an event, so that the   *)
(* event being handled exists.                                             *)
(***************************************************************************)
BusyHasEvents == pc # "idle" => DOMAIN events # {}

TypeInv == TypeOK /\ BusyHasEvents

LEMMA InitialVersions ==
    ASSUME NEW o \in InitialObjects
    PROVE  o \in Object /\ <<o>> \in Seq(Object) \ {<<>>}
<1>1. PICK limit \in [Template -> UserLimits], request \in [Template -> UserRequests] :
          o = [exists |-> TRUE, limit |-> limit, request |-> request,
               age |-> OOMPatchCooldown]
  BY DEF InitialObjects
<1>2. limit \in [Template -> Limit] /\ request \in [Template -> Limit]
  BY UserAssumption
<1>3. o \in Object
  BY <1>1, <1>2, CooldownAssumption DEF Object
<1>4. QED
  BY <1>3

LEMMA PodLimitsType ==
    ASSUME NEW o \in Object PROVE PodLimits(o) \in [Containers -> Limit]
  BY InjectedAssumption DEF PodLimits, Object

LEMMA TypeInit == Init => TypeInv
<1> SUFFICES ASSUME Init PROVE TypeInv
  OBVIOUS
<1>1. versions \in [Workloads -> Seq(Object) \ {<<>>}]
  <2>1. {<<o>> : o \in {x \in InitialObjects : ResourcesValid(x)}} \subseteq Seq(Object) \ {<<>>}
    BY InitialVersions
  <2>2. QED
    BY <2>1 DEF Init
<1>2. ASSUME NEW w \in Workloads PROVE Current(w) \in Object
  BY <1>1, <1>2 DEF Current
<1>3. ASSUME NEW p \in Pods, Owner[p] # NoOwner PROVE Current(Owner[p]) \in Object
  BY <1>2, <1>3, OwnerAssumption
<1>4. pods \in [Pods -> Pod]
  BY <1>3, PodLimitsType, InjectedAssumption DEF Init, Pod
<1>5. QED
  BY <1>1, <1>4, AbsentType DEF Init, TypeInv, TypeOK, BusyHasEvents, NoEvents

\* The parts of the state that NextEvent sets keep their types.
LEMMA NextEventType ==
    ASSUME TypeInv, pc # "idle", NextEvent
    PROVE  /\ DOMAIN events' = DOMAIN events \ {EventContainer}
           /\ DOMAIN events' \subseteq Containers /\ events' \in [DOMAIN events' -> Limit]
           /\ \A c \in DOMAIN events' : events'[c] = events[c]
           /\ draft' \in Object /\ fresh' = FALSE /\ sameRead' = FALSE
           /\ pc' \in {"idle", "cooldown"} /\ delayed' \subseteq Pods
           /\ pc' # "idle" => DOMAIN events' # {}
           /\ pc' = "idle" => cur \in delayed'
           /\ delayed \subseteq delayed'
  BY AbsentType DEF TypeInv, TypeOK, NextEvent

LEMMA PodEventType ==
    ASSUME TypeInv, NEW p \in Pods, NEW pod \in Pod, PodEvent(p, pod)
    PROVE  pods' \in [Pods -> Pod] /\ queue' \subseteq Pods
  BY DEF TypeInv, TypeOK, PodEvent

LEMMA WriteType ==
    ASSUME TypeInv, NEW w \in Workloads, NEW o \in Object, Write(w, o)
    PROVE  TypeInv'
<1>1. versions[w] \in Seq(Object) \ {<<>>}
  BY DEF TypeInv, TypeOK
<1>2. Append(versions[w], o) \in Seq(Object) \ {<<>>}
  BY <1>1, AppendFacts
<1>3. versions' \in [Workloads -> Seq(Object) \ {<<>>}]
  BY <1>2 DEF Write, TypeInv, TypeOK
<1>4. QED
  BY <1>3 DEF Write, TypeInv, TypeOK, BusyHasEvents, worker

LEMMA TypeStep == TypeInv /\ [Next]_vars => TypeInv'
<1> SUFFICES ASSUME TypeInv, [Next]_vars PROVE TypeInv'
  OBVIOUS
<1> USE DEF TypeInv
<1>1. ASSUME NEW p \in Pods, Start(p) PROVE TypeInv'
  <2>1. pods[p] \in Pod
    BY DEF TypeOK
  <2>2. DOMAIN events' \subseteq Containers /\ events' \in [DOMAIN events' -> Limit]
    BY <1>1, <2>1 DEF Start, DetectOOMKilled, Pod
  <2>3. QED
    BY <1>1, <2>2 DEF Start, TypeOK, BusyHasEvents, world, locals
<1>2. CASE Skip
  <2>1. pc # "idle" /\ NextEvent
    BY <1>2 DEF Skip
  <2>2. QED
    BY <1>2, <2>1, NextEventType DEF Skip, TypeOK, BusyHasEvents, world
<1>3. CASE PassCooldown
  BY <1>3 DEF PassCooldown, TypeOK, BusyHasEvents, world
<1>4. CASE ReadAndModify
  <2>1. Owner[cur] \in Workloads
    BY <1>4, OwnerAssumption DEF ReadAndModify, Patchable, TypeOK
  <2>2. NewLimit \in Nat
    BY <1>4, EventContainerType DEF ReadAndModify, BusyHasEvents
  <2>3. draft' \in Object
    BY <1>4, <2>1, <2>2, VersionTypes, PatchedType DEF ReadAndModify
  <2>4. fresh' \in BOOLEAN
    BY <1>4 DEF ReadAndModify
  <2>5. QED
    BY <1>4, <2>3, <2>4 DEF ReadAndModify, TypeOK, BusyHasEvents, world
<1>5. CASE ReadFails
  <2>1. pc # "idle" /\ NextEvent
    BY <1>5 DEF ReadFails
  <2>2. QED
    BY <1>5, <2>1, NextEventType DEF ReadFails, TypeOK, BusyHasEvents, world
<1>6. CASE UpdateCommits
  <2>1. pc # "idle" /\ NextEvent
    BY <1>6 DEF UpdateCommits
  <2>2. versions' \in [Workloads -> Seq(Object) \ {<<>>}]
    <3>1. \A w \in Workloads : Append(versions[w], draft) \in Seq(Object) \ {<<>>}
      BY AppendFacts DEF TypeOK
    <3>2. QED
      BY <1>6, <3>1 DEF UpdateCommits, TypeOK
  <2>3. QED
    BY <1>6, <2>1, <2>2, NextEventType DEF UpdateCommits, TypeOK, BusyHasEvents
<1>7. CASE UpdateFails
  <2>1. pc # "idle" /\ NextEvent
    BY <1>7 DEF UpdateFails
  <2>2. QED
    BY <1>7, <2>1, NextEventType DEF UpdateFails, TypeOK, BusyHasEvents, world
<1>8. ASSUME NEW w \in Workloads, Informer(w) PROVE TypeInv'
  <2>1. Tail(versions[w]) \in Seq(Object) \ {<<>>}
    BY <1>8, TailFacts DEF Informer, TypeOK
  <2>2. QED
    BY <1>8, <2>1 DEF Informer, TypeOK, BusyHasEvents
<1>9. ASSUME NEW p \in Pods, RequeueAfterExpires(p) PROVE TypeInv'
  BY <1>9 DEF RequeueAfterExpires, TypeOK, BusyHasEvents, world, worker
<1>10. CASE Restart
  <2>1. versions' \in [Workloads -> Seq(Object) \ {<<>>}]
    BY <1>10, VersionTypes DEF Restart
  <2>2. QED
    BY <1>10, <2>1, AbsentType DEF Restart, TypeOK, BusyHasEvents, NoEvents
<1>11. ASSUME NEW p \in Pods, NEW c \in Containers, OOMKill(p, c) PROVE TypeInv'
  <2>1. [pods[p] EXCEPT !.oomKilled = @ \cup {c}] \in Pod
    BY DEF TypeOK, Pod
  <2>2. QED
    BY <1>11, <2>1, PodEventType DEF OOMKill, TypeOK, BusyHasEvents, worker
<1>12. ASSUME NEW p \in Pods, NEW c \in Containers, OtherTermination(p, c) PROVE TypeInv'
  <2>1. [pods[p] EXCEPT !.oomKilled = @ \ {c}] \in Pod
    BY DEF TypeOK, Pod
  <2>2. QED
    BY <1>12, <2>1, PodEventType DEF OtherTermination, TypeOK, BusyHasEvents, worker
<1>13. ASSUME NEW p \in Pods, Replace(p) PROVE TypeInv'
  <2>1. Current(Owner[p]) \in Object
    BY <1>13, OwnerAssumption, VersionTypes DEF Replace
  <2>2. [limit |-> PodLimits(Current(Owner[p])), oomKilled |-> {}] \in Pod
    BY <2>1, PodLimitsType DEF Pod
  <2>3. QED
    BY <1>13, <2>2, PodEventType DEF Replace, TypeOK, BusyHasEvents, worker
<1>14. ASSUME NEW w \in Workloads, StatusWrite(w) PROVE TypeInv'
  BY <1>14, VersionTypes, WriteType DEF StatusWrite
<1>15. ASSUME NEW w \in UserWorkloads, UserWrite(w) \/ Delete(w) PROVE TypeInv'
  <2>1. w \in Workloads
    BY UserAssumption
  <2>2. CASE UserWrite(w)
    <3>1. PICK c \in Template, l \in UserLimits, r \in UserRequests :
              Write(w, UserWritten(Current(w), c, l, r))
      BY <2>2 DEF UserWrite
    <3>2. UserWritten(Current(w), c, l, r) \in Object
      BY <2>1, UserAssumption, VersionTypes, UserWrittenType
    <3>3. QED
      BY <2>1, <3>1, <3>2, WriteType
  <2>3. CASE Delete(w)
    BY <2>1, <2>3, AbsentType, WriteType DEF Delete
  <2>4. QED
    BY <1>15, <2>2, <2>3
<1>16. CASE Tick
  <2>1. \A w \in Workloads : [i \in 1 .. Len(versions[w]) |-> Older(versions[w][i])]
                                \in Seq(Object) \ {<<>>}
    BY OlderVersions DEF TypeOK
  <2>2. versions' \in [Workloads -> Seq(Object) \ {<<>>}]
    BY <1>16, <2>1 DEF Tick
  <2>3. QED
    BY <1>16, <2>2, OlderType DEF Tick, TypeOK, BusyHasEvents
<1>17. CASE UNCHANGED vars
  BY <1>17 DEF vars, TypeOK, BusyHasEvents
<1>18. QED
  BY <1>1, <1>2, <1>3, <1>4, <1>5, <1>6, <1>7, <1>8, <1>9, <1>10, <1>11, <1>12,
     <1>13, <1>14, <1>15, <1>16, <1>17
  DEF Next, Worker, Cluster, UserStep

\* Type correctness, for every value of the constants.
THEOREM TypeCorrect == Spec => []TypeOK
<1>1. Spec => []TypeInv
  BY TypeInit, TypeStep, PTL DEF Spec
<1>2. TypeInv => TypeOK
  BY DEF TypeInv
<1>3. QED
  BY <1>1, <1>2, PTL

-----------------------------------------------------------------------------
(* A pod with an OOM-killed container is never forgotten. *)

LEMMA ScheduledStep ==
    TypeInv /\ OOMKilledPodStaysScheduled /\ [Next]_vars => OOMKilledPodStaysScheduled'
<1> SUFFICES ASSUME TypeInv, OOMKilledPodStaysScheduled, [Next]_vars,
                    NEW q \in Pods, Watched(pods[q])'
             PROVE  q \in queue' \cup delayed' \/ (pc' # "idle" /\ cur' = q)
  BY DEF OOMKilledPodStaysScheduled
<1> DEFINE Scheduled == q \in queue \cup delayed \/ (pc # "idle" /\ cur = q)
<1>1. Watched(pods[q]) => Scheduled
  BY DEF OOMKilledPodStaysScheduled
<1>2. ASSUME NEW p \in Pods, Start(p)
      PROVE  q \in queue' \cup delayed' \/ (pc' # "idle" /\ cur' = q)
  <2>1. Scheduled
    BY <1>1, <1>2 DEF Start, world
  <2>2. q = p => DOMAIN events' # {}
    BY <1>2 DEF Start, world, Watched, DetectOOMKilled
  <2>3. QED
    BY <1>2, <2>1, <2>2 DEF Start
<1>3. ASSUME pc # "idle", NextEvent, UNCHANGED <<pods, queue, cur>>
      PROVE  q \in queue' \cup delayed' \/ (pc' # "idle" /\ cur' = q)
  BY <1>1, <1>3, NextEventType
<1>4. CASE Skip \/ ReadFails \/ UpdateCommits \/ UpdateFails
  BY <1>3, <1>4 DEF Skip, ReadFails, UpdateCommits, UpdateFails, world
<1>5. CASE PassCooldown \/ ReadAndModify
  BY <1>1, <1>5 DEF PassCooldown, ReadAndModify, world
<1>6. ASSUME NEW p \in Pods, NEW pod, PodEvent(p, pod), UNCHANGED <<delayed, pc, cur>>
      PROVE  q \in queue' \cup delayed' \/ (pc' # "idle" /\ cur' = q)
  <2>1. CASE q = p
    BY <1>6, <2>1 DEF PodEvent, TypeInv, TypeOK
  <2>2. CASE q # p
    BY <1>1, <1>6, <2>2 DEF PodEvent, TypeInv, TypeOK
  <2>3. QED
    BY <2>1, <2>2
<1>7. ASSUME NEW p \in Pods, NEW c \in Containers, OOMKill(p, c) \/ OtherTermination(p, c)
      PROVE  q \in queue' \cup delayed' \/ (pc' # "idle" /\ cur' = q)
  BY <1>6, <1>7 DEF OOMKill, OtherTermination, worker
<1>8. ASSUME NEW p \in Pods, Replace(p)
      PROVE  q \in queue' \cup delayed' \/ (pc' # "idle" /\ cur' = q)
  BY <1>6, <1>8 DEF Replace, worker
<1>9. ASSUME NEW p \in Pods, RequeueAfterExpires(p)
      PROVE  q \in queue' \cup delayed' \/ (pc' # "idle" /\ cur' = q)
  BY <1>1, <1>9 DEF RequeueAfterExpires, world, worker
<1>10. ASSUME NEW w, Informer(w) \/ StatusWrite(w) \/ UserWrite(w) \/ Delete(w)
       PROVE  q \in queue' \cup delayed' \/ (pc' # "idle" /\ cur' = q)
  BY <1>1, <1>10 DEF Informer, StatusWrite, UserWrite, Delete, Write, worker
<1>11. CASE Restart
  BY <1>11 DEF Restart
<1>12. CASE Tick \/ UNCHANGED vars
  BY <1>1, <1>12 DEF Tick, vars
<1>13. QED
  BY <1>2, <1>4, <1>5, <1>7, <1>8, <1>9, <1>10, <1>11, <1>12
  DEF Next, Worker, Cluster, UserStep

\* No failed patch, conflict, cooldown or restart makes the controller lose a
\* pod whose container was OOM-killed.
THEOREM NoOOMKilledPodForgotten == Spec => []OOMKilledPodStaysScheduled
<1>1. Init => OOMKilledPodStaysScheduled
  BY DEF Init, OOMKilledPodStaysScheduled, Watched
<1>2. Init => TypeInv
  BY TypeInit
<1>3. TypeInv /\ OOMKilledPodStaysScheduled /\ [Next]_vars
          => TypeInv' /\ OOMKilledPodStaysScheduled'
  BY TypeStep, ScheduledStep
<1>4. QED
  BY <1>1, <1>2, <1>3, PTL DEF Spec

-----------------------------------------------------------------------------
(* Where versions and drafts come from. *)

\* A worker that sends an Update has found the workload to be of a kind it patches.
OwnerFound ==
    pc = "update" => Owner[cur] \in Workloads /\ Kind[Owner[cur]] \in PatchableKinds

LEMMA OwnerFoundStep == TypeInv /\ OwnerFound /\ [Next]_vars => OwnerFound'
<1> SUFFICES ASSUME TypeInv, OwnerFound, [Next]_vars, pc' = "update"
             PROVE  Owner[cur'] \in Workloads /\ Kind[Owner[cur']] \in PatchableKinds
  BY DEF OwnerFound
<1>1. CASE ReadAndModify
  BY <1>1, OwnerAssumption DEF ReadAndModify, Patchable, TypeInv, TypeOK
<1>2. CASE pc = "update" /\ cur' = cur
  BY <1>2 DEF OwnerFound
<1>3. ReadAndModify \/ (pc = "update" /\ cur' = cur)
  BY DEF Next, Worker, Cluster, UserStep, Start, Skip, PassCooldown, ReadFails, UpdateCommits,
         UpdateFails, NextEvent, Informer, RequeueAfterExpires, Restart, OOMKill,
         OtherTermination, Replace, UserWrite, Delete, StatusWrite, Write, Tick, vars, worker
<1>4. QED
  BY <1>1, <1>2, <1>3

\* A draft is the patched copy of what the cache holds, and gets older.
LEMMA DraftStep ==
    ASSUME TypeInv, [Next]_vars, pc' = "update"
    PROVE  /\ UNCHANGED <<cur, events>>
           /\ \/ pc = "update" /\ draft' \in {draft, Older(draft)}
              \/ ReadAndModify
  BY DEF Next, Worker, Cluster, UserStep, Start, Skip, PassCooldown, ReadAndModify, ReadFails,
         UpdateCommits, UpdateFails, NextEvent, Informer, RequeueAfterExpires, Restart, OOMKill,
         OtherTermination, Replace, UserWrite, Delete, StatusWrite, Write, Tick, vars, worker

\* What a step makes of the versions of a workload.
KeptOrOlder(w, o) == \E i \in 1 .. Len(versions[w]) : o \in {versions[w][i], Older(versions[w][i])}

UserWrote(w, o) ==
    \E c \in Template, l \in UserLimits, r \in UserRequests :
        o = UserWritten(Current(w), c, l, r) /\ ResourcesValid(o)

LEMMA WrittenVersion ==
    ASSUME TypeInv, NEW w \in Workloads, NEW t, NEW o \in Object,
           t = versions[w] \/ t = Append(versions[w], o), NEW i \in 1 .. Len(t)
    PROVE  KeptOrOlder(w, t[i]) \/ t[i] = o
<1>1. versions[w] \in Seq(Object) \ {<<>>}
  BY DEF TypeInv, TypeOK
<1>2. CASE t = versions[w]
  BY <1>2 DEF KeptOrOlder
<1>3. CASE t = Append(versions[w], o)
  <2>1. i \in 1 .. Len(versions[w]) \/ i = Len(versions[w]) + 1
    BY <1>1, <1>3
  <2>2. QED
    BY <1>1, <1>3, <2>1, AppendFacts DEF KeptOrOlder
<1>4. QED
  BY <1>2, <1>3

LEMMA VersionStep ==
    ASSUME TypeInv, OwnerFound, [Next]_vars, NEW w \in Workloads,
           NEW i \in 1 .. Len(versions'[w])
    PROVE  \/ KeptOrOlder(w, versions'[w][i])
           \/ UpdateCommits /\ w = Owner[cur] /\ versions'[w][i] = draft
           \/ versions'[w][i] = Absent
           \/ UserWrote(w, versions'[w][i])
<1> DEFINE Goal == \/ KeptOrOlder(w, versions'[w][i])
                   \/ UpdateCommits /\ w = Owner[cur] /\ versions'[w][i] = draft
                   \/ versions'[w][i] = Absent
                   \/ UserWrote(w, versions'[w][i])
<1>0. versions[w] \in Seq(Object) \ {<<>>} /\ Current(w) \in Object
  BY VersionTypes DEF TypeInv, TypeOK
<1>1. CASE UNCHANGED versions
  BY <1>1 DEF KeptOrOlder
<1>2. CASE UpdateCommits
  <2>1. Owner[cur] \in Workloads /\ draft \in Object
    BY <1>2 DEF OwnerFound, UpdateCommits, TypeInv, TypeOK
  <2>2. versions'[w] = IF w = Owner[cur] THEN Append(versions[w], draft) ELSE versions[w]
    BY <1>2 DEF UpdateCommits, TypeInv, TypeOK
  <2>3. CASE w = Owner[cur]
    BY <1>2, <2>1, <2>2, <2>3, WrittenVersion
  <2>4. CASE w # Owner[cur]
    BY <2>2, <2>4 DEF KeptOrOlder
  <2>5. QED
    BY <2>3, <2>4
<1>3. ASSUME NEW v \in Workloads, Informer(v) PROVE Goal
  <2>1. CASE w # v
    BY <1>3, <2>1 DEF Informer, KeptOrOlder, TypeInv, TypeOK
  <2>2. CASE w = v
    <3>1. versions'[w] = Tail(versions[w]) /\ Len(versions[w]) > 1
      BY <1>3, <2>2 DEF Informer, TypeInv, TypeOK
    <3>2. versions'[w][i] = versions[w][i + 1] /\ i + 1 \in 1 .. Len(versions[w])
      BY <1>0, <3>1, TailFacts
    <3>3. QED
      BY <3>2 DEF KeptOrOlder
  <2>3. QED
    BY <2>1, <2>2
<1>4. CASE Restart
  <2>1. versions'[w] = <<Current(w)>>
    BY <1>4 DEF Restart
  <2>2. versions'[w][i] = versions[w][Len(versions[w])] /\ Len(versions[w]) \in 1 .. Len(versions[w])
    BY <1>0, <2>1 DEF Current
  <2>3. QED
    BY <2>2 DEF KeptOrOlder
<1>5. ASSUME NEW v \in Workloads, StatusWrite(v) PROVE Goal
  <2>1. versions'[w] = versions[w] \/ versions'[w] = Append(versions[w], Current(w))
    BY <1>5 DEF StatusWrite, Write, TypeInv, TypeOK
  <2>2. KeptOrOlder(w, Current(w))
    BY <1>0 DEF KeptOrOlder, Current
  <2>3. KeptOrOlder(w, versions'[w][i]) \/ versions'[w][i] = Current(w)
    BY <1>0, <2>1, WrittenVersion
  <2>4. QED
    BY <2>2, <2>3
<1>6. CASE UserStep
  <2>1. PICK v \in UserWorkloads : UserWrite(v) \/ Delete(v)
    BY <1>6 DEF UserStep
  <2>2. v \in Workloads /\ Current(v) \in Object
    BY UserAssumption, VersionTypes DEF TypeInv
  <2>3. CASE UserWrite(v)
    <3>1. PICK c \in Template, l \in UserLimits, r \in UserRequests :
             /\ ResourcesValid(UserWritten(Current(v), c, l, r))
             /\ Write(v, UserWritten(Current(v), c, l, r))
      BY <2>3 DEF UserWrite
    <3> DEFINE o == UserWritten(Current(v), c, l, r)
    <3>2. o \in Object
      BY <2>2, UserAssumption, UserWrittenType
    <3>3. versions'[w] = versions[w] \/ (w = v /\ versions'[w] = Append(versions[w], o))
      BY <3>1 DEF Write, TypeInv, TypeOK
    <3>4. UserWrote(v, o)
      BY <3>1 DEF UserWrote
    <3> HIDE DEF o
    <3>5. CASE versions'[w] = versions[w]
      BY <3>5 DEF KeptOrOlder
    <3>6. CASE w = v /\ versions'[w] = Append(versions[w], o)
      BY <3>2, <3>4, <3>6, WrittenVersion
    <3>7. QED
      BY <3>3, <3>5, <3>6
  <2>4. CASE Delete(v)
    <3>1. versions'[w] = versions[w] \/ versions'[w] = Append(versions[w], Absent)
      BY <2>4 DEF Delete, Write, TypeInv, TypeOK
    <3>2. KeptOrOlder(w, versions'[w][i]) \/ versions'[w][i] = Absent
      BY <3>1, AbsentType, WrittenVersion
    <3>3. QED
      BY <3>2
  <2>5. QED
    BY <2>1, <2>3, <2>4
<1>7. CASE Tick
  <2>1. versions'[w] = [j \in 1 .. Len(versions[w]) |-> Older(versions[w][j])]
    BY <1>7 DEF Tick
  <2>2. i \in 1 .. Len(versions[w]) /\ versions'[w][i] = Older(versions[w][i])
    BY <1>0, <2>1, OlderVersions
  <2>3. QED
    BY <2>2 DEF KeptOrOlder
<1>8. \/ UNCHANGED versions \/ UpdateCommits \/ UserStep \/ Restart \/ Tick
      \/ \E v \in Workloads : Informer(v) \/ StatusWrite(v)
  BY DEF Next, Worker, Cluster, Start, Skip, PassCooldown, ReadAndModify, ReadFails, UpdateFails,
         RequeueAfterExpires, OOMKill, OtherTermination, Replace, vars, world
<1>9. QED
  BY <1>1, <1>2, <1>3, <1>4, <1>5, <1>6, <1>7, <1>8

-----------------------------------------------------------------------------
(* Every object that is stored or about to be is valid. *)

AllValid ==
    /\ \A w \in Workloads : \A i \in 1 .. Len(versions[w]) : ResourcesValid(versions[w][i])
    /\ pc = "update" => ResourcesValid(draft)

LEMMA OlderValid ==
    ASSUME NEW o \in Object, ResourcesValid(o) PROVE ResourcesValid(Older(o))
  BY OlderType DEF ResourcesValid

LEMMA KeptOrOlderValid ==
    ASSUME TypeInv, AllValid, NEW w \in Workloads, NEW o, KeptOrOlder(w, o)
    PROVE  ResourcesValid(o)
  BY VersionTypes, OlderValid DEF TypeInv, AllValid, KeptOrOlder

LEMMA InitValid == Init => AllValid
<1> SUFFICES ASSUME Init, NEW w \in Workloads, NEW i \in 1 .. Len(versions[w])
             PROVE  ResourcesValid(versions[w][i])
  BY DEF AllValid, Init
<1>1. versions[w] \in {<<o>> : o \in {x \in InitialObjects : ResourcesValid(x)}}
  BY DEF Init
<1>2. PICK o \in InitialObjects : ResourcesValid(o) /\ versions[w] = <<o>>
  BY <1>1
<1>3. QED
  BY <1>2

LEMMA ValidStep == TypeInv /\ OwnerFound /\ AllValid /\ [Next]_vars => AllValid'
<1> SUFFICES ASSUME TypeInv, OwnerFound, AllValid, [Next]_vars PROVE AllValid'
  OBVIOUS
<1>1. ASSUME NEW w \in Workloads, NEW i \in 1 .. Len(versions'[w])
      PROVE  ResourcesValid(versions'[w][i])
  <2>1. CASE KeptOrOlder(w, versions'[w][i])
    BY <2>1, KeptOrOlderValid
  <2>2. CASE UpdateCommits /\ versions'[w][i] = draft
    BY <2>2 DEF UpdateCommits, AllValid
  <2>3. QED
    BY <2>1, <2>2, VersionStep, AbsentType DEF UserWrote
<1>2. ASSUME pc' = "update" PROVE ResourcesValid(draft')
  <2>1. CASE pc = "update" /\ draft' \in {draft, Older(draft)}
    BY <2>1, OlderValid DEF AllValid, TypeInv, TypeOK
  <2>2. CASE ReadAndModify
    <3>1. Owner[cur] \in Workloads /\ NewLimit \in Nat
      BY <2>2, OwnerAssumption, EventContainerType
      DEF ReadAndModify, Patchable, TypeInv, TypeOK, BusyHasEvents
    <3>2. Cached(Owner[cur]) \in Object /\ ResourcesValid(Cached(Owner[cur]))
      <4>1. versions[Owner[cur]] \in Seq(Object) \ {<<>>}
        BY <3>1 DEF TypeInv, TypeOK
      <4>2. 1 \in 1 .. Len(versions[Owner[cur]]) /\ Cached(Owner[cur]) = versions[Owner[cur]][1]
        BY <4>1 DEF Cached
      <4>3. QED
        BY <3>1, <4>1, <4>2 DEF AllValid
    <3>3. QED
      BY <2>2, <3>1, <3>2, PatchedValid DEF ReadAndModify
  <2>3. QED
    BY <1>2, <2>1, <2>2, DraftStep
<1>3. QED
  BY <1>1, <1>2 DEF AllValid

LEMMA InvariantsHold == Spec => [](TypeInv /\ OwnerFound)
<1>1. Init => TypeInv /\ OwnerFound
  BY TypeInit DEF Init, OwnerFound
<1>2. TypeInv /\ OwnerFound /\ [Next]_vars => TypeInv' /\ OwnerFound'
  BY TypeStep, OwnerFoundStep
<1>3. QED
  BY <1>1, <1>2, PTL DEF Spec

\* An Update that the API server accepts always stores a valid object.
THEOREM UpdatesStayValid == Spec => []UpdateStaysValid
<1>1. AllValid => UpdateStaysValid
  BY DEF AllValid, UpdateStaysValid
<1>2. QED
  BY <1>1, InvariantsHold, InitValid, ValidStep, PTL DEF Spec

-----------------------------------------------------------------------------
(***************************************************************************)
(* Every limit comes from a user or from one increase.  An increase starts *)
(* from the limit of an event, which is the limit of a pod that was killed *)
(* with it; that this limit was too small has to be carried from the kill  *)
(* through the event into the draft, and from there into every version.    *)
(***************************************************************************)
Justified(c, l) ==
    \/ l \in UserLimits \cup {NoLimit}
    \/ \E k \in Limit : TooSmall(k, c) /\ l = calculateNewMemoryLimit(k)

JustifiedLimits(o) == \A c \in Template : Justified(c, o.limit[c])

LimitsJustified ==
    /\ \A p \in Pods : \A c \in pods[p].oomKilled : TooSmall(pods[p].limit[c], c)
    /\ \A c \in DOMAIN events : TooSmall(events[c], c)
    /\ \A w \in Workloads : \A i \in 1 .. Len(versions[w]) : JustifiedLimits(versions[w][i])
    /\ pc = "update" => JustifiedLimits(draft)

LEMMA InitJustified == Init => LimitsJustified
<1> SUFFICES ASSUME Init PROVE LimitsJustified
  OBVIOUS
<1>1. ASSUME NEW w \in Workloads, NEW i \in 1 .. Len(versions[w])
      PROVE  JustifiedLimits(versions[w][i])
  <2>1. PICK o \in InitialObjects : versions[w] = <<o>>
    BY <1>1 DEF Init
  <2>2. \A c \in Template : o.limit[c] \in UserLimits
    BY DEF InitialObjects
  <2>3. QED
    BY <2>1, <2>2 DEF JustifiedLimits, Justified
<1>2. QED
  BY <1>1 DEF Init, LimitsJustified, NoEvents

LEMMA OldJustified ==
    ASSUME TypeInv, LimitsJustified, NEW w \in Workloads, NEW o, KeptOrOlder(w, o)
    PROVE  JustifiedLimits(o)
  BY VersionTypes, OlderType DEF TypeInv, LimitsJustified, KeptOrOlder, JustifiedLimits

LEMMA UserJustified ==
    ASSUME TypeInv, LimitsJustified, NEW w \in Workloads, NEW o, UserWrote(w, o)
    PROVE  JustifiedLimits(o)
<1>1. PICK c \in Template, l \in UserLimits, r \in UserRequests : o = UserWritten(Current(w), c, l, r)
  BY DEF UserWrote
<1>2. Current(w) \in Object /\ JustifiedLimits(Current(w))
  BY VersionTypes DEF TypeInv, LimitsJustified, Current
<1>3. \A d \in Template : o.limit[d] = IF d = c THEN l ELSE Current(w).limit[d]
  BY <1>1, <1>2 DEF UserWritten, Object
<1>4. QED
  BY <1>2, <1>3 DEF JustifiedLimits, Justified

\* A patch puts one increase above a limit that was too small.
LEMMA PatchJustified ==
    ASSUME TypeInv, LimitsJustified, ReadAndModify
    PROVE  JustifiedLimits(draft')
<1> DEFINE w == Owner[cur]
<1>1. w \in Workloads /\ DOMAIN events # {}
  BY OwnerAssumption DEF ReadAndModify, Patchable, TypeInv, TypeOK, BusyHasEvents
<1>2. versions[w] \in Seq(Object) \ {<<>>} /\ Cached(w) = versions[w][1] /\ 1 \in 1 .. Len(versions[w])
  BY <1>1 DEF TypeInv, TypeOK, Cached
<1>3. JustifiedLimits(Cached(w))
  BY <1>1, <1>2 DEF LimitsJustified
<1>4. /\ EventContainer \in DOMAIN events /\ events[EventContainer] \in Limit
      /\ TooSmall(events[EventContainer], EventContainer)
  BY <1>1, EventContainerType DEF TypeInv, LimitsJustified
<1>5. Justified(EventContainer, NewLimit)
  BY <1>4 DEF Justified, NewLimit
<1>6. \A c \in Template : draft'.limit[c] = IF c = EventContainer THEN NewLimit ELSE Cached(w).limit[c]
  BY DEF ReadAndModify, Patched
<1>7. QED
  BY <1>3, <1>5, <1>6 DEF JustifiedLimits

LEMMA KillsJustifiedStep ==
    ASSUME TypeInv, LimitsJustified, [Next]_vars,
           NEW p \in Pods, NEW c, c \in pods'[p].oomKilled
    PROVE  TooSmall(pods'[p].limit[c], c)
<1>1. /\ pods[p] \in Pod
      /\ c \in pods[p].oomKilled => TooSmall(pods[p].limit[c], c)
  BY DEF TypeInv, TypeOK, LimitsJustified
<1>2. CASE UNCHANGED pods
  <2>1. pods'[p] = pods[p]
    BY <1>2
  <2>2. QED
    BY <1>1, <2>1
<1>3. ASSUME NEW q \in Pods, NEW d \in Containers, OOMKill(q, d)
      PROVE  TooSmall(pods'[p].limit[c], c)
  BY <1>1, <1>3 DEF OOMKill, PodEvent, TypeInv, TypeOK, Pod
<1>4. ASSUME NEW q \in Pods, NEW d \in Containers, OtherTermination(q, d)
      PROVE  TooSmall(pods'[p].limit[c], c)
  BY <1>1, <1>4 DEF OtherTermination, PodEvent, TypeInv, TypeOK, Pod
<1>5. ASSUME NEW q \in Pods, Replace(q)
      PROVE  TooSmall(pods'[p].limit[c], c)
  <2>1. pods'[p] = IF p = q THEN [limit |-> PodLimits(Current(Owner[q])), oomKilled |-> {}]
                   ELSE pods[p]
    BY <1>5 DEF Replace, PodEvent, TypeInv, TypeOK
  <2>2. p # q
    BY <2>1
  <2>3. QED
    BY <1>1, <2>1, <2>2
<1>6. \/ UNCHANGED pods
      \/ \E q \in Pods : Replace(q) \/ \E d \in Containers : OOMKill(q, d) \/ OtherTermination(q, d)
  BY DEF Next, Worker, Cluster, UserStep, Start, Skip, PassCooldown, ReadAndModify, ReadFails,
         UpdateCommits, UpdateFails, Informer, RequeueAfterExpires, Restart, UserWrite, Delete,
         StatusWrite, Write, Tick, vars, world
<1>7. QED
  BY <1>2, <1>3, <1>4, <1>5, <1>6

LEMMA EventsJustifiedStep ==
    ASSUME TypeInv, LimitsJustified, [Next]_vars, NEW c \in DOMAIN events'
    PROVE  TooSmall(events'[c], c)
<1>1. CASE c \in DOMAIN events /\ events'[c] = events[c]
  BY <1>1 DEF LimitsJustified
<1>2. ASSUME NEW p \in Pods, Start(p) PROVE TooSmall(events'[c], c)
  BY <1>2 DEF Start, DetectOOMKilled, LimitsJustified
<1>3. \/ c \in DOMAIN events /\ events'[c] = events[c]
      \/ \E p \in Pods : Start(p)
  BY DEF Next, Worker, Cluster, UserStep, Skip, PassCooldown, ReadAndModify, ReadFails,
         UpdateCommits, UpdateFails, NextEvent, Informer, RequeueAfterExpires, Restart, NoEvents,
         OOMKill, OtherTermination, Replace, UserWrite, Delete, StatusWrite, Write, Tick, vars,
         world, worker
<1>4. QED
  BY <1>1, <1>2, <1>3

LEMMA JustifiedStep ==
    TypeInv /\ OwnerFound /\ LimitsJustified /\ [Next]_vars => LimitsJustified'
<1> SUFFICES ASSUME TypeInv, OwnerFound, LimitsJustified, [Next]_vars PROVE LimitsJustified'
  OBVIOUS
<1>1. ASSUME NEW w \in Workloads, NEW i \in 1 .. Len(versions'[w])
      PROVE  JustifiedLimits(versions'[w][i])
  <2>1. CASE KeptOrOlder(w, versions'[w][i])
    BY <2>1, OldJustified
  <2>2. CASE UpdateCommits /\ versions'[w][i] = draft
    BY <2>2 DEF UpdateCommits, LimitsJustified
  <2>3. CASE UserWrote(w, versions'[w][i])
    BY <2>3, UserJustified
  <2>4. JustifiedLimits(Absent)
    BY DEF JustifiedLimits, Justified, Absent
  <2>5. QED
    BY <2>1, <2>2, <2>3, <2>4, VersionStep
<1>2. ASSUME pc' = "update" PROVE JustifiedLimits(draft')
  <2>1. CASE pc = "update" /\ draft' \in {draft, Older(draft)}
    BY <2>1, OlderType DEF LimitsJustified, JustifiedLimits, TypeInv, TypeOK
  <2>2. QED
    BY <1>2, <2>1, DraftStep, PatchJustified
<1>3. QED
  BY <1>1, <1>2, KillsJustifiedStep, EventsJustifiedStep DEF LimitsJustified

\* However often one OOM kill is handled, for as many pods, after conflicts and
\* restarts: no limit is more than one increase above one that was too small.
THEOREM IncreasesDoNotCompound == Spec => []NoCompounding
<1>1. TypeInv /\ LimitsJustified => NoCompounding
  <2> SUFFICES ASSUME TypeInv, LimitsJustified, NEW w \in Workloads, NEW c \in Template,
                      Current(w).limit[c] \notin UserLimits \cup {NoLimit}
               PROVE  \E l \in {NoLimit} \cup 0 .. Need[c] :
                         TooSmall(l, c) /\ Current(w).limit[c] = calculateNewMemoryLimit(l)
    BY DEF NoCompounding
  <2>1. JustifiedLimits(Current(w))
    BY VersionTypes DEF TypeInv, LimitsJustified, Current
  <2>2. PICK k \in Limit : TooSmall(k, c) /\ Current(w).limit[c] = calculateNewMemoryLimit(k)
    BY <2>1 DEF JustifiedLimits, Justified
  <2>3. Need[c] \in Nat
    BY NeedAssumption, TemplateAssumption
  <2>4. k \in {NoLimit} \cup 0 .. Need[c]
    BY <2>2, <2>3 DEF TooSmall, Limit
  <2>5. QED
    BY <2>2, <2>4
<1>2. QED
  BY <1>1, InvariantsHold, InitJustified, JustifiedStep, PTL DEF Spec
-----------------------------------------------------------------------------
(***************************************************************************)
(* The worker's copy.  While it is fresh, which the API server will check, *)
(* the cache and the API server hold one and the same version of the       *)
(* workload, and the copy is that version with one container patched.  And *)
(* while the cache has stood still since the cooldown was checked, what it *)
(* holds is out of its cooldown.                                           *)
(***************************************************************************)
CopyIsCurrent ==
    fresh => /\ pc = "update"
             /\ Len(versions[Owner[cur]]) = 1
             /\ Current(Owner[cur]).exists
             /\ draft = [Patched(Current(Owner[cur]), EventContainer, NewLimit)
                            EXCEPT !.age = draft.age]

SameReadCooledDown ==
    sameRead =>
        /\ pc \in {"patch", "update"}
        /\ Owner[cur] \in Workloads /\ Kind[Owner[cur]] \in CooldownKinds
           /\ Cached(Owner[cur]).exists => Cached(Owner[cur]).age = OOMPatchCooldown

\* The age of an object does not matter to what a patch makes of it.
LEMMA PatchedOlder ==
    ASSUME NEW o \in Object, NEW c, NEW l
    PROVE  Patched(Older(o), c, l) = Patched(o, c, l)
  BY OlderType DEF Patched

\* What a step may do to a copy that is fresh afterwards, and to the versions
\* of its workload.
LEMMA FreshStep ==
    ASSUME TypeInv, OwnerFound, CopyIsCurrent, [Next]_vars, fresh', ~ReadAndModify
    PROVE  /\ fresh /\ pc' = "update" /\ UNCHANGED <<cur, events>>
           /\ \/ UNCHANGED draft /\ versions'[Owner[cur]] = versions[Owner[cur]]
              \/ /\ draft' = Older(draft)
                 /\ versions'[Owner[cur]] = <<Older(Current(Owner[cur]))>>
<1> DEFINE w == Owner[cur]
           Goal == /\ fresh /\ pc' = "update" /\ UNCHANGED <<cur, events>>
                   /\ \/ UNCHANGED draft /\ versions'[w] = versions[w]
                      \/ draft' = Older(draft) /\ versions'[w] = <<Older(Current(w))>>
<1>1. CASE UNCHANGED <<versions, fresh, pc, cur, events, draft>>
  BY <1>1 DEF CopyIsCurrent
<1>2. ASSUME NEW v \in Workloads, NEW o, Write(v, o) PROVE Goal
  BY <1>2 DEF Write, CopyIsCurrent, OwnerFound, TypeInv, TypeOK, worker
<1>3. ASSUME NEW v \in Workloads, Informer(v) PROVE Goal
  BY <1>3 DEF Informer, CopyIsCurrent, OwnerFound, TypeInv, TypeOK
<1>4. CASE Tick
  <2>1. fresh /\ pc = "update" /\ w \in Workloads /\ Len(versions[w]) = 1
    BY <1>4 DEF Tick, CopyIsCurrent, OwnerFound
  <2>2. versions'[w] = [i \in 1 .. Len(versions[w]) |-> Older(versions[w][i])]
    BY <1>4, <2>1 DEF Tick
  <2>3. versions'[w] = <<Older(Current(w))>>
    BY <2>1, <2>2 DEF Current
  <2>4. QED
    BY <1>4, <2>1, <2>3 DEF Tick
<1>5. \/ UNCHANGED <<versions, fresh, pc, cur, events, draft>>
      \/ \E v \in Workloads : Informer(v) \/ \E o : Write(v, o)
      \/ Tick
  <2>1. ASSUME NEW v \in UserWorkloads, UserWrite(v) \/ Delete(v)
        PROVE  v \in Workloads /\ \E o : Write(v, o)
    BY <2>1, UserAssumption DEF UserWrite, Delete
  <2>2. ASSUME NEW p \in Pods, Start(p) PROVE UNCHANGED fresh /\ pc = "idle"
    BY <2>2 DEF Start, locals
  <2>3. QED
    BY <2>1, <2>2 DEF Next, Worker, Cluster, UserStep, Skip, PassCooldown, ReadFails,
       UpdateCommits, UpdateFails, NextEvent, RequeueAfterExpires, Restart, OOMKill,
       OtherTermination, Replace, StatusWrite, vars, world, worker, CopyIsCurrent
<1>6. QED
  BY <1>1, <1>2, <1>3, <1>4, <1>5

LEMMA CopyIsCurrentStep ==
    TypeInv /\ OwnerFound /\ CopyIsCurrent /\ [Next]_vars => CopyIsCurrent'
<1> SUFFICES ASSUME TypeInv, OwnerFound, CopyIsCurrent, [Next]_vars, fresh'
             PROVE  /\ pc' = "update"
                    /\ Len(versions'[Owner[cur']]) = 1
                    /\ Current(Owner[cur])'.exists
                    /\ draft' = [Patched(Current(Owner[cur])', EventContainer', NewLimit')
                                    EXCEPT !.age = draft'.age]
  BY DEF CopyIsCurrent
<1> DEFINE w == Owner[cur]
<1>1. CASE ReadAndModify
  <2>1. w \in Workloads /\ Len(versions[w]) = 1 /\ Current(w) \in Object
        /\ Cached(w) = Current(w)
    BY <1>1, OwnerAssumption, VersionTypes DEF ReadAndModify, Patchable, TypeInv, TypeOK
  <2>2. UNCHANGED <<versions, cur, events>> /\ pc' = "update"
    BY <1>1 DEF ReadAndModify, world
  <2>3. Current(w)' = Current(w) /\ EventContainer' = EventContainer /\ NewLimit' = NewLimit
    BY <2>2 DEF Current, EventContainer, NewLimit
  <2>4. draft' = Patched(Current(w), EventContainer, NewLimit) /\ Current(w).exists
    BY <1>1, <2>1 DEF ReadAndModify, Patchable
  <2>5. draft' = [Patched(Current(w), EventContainer, NewLimit) EXCEPT !.age = draft'.age]
    BY <2>4 DEF Patched
  <2>6. QED
    BY <2>1, <2>2, <2>3, <2>4, <2>5
<1>2. CASE ~ReadAndModify
  <2>1. /\ fresh /\ pc' = "update" /\ UNCHANGED <<cur, events>>
        /\ \/ UNCHANGED draft /\ versions'[w] = versions[w]
           \/ draft' = Older(draft) /\ versions'[w] = <<Older(Current(w))>>
    BY <1>2, FreshStep
  <2>2. w \in Workloads /\ Current(w) \in Object /\ draft \in Object
    BY <2>1, VersionTypes DEF CopyIsCurrent, OwnerFound, TypeInv, TypeOK
  <2>3. EventContainer' = EventContainer /\ NewLimit' = NewLimit
    BY <2>1 DEF EventContainer, NewLimit
  <2> DEFINE P == Patched(Current(w), EventContainer, NewLimit)
  <2>4. /\ Len(versions[w]) = 1 /\ Current(w).exists
        /\ draft = [P EXCEPT !.age = draft.age]
    BY <2>1 DEF CopyIsCurrent
  <2>5. CASE UNCHANGED draft /\ versions'[w] = versions[w]
    BY <2>1, <2>3, <2>4, <2>5 DEF Current
  <2>6. CASE draft' = Older(draft) /\ versions'[w] = <<Older(Current(w))>>
    <3>1. Len(versions'[w]) = 1 /\ Current(w)' = Older(Current(w))
      <4> DEFINE o == Older(Current(w))
      <4>1. versions'[w] = <<o>> /\ Current(w)' = versions'[w][Len(versions'[w])]
        BY <2>1, <2>6 DEF Current
      <4> HIDE DEF o
      <4>2. Len(versions'[w]) = 1 /\ Current(w)' = o
        BY <4>1
      <4>3. QED
        BY <4>2 DEF o
    <3>2. Current(w)'.exists /\ Patched(Current(w)', EventContainer, NewLimit) = P
      BY <2>2, <2>4, <3>1, OlderType, PatchedOlder
    <3>3. Older(draft) = [P EXCEPT !.age = Older(draft).age]
      BY <2>2, <2>4 DEF Older, Patched, Object
    <3>4. QED
      BY <2>1, <2>3, <2>6, <3>1, <3>2, <3>3
  <2>7. QED
    BY <2>1, <2>5, <2>6
<1>3. QED
  BY <1>1, <1>2
LEMMA SameReadStep ==
    TypeInv /\ SameReadCooledDown /\ [Next]_vars => SameReadCooledDown'
<1> SUFFICES ASSUME TypeInv, SameReadCooledDown, [Next]_vars, sameRead'
             PROVE  /\ pc' \in {"patch", "update"}
                    /\ Owner[cur'] \in Workloads /\ Kind[Owner[cur']] \in CooldownKinds
                       /\ Cached(Owner[cur])'.exists
                           => Cached(Owner[cur])'.age = OOMPatchCooldown
  BY DEF SameReadCooledDown
<1> DEFINE w == Owner[cur]
<1>0. w \in Workloads => w # NoOwner /\ versions[w] \in Seq(Object) \ {<<>>} /\ Cached(w) \in Object
  BY OwnerAssumption, VersionTypes DEF TypeInv
<1>1. UNCHANGED cur /\ pc' \in {"patch", "update"}
      /\ \/ sameRead
         \/ PassCooldown
  <2>1. ASSUME NEW p \in Pods, Start(p) PROVE UNCHANGED sameRead /\ pc = "idle"
    BY <2>1 DEF Start, locals
  <2>2. QED
    BY <2>1 DEF Next, Worker, Cluster, UserStep, Skip, PassCooldown, ReadAndModify, ReadFails,
       UpdateCommits, UpdateFails, NextEvent, Informer, RequeueAfterExpires, Restart, OOMKill,
       OtherTermination, Replace, UserWrite, Delete, StatusWrite, Write, Tick, vars, worker,
       SameReadCooledDown
<1>2. w \in Workloads =>
         \/ versions'[w] = versions[w]
         \/ Tick
         \/ \E o \in Object : versions'[w] = Append(versions[w], o)
  <2>1. ASSUME NEW v \in Workloads, Informer(v), w \in Workloads
        PROVE  versions'[w] = versions[w]
    BY <2>1 DEF Informer, TypeInv, TypeOK
  <2>2. ASSUME NEW v \in Workloads, NEW o \in Object, Write(v, o), w \in Workloads
        PROVE  versions'[w] = versions[w] \/ versions'[w] = Append(versions[w], o)
    BY <2>2 DEF Write, TypeInv, TypeOK
  <2>3. ASSUME NEW v \in Workloads, StatusWrite(v)
        PROVE  \E o \in Object : Write(v, o)
    BY <2>3, VersionTypes DEF StatusWrite, TypeInv
  <2>4. ASSUME NEW v \in UserWorkloads, UserWrite(v) \/ Delete(v)
        PROVE  v \in Workloads /\ \E o \in Object : Write(v, o)
    <3>1. v \in Workloads /\ Current(v) \in Object
      BY UserAssumption, VersionTypes DEF TypeInv
    <3>2. \A c \in Template, l \in UserLimits, r \in UserRequests :
              UserWritten(Current(v), c, l, r) \in Object
      BY <3>1, UserAssumption, UserWrittenType
    <3>3. QED
      BY <2>4, <3>1, <3>2, AbsentType DEF UserWrite, Delete
  <2>5. CASE \/ UNCHANGED versions \/ Tick
             \/ \E v \in Workloads : Informer(v) \/ \E o \in Object : Write(v, o)
    BY <2>1, <2>2, <2>5
  <2>6. \/ UNCHANGED versions \/ Tick
        \/ \E v \in Workloads : Informer(v) \/ \E o \in Object : Write(v, o)
    BY <2>3, <2>4 DEF Next, Worker, Cluster, UserStep, Start, Skip, PassCooldown, ReadAndModify,
       ReadFails, UpdateCommits, UpdateFails, NextEvent, RequeueAfterExpires, Restart, OOMKill,
       OtherTermination, Replace, vars, world
  <2>7. QED
    BY <2>5, <2>6
<1>3. ASSUME w \in Workloads
      PROVE  Cached(w)' \in {Cached(w), Older(Cached(w))}
  <2>1. CASE versions'[w] = versions[w]
    BY <1>1, <2>1 DEF Cached
  <2>2. CASE Tick
    <3>1. versions'[w] = [i \in 1 .. Len(versions[w]) |-> Older(versions[w][i])]
      BY <1>3, <2>2 DEF Tick
    <3>2. Head(versions'[w]) = Older(Head(versions[w]))
      BY <1>0, <1>3, <3>1, OlderVersions
    <3>3. QED
      BY <1>1, <3>2 DEF Cached
  <2>3. ASSUME NEW o \in Object, versions'[w] = Append(versions[w], o)
        PROVE  Cached(w)' = Cached(w)
    <3>1. Head(Append(versions[w], o)) = Head(versions[w])
      BY <1>0, <1>3, AppendFacts
    <3>2. QED
      BY <1>1, <2>3, <3>1 DEF Cached
  <2>4. QED
    BY <1>2, <1>3, <2>1, <2>2, <2>3
<1>4. w \in Workloads /\ Kind[w] \in CooldownKinds /\ Cached(w).exists
         => Cached(w).age = OOMPatchCooldown
  <2>1. CASE sameRead
    BY <2>1 DEF SameReadCooledDown
  <2>2. CASE PassCooldown
    BY <1>0, <2>2, CooldownAssumption DEF PassCooldown, shouldSkipDueToCooldown, Object
  <2>3. QED
    BY <1>1, <2>1, <2>2
<1>5. QED
  BY <1>0, <1>1, <1>3, <1>4, OlderType

LEMMA CopyInvariantsHold == Spec => [](CopyIsCurrent /\ SameReadCooledDown)
<1>1. Init => CopyIsCurrent /\ SameReadCooledDown
  BY DEF Init, CopyIsCurrent, SameReadCooledDown
<1>2. QED
  BY <1>1, InvariantsHold, CopyIsCurrentStep, SameReadStep, PTL DEF Spec

\* A workload is patched inside its cooldown only if the cache moved between
\* the read of the cooldown check and the read of the patch.
THEOREM CooldownHolds == Spec => []CooldownGate
<1>1. TypeInv /\ OwnerFound /\ CopyIsCurrent /\ SameReadCooledDown => CooldownGate
  BY VersionTypes DEF TypeInv, OwnerFound, CopyIsCurrent, SameReadCooledDown, CooldownGate
<1>2. QED
  BY <1>1, InvariantsHold, CopyInvariantsHold, PTL

-----------------------------------------------------------------------------
(* What a step does to the objects that the API server holds. *)

LEMMA NextStore ==
    ASSUME TypeInv, OwnerFound, [Next]_vars
    PROVE  \/ UNCHANGED Store
           \/ UpdateCommits /\ Store' = [Store EXCEPT ![Owner[cur]] = draft]
           \/ Tick /\ Store' = [w \in Workloads |-> Older(Store[w])]
           \/ /\ UserStep
              /\ \E w \in Workloads, c \in Template, l \in Limit, r \in Limit :
                    Store' = [Store EXCEPT ![w] = UserWritten(Store[w], c, l, r)]
           \/ /\ UserStep
              /\ \E w \in Workloads : Store' = [Store EXCEPT ![w] = Absent]
<1> DEFINE Appended(v, o) == versions' = [versions EXCEPT ![v] = Append(@, o)]
<1>0. ASSUME NEW w \in Workloads
      PROVE  /\ versions[w] \in Seq(Object) \ {<<>>} /\ Current(w) \in Object
             /\ Store[w] = Current(w) /\ Store'[w] = versions'[w][Len(versions'[w])]
  BY VersionTypes DEF TypeInv, Store, Current
<1>1. ASSUME NEW v \in Workloads, NEW o \in Object, Appended(v, o)
      PROVE  Store' = [Store EXCEPT ![v] = o]
  <2>1. ASSUME NEW w \in Workloads PROVE Store'[w] = IF w = v THEN o ELSE Store[w]
    <3>1. versions'[w] = IF w = v THEN Append(versions[w], o) ELSE versions[w]
      BY <1>1 DEF TypeInv, TypeOK
    <3>2. Append(versions[w], o)[Len(Append(versions[w], o))] = o
      BY <1>0, AppendFacts
    <3>3. QED
      BY <1>0, <3>1, <3>2 DEF Current
  <2>2. QED
    BY <2>1 DEF Store
<1>2. CASE UNCHANGED versions
  BY <1>2 DEF Store, Current
<1>3. CASE UpdateCommits
  <2>1. Owner[cur] \in Workloads /\ draft \in Object /\ Appended(Owner[cur], draft)
    BY <1>3 DEF UpdateCommits, OwnerFound, TypeInv, TypeOK
  <2>2. QED
    BY <1>1, <1>3, <2>1
<1>4. ASSUME NEW v \in Workloads, Informer(v) PROVE UNCHANGED Store
  <2>1. ASSUME NEW w \in Workloads PROVE Store'[w] = Store[w]
    <3>1. /\ versions'[w] = IF w = v THEN Tail(versions[w]) ELSE versions[w]
          /\ w = v => Len(versions[w]) > 1
      BY <1>4 DEF Informer, TypeInv, TypeOK
    <3>2. QED
      BY <1>0, <3>1, TailFacts DEF Current
  <2>2. QED
    BY <2>1 DEF Store
<1>5. CASE Restart
  <2>1. ASSUME NEW w \in Workloads PROVE Store'[w] = Store[w]
    <3>1. versions'[w] = <<Current(w)>>
      BY <1>5 DEF Restart
    <3>2. QED
      BY <1>0, <3>1
  <2>2. QED
    BY <2>1 DEF Store
<1>6. ASSUME NEW v \in Workloads, StatusWrite(v) PROVE UNCHANGED Store
  <2>1. Appended(v, Current(v))
    BY <1>6 DEF StatusWrite, Write
  <2>2. Store' = [Store EXCEPT ![v] = Store[v]]
    BY <1>0, <1>1, <2>1
  <2>3. QED
    BY <2>2 DEF Store
<1>7. CASE Tick
  <2>1. ASSUME NEW w \in Workloads PROVE Store'[w] = Older(Store[w])
    <3>1. versions'[w] = [i \in 1 .. Len(versions[w]) |-> Older(versions[w][i])]
      BY <1>7 DEF Tick
    <3>2. QED
      BY <1>0, <3>1, OlderVersions DEF Current
  <2>2. QED
    BY <1>7, <2>1 DEF Store
<1>8. ASSUME NEW v \in UserWorkloads, Delete(v)
      PROVE  \E w \in Workloads : Store' = [Store EXCEPT ![w] = Absent]
  <2>1. v \in Workloads /\ Appended(v, Absent)
    BY <1>8, UserAssumption DEF Delete, Write
  <2>2. QED
    BY <1>1, <2>1, AbsentType
<1>9. ASSUME NEW v \in UserWorkloads, UserWrite(v)
      PROVE  \E w \in Workloads, c \in Template, l \in Limit, r \in Limit :
                Store' = [Store EXCEPT ![w] = UserWritten(Store[w], c, l, r)]
  <2>1. PICK c \in Template, l \in UserLimits, r \in UserRequests :
            Write(v, UserWritten(Current(v), c, l, r))
    BY <1>9 DEF UserWrite
  <2>2. v \in Workloads /\ l \in Limit /\ r \in Limit
    BY UserAssumption
  <2>3. UserWritten(Current(v), c, l, r) \in Object
    BY <1>0, <2>2, UserWrittenType
  <2>4. Appended(v, UserWritten(Current(v), c, l, r))
    BY <2>1 DEF Write
  <2>5. Store' = [Store EXCEPT ![v] = UserWritten(Store[v], c, l, r)]
    BY <1>0, <1>1, <2>2, <2>3, <2>4
  <2>6. QED
    BY <2>2, <2>5
<1>10. \/ UNCHANGED versions \/ UpdateCommits \/ Restart \/ Tick \/ UserStep
       \/ \E v \in Workloads : Informer(v) \/ StatusWrite(v)
  BY DEF Next, Worker, Cluster, Start, Skip, PassCooldown, ReadAndModify, ReadFails, UpdateFails,
         RequeueAfterExpires, OOMKill, OtherTermination, Replace, vars, world
<1>11. QED
  BY <1>2, <1>3, <1>4, <1>5, <1>6, <1>7, <1>8, <1>9, <1>10 DEF UserStep
-----------------------------------------------------------------------------
(***************************************************************************)
(* The interceptor implements AtomicLimitPatch.  Only an accepted Update   *)
(* needs more than NextStore: the copy it stores is fresh, so that         *)
(* CopyIsCurrent says which object it was made of.                         *)
(***************************************************************************)
LEMMA SameOperators ==
    /\ Atomic!Object = Object /\ Atomic!Absent = Absent
    /\ Atomic!PatchableKinds = PatchableKinds
    /\ \A o : Atomic!ResourcesValid(o) <=> ResourcesValid(o)
    /\ \A o : Atomic!Older(o) = Older(o)
    /\ \A o, c, l : Atomic!Patched(o, c, l) = Patched(o, c, l)
    /\ \A o, c, l, r : Atomic!UserWritten(o, c, l, r) = UserWritten(o, c, l, r)
  BY DEF Atomic!Object, Object, Atomic!Limit, Limit, Atomic!Absent, Absent,
         Atomic!PatchableKinds, PatchableKinds, Atomic!ResourcesValid, ResourcesValid,
         Atomic!Older, Older, Atomic!Patched, Patched, Atomic!UserWritten, UserWritten

LEMMA InitAtomic == Init => Atomic!Init
<1> SUFFICES ASSUME Init, NEW w \in Workloads
             PROVE  Store[w] \in Object /\ ResourcesValid(Store[w])
  BY SameOperators DEF Atomic!Init, Store
<1>1. PICK o \in InitialObjects : ResourcesValid(o) /\ versions[w] = <<o>>
  BY DEF Init
<1>2. Store[w] = o
  BY <1>1 DEF Store, Current
<1>3. QED
  BY <1>1, <1>2, InitialVersions

LEMMA CommitIsPatch ==
    ASSUME TypeInv, OwnerFound, CopyIsCurrent, UpdateCommits,
           Store' = [Store EXCEPT ![Owner[cur]] = draft]
    PROVE  Atomic!PatchLimit(Owner[cur])
<1> DEFINE w == Owner[cur]
           o == Current(w)
           c == EventContainer
<1>1. /\ w \in Workloads /\ Kind[w] \in PatchableKinds
      /\ o \in Object /\ o.exists
      /\ draft \in Object /\ draft = [Patched(o, c, NewLimit) EXCEPT !.age = draft.age]
  BY VersionTypes DEF UpdateCommits, OwnerFound, CopyIsCurrent, TypeInv, TypeOK
<1>2. c \in Containers /\ NewLimit \in Nat
  BY EventContainerType DEF UpdateCommits, TypeInv, BusyHasEvents
<1>3. Store[w] = o /\ Store'[w] = draft
  BY <1>1 DEF Store
<1>4. draft.age \in 0 .. OOMPatchCooldown
  BY <1>1 DEF Object
<1>5. CASE c \in Template
  <2>1. draft.limit[c] = NewLimit
    BY <1>1, <1>5 DEF Patched
  <2>2. Store' = [Store EXCEPT ![w] = [Patched(@, c, draft.limit[c]) EXCEPT !.age = draft.age]]
    BY <1>1, <1>3, <2>1
  <2>3. QED
    BY <1>1, <1>2, <1>3, <1>4, <1>5, <2>1, <2>2, SameOperators DEF Atomic!PatchLimit
<1>6. CASE c \notin Template
  <2>1. Template # Containers
    BY <1>2, <1>6
  <2>2. draft = [o EXCEPT !.age = draft.age]
    <3>1. /\ draft.exists = o.exists
          /\ draft.limit = [d \in Template |-> o.limit[d]]
          /\ draft.request = [d \in Template |-> o.request[d]]
      BY <1>1, <1>6 DEF Patched
    <3>2. draft.limit = o.limit /\ draft.request = o.request
      BY <1>1, <3>1 DEF Object
    <3>3. QED
      BY <1>1, <3>1, <3>2 DEF Object
  <2>3. Store' = [Store EXCEPT ![w].age = draft.age]
    BY <1>1, <1>3, <2>2
  <2>4. QED
    BY <1>1, <1>3, <1>4, <2>1, <2>3, SameOperators DEF Atomic!PatchLimit
<1>7. QED
  BY <1>5, <1>6

LEMMA UserWrittenFields ==
    ASSUME NEW o \in Object, NEW c \in Template, NEW l, NEW r
    PROVE  UserWritten(o, c, l, r).limit[c] = l /\ UserWritten(o, c, l, r).request[c] = r
  BY DEF UserWritten, Object

LEMMA WriteIsUserWrite ==
    ASSUME TypeInv, NEW w \in Workloads, NEW c \in Template, NEW l \in Limit, NEW r \in Limit,
           Store' = [Store EXCEPT ![w] = UserWritten(Store[w], c, l, r)]
    PROVE  Atomic!UserWrite(w)
<1>1. Store[w] \in Object
  BY VersionTypes DEF TypeInv, Store
<1>2. Store'[w] = UserWritten(Store[w], c, l, r)
  BY DEF Store
<1>3. UserWritten(Store[w], c, l, r).limit[c] = l /\ UserWritten(Store[w], c, l, r).request[c] = r
  BY <1>1, UserWrittenFields
<1>4. QED
  BY <1>2, <1>3, SameOperators DEF Atomic!UserWrite

LEMMA NextAtomic ==
    TypeInv /\ OwnerFound /\ CopyIsCurrent /\ [Next]_vars => [Atomic!Next]_Store
<1> SUFFICES ASSUME TypeInv, OwnerFound, CopyIsCurrent, [Next]_vars
             PROVE  [Atomic!Next]_Store
  OBVIOUS
<1>1. CASE UpdateCommits /\ Store' = [Store EXCEPT ![Owner[cur]] = draft]
  <2>1. Owner[cur] \in Workloads
    BY <1>1 DEF UpdateCommits, OwnerFound
  <2>2. QED
    BY <1>1, <2>1, CommitIsPatch DEF Atomic!Next
<1>2. CASE Store' = [w \in Workloads |-> Older(Store[w])]
  BY <1>2, SameOperators DEF Atomic!Next, Atomic!Tick
<1>3. ASSUME NEW w \in Workloads, NEW c \in Template, NEW l \in Limit, NEW r \in Limit,
             Store' = [Store EXCEPT ![w] = UserWritten(Store[w], c, l, r)]
      PROVE  Atomic!Next
  BY <1>3, WriteIsUserWrite DEF Atomic!Next
<1>4. ASSUME NEW w \in Workloads, Store' = [Store EXCEPT ![w] = Absent]
      PROVE  Atomic!Next
  BY <1>4, SameOperators DEF Atomic!Next, Atomic!Delete
<1>5. QED
  BY <1>1, <1>2, <1>3, <1>4, NextStore

\* The two reads and the write of a patch are one atomic change of the object
\* as it is at the moment of the write, whoever writes in between.
THEOREM PatchesAreAtomic == Spec => ImplementsAtomicPatch
<1>1. Init => Atomic!Init
  BY InitAtomic
<1>2. TypeInv /\ OwnerFound /\ CopyIsCurrent /\ [Next]_vars => [Atomic!Next]_Store
  BY NextAtomic
<1>3. QED
  BY <1>1, <1>2, InvariantsHold, CopyInvariantsHold, PTL
  DEF Spec, ImplementsAtomicPatch, Atomic!Spec

-----------------------------------------------------------------------------
(* The lowest limit in use never falls but by a user's write. *)

\* An increase of at least k is at least k, up to MaxMemory.
LEMMA IncreaseKeeps ==
    ASSUME NEW k \in Nat, MaxMemory # NoLimit => k <= MaxMemory,
           NEW l \in Limit, Bytes(l) >= k
    PROVE  calculateNewMemoryLimit(l) >= k
<1>1. CASE l = NoLimit
  BY <1>1, DefaultAssumption DEF Bytes, calculateNewMemoryLimit
<1>2. CASE l # NoLimit
  <2>1. l \in Nat /\ Increased(l) \in Nat /\ Increased(l) >= k
    BY <1>2, IncreasedType DEF Limit, Bytes
  <2>2. QED
    BY <1>2, <2>1, MaxMemoryAssumption DEF Limit, calculateNewMemoryLimit
<1>3. QED
  BY <1>1, <1>2

LEMMA BytesType == \A l \in Limit : Bytes(l) \in Nat
  BY DEF Bytes, Limit

LEMMA StoredLimitKept ==
    ASSUME TypeInv, OwnerFound, CopyIsCurrent, [Next]_vars, ~UserStep,
           NEW w \in Workloads, NEW c \in Template, NEW k \in Nat,
           MaxMemory # NoLimit => k <= MaxMemory, AllAtLeast(w, c, k)
    PROVE  Bytes(Store'[w].limit[c]) >= k
<1>1. /\ Store[w] = Current(w) /\ Store[w] \in Object
      /\ Bytes(Store[w].limit[c]) >= k
  BY VersionTypes DEF TypeInv, Store, AllAtLeast
<1>2. CASE UNCHANGED Store
  BY <1>1, <1>2
<1>3. CASE Store' = [v \in Workloads |-> Older(Store[v])]
  BY <1>1, <1>3, OlderType
<1>4. CASE UpdateCommits /\ Store' = [Store EXCEPT ![Owner[cur]] = draft]
  <2>1. CASE w # Owner[cur]
    BY <1>1, <1>4, <2>1 DEF Store
  <2>2. CASE w = Owner[cur]
    <3>1. Store'[w] = draft
      BY <1>4, <2>2 DEF Store
    <3>2. draft.limit[c] = IF c = EventContainer THEN NewLimit ELSE Store[w].limit[c]
      <4>1. draft = [Patched(Store[w], EventContainer, NewLimit) EXCEPT !.age = draft.age]
        BY <1>1, <1>4, <2>2 DEF UpdateCommits, CopyIsCurrent
      <4>2. draft.limit = Patched(Store[w], EventContainer, NewLimit).limit
        BY <4>1 DEF Patched
      <4>3. QED
        BY <4>2 DEF Patched
    <3>3. CASE c = EventContainer
      <4>1. DOMAIN events # {}
        BY <1>4 DEF UpdateCommits, TypeInv, BusyHasEvents
      <4>2. c \in DOMAIN events /\ events[c] \in Limit /\ NewLimit \in Nat
        BY <3>3, <4>1, EventContainerType DEF TypeInv
      <4>3. Bytes(events[c]) >= k
        BY <2>2, <4>2 DEF AllAtLeast
      <4>4. NewLimit >= k
        BY <3>3, <4>2, <4>3, IncreaseKeeps DEF NewLimit
      <4>5. Bytes(NewLimit) = NewLimit
        BY <4>2, NoLimitAssumption DEF Bytes
      <4>6. QED
        BY <3>1, <3>2, <3>3, <4>4, <4>5
    <3>4. QED
      BY <1>1, <3>1, <3>2, <3>3
  <2>3. QED
    BY <2>1, <2>2
<1>5. QED
  BY <1>2, <1>3, <1>4, NextStore

LEMMA PodLimitKept ==
    ASSUME TypeInv, [Next]_vars, NEW w \in Workloads, NEW c \in Template, NEW k \in Nat,
           AllAtLeast(w, c, k), NEW p \in Pods, Owner[p] = w
    PROVE  Bytes(pods'[p].limit[c]) >= k
<1>0. c \in Containers /\ pods[p] \in Pod /\ Bytes(pods[p].limit[c]) >= k
  BY TemplateAssumption DEF TypeInv, TypeOK, AllAtLeast
<1>1. CASE UNCHANGED pods
  <2>1. pods'[p] = pods[p]
    BY <1>1
  <2>2. QED
    BY <1>0, <2>1
<1>2. ASSUME NEW q \in Pods, NEW d \in Containers, OOMKill(q, d) \/ OtherTermination(q, d)
      PROVE  Bytes(pods'[p].limit[c]) >= k
  <2>1. pods'[p].limit = pods[p].limit
    BY <1>2 DEF OOMKill, OtherTermination, PodEvent, TypeInv, TypeOK, Pod
  <2>2. QED
    BY <1>0, <2>1
<1>3. ASSUME NEW q \in Pods, Replace(q)
      PROVE  Bytes(pods'[p].limit[c]) >= k
  <2>1. pods'[p] = IF p = q THEN [limit |-> PodLimits(Current(w)), oomKilled |-> {}]
                   ELSE pods[p]
    BY <1>3 DEF Replace, PodEvent, TypeInv, TypeOK
  <2>2. PodLimits(Current(w))[c] = Current(w).limit[c]
    BY <1>0 DEF PodLimits
  <2>3. QED
    BY <1>0, <2>1, <2>2 DEF AllAtLeast
<1>4. \/ UNCHANGED pods
      \/ \E q \in Pods : Replace(q) \/ \E d \in Containers : OOMKill(q, d) \/ OtherTermination(q, d)
  BY DEF Next, Worker, Cluster, UserStep, Start, Skip, PassCooldown, ReadAndModify, ReadFails,
         UpdateCommits, UpdateFails, Informer, RequeueAfterExpires, Restart, UserWrite, Delete,
         StatusWrite, Write, Tick, vars, world
<1>5. QED
  BY <1>1, <1>2, <1>3, <1>4

LEMMA EventLimitKept ==
    ASSUME TypeInv, [Next]_vars, NEW w \in Workloads, NEW c \in Template, NEW k \in Nat,
           AllAtLeast(w, c, k), Owner[cur'] = w, c \in DOMAIN events'
    PROVE  Bytes(events'[c]) >= k
<1>1. CASE cur' = cur /\ c \in DOMAIN events /\ events'[c] = events[c]
  BY <1>1 DEF AllAtLeast
<1>2. ASSUME NEW p \in Pods, Start(p) PROVE Bytes(events'[c]) >= k
  <2>1. Owner[p] = w /\ events'[c] = pods[p].limit[c]
    BY <1>2 DEF Start, DetectOOMKilled
  <2>2. QED
    BY <2>1 DEF AllAtLeast
<1>3. \/ cur' = cur /\ c \in DOMAIN events /\ events'[c] = events[c]
      \/ \E p \in Pods : Start(p)
  BY DEF Next, Worker, Cluster, UserStep, Skip, PassCooldown, ReadAndModify, ReadFails,
         UpdateCommits, UpdateFails, NextEvent, Informer, RequeueAfterExpires, Restart, NoEvents,
         OOMKill, OtherTermination, Replace, UserWrite, Delete, StatusWrite, Write, Tick, vars,
         world, worker
<1>4. QED
  BY <1>1, <1>2, <1>3

\* No step but a user's takes the lowest of a container's limits (in the
\* workload, in its pods, in its events) down, unless to MaxMemory.
THEOREM FloorsKept == Spec => FloorKept
<1> DEFINE Kept == \A w \in Workloads, c \in Template :
          \A k \in {Bytes(Current(w).limit[c])} \cup {Bytes(pods[p].limit[c]) : p \in Pods} :
              /\ ~UserStep
              /\ MaxMemory # NoLimit => k <= MaxMemory
              /\ AllAtLeast(w, c, k)
              => AllAtLeast(w, c, k)'
<1>1. TypeInv /\ OwnerFound /\ CopyIsCurrent /\ [Next]_vars => Kept
  <2> SUFFICES ASSUME TypeInv, OwnerFound, CopyIsCurrent, [Next]_vars,
                      NEW w \in Workloads, NEW c \in Template,
                      NEW k \in {Bytes(Current(w).limit[c])}
                                    \cup {Bytes(pods[p].limit[c]) : p \in Pods},
                      ~UserStep, MaxMemory # NoLimit => k <= MaxMemory, AllAtLeast(w, c, k)
               PROVE  AllAtLeast(w, c, k)'
    OBVIOUS
  <2>1. k \in Nat
    <3>1. c \in Containers /\ Current(w).limit[c] \in Limit
      BY TemplateAssumption, VersionTypes DEF TypeInv, Object
    <3>2. \A p \in Pods : pods[p].limit[c] \in Limit
      BY <3>1 DEF TypeInv, TypeOK, Pod
    <3>3. QED
      BY <3>1, <3>2, BytesType
  <2>2. Bytes(Current(w)'.limit[c]) >= k
    BY <2>1, StoredLimitKept DEF Store
  <2>3. \A p \in Pods : Owner[p] = w => Bytes(pods'[p].limit[c]) >= k
    BY <2>1, PodLimitKept
  <2>4. Owner[cur'] = w /\ c \in DOMAIN events' => Bytes(events'[c]) >= k
    BY <2>1, EventLimitKept
  <2>5. QED
    BY <2>2, <2>3, <2>4 DEF AllAtLeast
<1>2. QED
  BY <1>1, InvariantsHold, CopyInvariantsHold, PTL DEF Spec, FloorKept

=============================================================================
