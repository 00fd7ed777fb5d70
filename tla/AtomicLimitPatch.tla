-------------------------- MODULE AtomicLimitPatch --------------------------
(***************************************************************************)
(* What the OOM interceptor promises the owners of a workload: seen from   *)
(* the API server, a patch is one atomic read-modify-write of the current  *)
(* object.  It changes the memory of one container, stamps the annotation  *)
(* and leaves every other container as its last writer left it.  The Get   *)
(* and the Update of the code are two calls with other writers between     *)
(* them; OOMInterceptor is shown to implement this module.                 *)
(***************************************************************************)
EXTENDS Workload

VARIABLE store   \* store[w]: the object the API server holds

Init ==
    /\ store \in [Workloads -> Object]
    /\ \A w \in Workloads : ResourcesValid(store[w])

\* One container's resources, to whatever values; everything else stays.
UserWrite(w) ==
    \E c \in Template :
        store' = [store EXCEPT ![w] = UserWritten(@, c, store'[w].limit[c],
                                                  store'[w].request[c])]

Delete(w) == store' = [store EXCEPT ![w] = Absent]

\* One container's memory and the annotation, or the annotation alone when the
\* template has no such container.  The annotation holds the time at which the
\* patch was prepared, so it may have some age already.
PatchLimit(w) ==
    /\ Kind[w] \in PatchableKinds
    /\ store[w].exists
    /\ store'[w].age \in 0 .. OOMPatchCooldown
    /\ \/ \E c \in Template :
             /\ store'[w].limit[c] \in Nat
             /\ store' = [store EXCEPT ![w] =
                            [Patched(@, c, store'[w].limit[c]) EXCEPT !.age = store'[w].age]]
       \/ /\ Template # Containers
          /\ store' = [store EXCEPT ![w].age = store'[w].age]

Tick == store' = [w \in Workloads |-> Older(store[w])]

Next ==
    \/ \E w \in Workloads : UserWrite(w) \/ Delete(w) \/ PatchLimit(w)
    \/ Tick

Spec == Init /\ [][Next]_store
=============================================================================
