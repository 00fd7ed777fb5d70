-------------------------- MODULE MCOOMInterceptor --------------------------
(* Small instances of OOMInterceptor for TLC. *)
EXTENDS OOMInterceptor, TLC

CONSTANTS w1, p1, p2, app, sidecar

KindDeployment == [w \in Workloads |-> "Deployment"]
OwnerW1        == [p \in Pods |-> w1]
AppFirst       == [c \in Containers |-> IF c = app THEN 1 ELSE 2]
SidecarFirst   == [c \in Containers |-> IF c = app THEN 2 ELSE 1]
Need12         == [c \in Containers |-> 12]
AppNeeds12     == [c \in Containers |-> IF c = app THEN 12 ELSE 0]

PodSymmetry == Permutations(Pods)
=============================================================================
