------------------------- MODULE MCTailoringReconciler -------------------------
(* Small instances of TailoringReconciler for TLC: one or two containers of the
   target, one injected beside them, memory only. *)
EXTENDS TailoringReconciler

CONSTANTS app, sidecar, mesh

Memory(containers, requests, limits) ==
    [c \in containers |-> [r \in Resources |->
        [s \in Sections |-> IF s = "requests" THEN requests ELSE limits]]]

Requests40  == {Memory({app}, 40, 60)}
\* A target that has the injected container, and one that has not and is at rest.
Shapes      == {Memory({app, sidecar}, 40, 60), Memory({app}, 72, 75)}
Usage60     == {Memory(Measured, 60, 80)}
Usage60or55 == {Memory(Measured, 60, 80), Memory(Measured, 55, 80)}
Rails20_80  == [r \in Resources |-> [min |-> 20, max |-> 80]]
Quota75     == [r \in Resources |-> 75]
NoQuotas    == [r \in Resources |-> NoQuantity]

\* Percentile strategy with the default parameters and a lower maximum.
Percentile == [strategy |-> "percentile", buffer |-> NoValues, maxChange |-> NoQuantity,
               method |-> "fft", margin |-> 20,
               override |-> [r \in Resources |-> [min |-> NoQuantity, max |-> 75]]]
=============================================================================
