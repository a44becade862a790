-------------------------- MODULE MCResizeInstance --------------------------
(* ResizeInstance with a small and a large flavor, for TLC. *)
EXTENDS ResizeInstance, TLC

MCSize == ("small" :> 1) @@ ("large" :> 2)

\* Nodes are interchangeable, as no operator of ResizeInstance names one. But a
\* symmetry set is of no use for liveness: the instances start on one node.
InitOneNode ==
    Init /\ \A i \in Instances : row[i].host = CHOOSE n \in Nodes : TRUE

FromOneNode == InitOneNode /\ [][Next]_vars /\ Fairness
=============================================================================
