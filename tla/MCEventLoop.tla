---------------------------- MODULE MCEventLoop ----------------------------
(* Instances of EventLoop for model checking. *)
EXTENDS EventLoop
CONSTANTS p1, p2
\* The name of p2 starts with that of p1 and a dash, so that its pods are p1's.
MCReportedAs == [w \in Watchers |-> [k \in Pools |-> IF w = "pods" THEN p1 ELSE k]]
=============================================================================
