-------------------------- MODULE MCHeldPlacement --------------------------
EXTENDS HeldPlacement
CONSTANTS n1, n2, n3
MCNodes == <<n1, n2, n3>>
MCReq == [k \in 1 .. Stream |-> k]
MCEligible == [k \in 1 .. Stream |-> IF k = 1 THEN {n2} ELSE {n1, n2, n3}]
============================================================================
