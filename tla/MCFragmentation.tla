-------------------------- MODULE MCFragmentation --------------------------
EXTENDS Fragmentation
CONSTANTS n1, n2
MCTotal == [n \in Nodes |-> IF n = n1 THEN 2 ELSE 1]
MCPrio == <<1, 1, 2>>
MCMps  == <<0, 1, 2>>
MCPartOf == <<1, 1, 2>>
============================================================================
