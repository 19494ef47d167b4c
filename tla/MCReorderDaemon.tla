-------------------------- MODULE MCReorderDaemon --------------------------
EXTENDS ReorderDaemon
MCReq == [j \in Jobs |-> IF j = 1 THEN 2 ELSE 1]
============================================================================
