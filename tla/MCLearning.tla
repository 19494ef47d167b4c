----------------------------- MODULE MCLearning -----------------------------
EXTENDS Learning
MCPower  == <<1, 1, 2>>
MCMpsReq == <<1, 2>>
=============================================================================
