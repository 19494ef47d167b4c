---------------------------- MODULE MCSimulator ----------------------------
EXTENDS Simulator
MCGpuCount == <<1, 3, 1, 2>>
MCMpsReq   == <<1, 2, 1, 2>>
MCRamReq   == <<1, 1, 2, 1>>
MCRam      == <<2, 1>>
MCRuntime  == <<2, 2, 1, 1>>
MCSubmits  == {<<0, 0, 1, 1>>, <<2, 1, 0, 0>>}
MCPool     == <<"gpu", "gpu", "gpu", "cpu">>
MCFixed    == <<NoClass, NoClass, 2, NoClass>>
=============================================================================
