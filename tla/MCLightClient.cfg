CONSTANTS
    Nodes = {"a", "b", "c", "d", "e"}
    MaxHeight = 5
    VS_AT <- MCVS_AT
    APP_AT <- MCAPP_AT
    PARAMS_AT <- MCPARAMS_AT
    RESULTS_AT <- MCRESULTS_AT
    DATA_AT <- MCDATA_AT
    Vals = {"v1", "v2"}
    ForgeVS <- MCForgeVS
    FAULTY_FROM <- MCFAULTY_FROM
    TrustingPeriod = 4
    MaxClockDrift = 1
    TrustHeight = 2
    PruningSize = 5
    Modes = {"sequential", "skipping"}
    Providers <- MCProviders3
    FaultyProviders = {"p1", "p2"}
    DeadProviders = {"p3"}
    MaxTime = 6

SPECIFICATION LCSpec
INVARIANT LCTypeOK
PROPERTY LCRefinesAbstract
