CONSTANTS
    Nodes = {"a", "b", "c", "d", "e"}
    MaxHeight = 5
    VS_AT <- MCVS_AT
    APP_AT <- MCAPP_AT
    PARAMS_AT <- MCPARAMS_AT
    RESULTS_AT <- MCRESULTS_AT
    DATA_AT <- MCDATA_AT
    Vals = {"v1", "v2"}
    ForgeVS <- MCForgeVS
    FAULTY_FROM <- MCFAULTY_FROM
    TrustingPeriod = 4
    MaxClockDrift = 1
    TrustHeight = 2
    PruningSize = 2
    Modes = {"skipping"}
    Providers <- MCProviders2
    FaultyProviders = {}
    DeadProviders = {}
    MaxTime = 6

SPECIFICATION LCSpec
INVARIANT VerifiedHeaderIsRetained
