CONSTANTS
    Nodes = {"a", "b", "c", "d", "e"}
    MaxHeight = 5
    VS_AT <- MCVS_AT
    APP_AT <- MCAPP_AT
    PARAMS_AT <- MCPARAMS_AT
    RESULTS_AT <- MCRESULTS_AT
    DATA_AT <- MCDATA_AT
    Vals = {"v1", "v2"}
    ForgeVS <- MCForgeVS
    FAULTY_FROM <- MCFAULTY_FROM
    TrustingPeriod = 4
    MaxClockDrift = 1
    TrustHeight = 2
    PruningSize = 5
    Modes = {"skipping"}
    Providers <- MCProviders3
    FaultyProviders = {"p1"}
    DeadProviders = {}
    MaxTime = 6
    Kinds = {"consensus_params"}
    RPCFaulty = TRUE
    MaxPerPage = 3
    QueryPaths <- MCQueryPaths
    Keys = {"k1"}
    AbsentKeys = {}
    RegisteredOps = {}
    HeightBits = 4

SPECIFICATION SPSpec
INVARIANT ProviderStateMatchesChain
PROPERTY ProviderCallsReturn
