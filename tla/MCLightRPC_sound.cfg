CONSTANTS
    Nodes = {"a", "b", "c", "d", "e"}
    MaxHeight = 5
    VS_AT <- MCVS_AT
    APP_AT <- MCAPP_AT
    PARAMS_AT <- MCPARAMS_AT
    RESULTS_AT <- MCRESULTS_AT
    DATA_AT <- MCDATA_AT
    Vals = {"v1", "v2"}
    ForgeVS <- MCForgeVS
    FAULTY_FROM <- MCFAULTY_FROM
    TrustingPeriod = 4
    MaxClockDrift = 1
    TrustHeight = 2
    PruningSize = 5
    Modes = {"skipping"}
    Providers <- MCProviders2
    FaultyProviders = {"p1"}
    DeadProviders = {}
    MaxTime = 5
    Kinds = {"abci_query", "consensus_params", "block", "block_by_hash", "block_results", "commit", "tx", "blockchain_info"}
    RPCFaulty = TRUE
    MaxPerPage = 3
    QueryPaths <- MCQueryPaths
    Keys = {"k1"}
    AbsentKeys = {}
    RegisteredOps = {}

SPECIFICATION Spec
INVARIANT RepliesMatchChain
