CONSTANTS
    NULL = NULL
    u1 = u1
    k1 = k1
    k2 = k2
    k3 = k3
    Families = {"contract", "chain", "spec", "build", "bench", "test", "install", "new", "utility", "main", "wallet", "network", "fork", "storage", "config"}
    MaxCalls = 2
    TypeRegistry <- MCTypeRegistry
    ParamTypes <- MCParamTypes
    MaxChainCalls = 2
    ParaIds = {4001, 4002}
    OldId = 2000
    PresetId = 1000
    DockerPolls = 2
    MenuChanges = 1
    ApiLimit = 4
    ReleaseLists <- MCReleaseLists
    Pages = {"p1", "p2"}
    Payloads = {"signed"}
    MaxRequests = 3
    Ups = {u1}
    Cleaners = {k1, k2, k3}
    NodeCount = 2
    ForkedChains <- MCForkedChains
    Txs = {"set_code", "remark"}
    MaxTime = 40
    MaxClock = 2
    MaxBlocks = 4
    MaxAbandoned = 1
    Layouts <- MCLayouts
    Unknown = {"opaque"}
    Cells <- MCCells
    CellValues = {"x"}
    PAGE = 2
    Generics = TRUE
    MaxChanges = 2
    Relays = {"paseo", "polkadot", "kusama"}
    Specifiers <- MCSpecifiers
    Files <- MCFiles
    Repositories <- MCRepositories
    MaxChains = 3
SPECIFICATION CommandsSpec
SYMMETRY Symmetry
CHECK_DEADLOCK FALSE
INVARIANTS
    
    
    PromptedArgumentsFit
    BenchmarkReproducible
    UsersWorkKept
    OneEnvelope
    NoPayloadAfterAnswer
    
    
    
    
