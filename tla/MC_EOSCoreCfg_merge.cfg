CONSTANTS
    eoscore = eoscore
    other = other
    rpc_size = rpc_size
    belog_size = belog_size
    beseg_size = beseg_size
    v0 = v0
    v1 = v1
    Missing = Missing
    NullDoc = NullDoc
    NoFile = NoFile
    Blank = Blank
    Sections <- MCSections
    Main = eoscore
    OptKeys <- MCOptKeys
    Prompts <- MCPrompts
    Vals <- MCVals
    HasRelease = FALSE
    ReleaseKey = rpc_size
    Defaults <- MCDefaults
    Files <- MCFiles
SPECIFICATION Spec
PROPERTY MergeKeepsOptions
