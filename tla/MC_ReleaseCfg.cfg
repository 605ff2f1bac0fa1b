CONSTANTS
    eos_release = eos_release
    other = other
    target_build = target_build
    extra = extra
    v0 = v0
    v1 = v1
    Missing = Missing
    NullDoc = NullDoc
    NoFile = NoFile
    Blank = Blank
    Sections <- MCSections
    Main = eos_release
    OptKeys <- MCOptKeys
    Prompts <- MCPrompts
    Vals <- MCVals
    HasRelease = TRUE
    ReleaseKey = target_build
    Defaults <- MCDefaults
    Files <- MCFiles
SPECIFICATION Spec
INVARIANT TypeOK InteractiveErrorMeansIncompleteFile
PROPERTY KeysOnlyLostThroughFile
