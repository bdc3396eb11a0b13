SPECIFICATION FairSpec
CONSTANTS
    Control = {"AC-1", "AC.1"}
    Provider = {"gcp", "aws"}
    Active = {"gcp"}
    MaxRuns = 3
    MaxRetries = 2
    Configured <- BothTiers
    Limited <- PrimaryOnly
    ModelOf <- OwnModels
    Serves <- BothServe
    Catalogs <- ShortCatalogs
    Extractions <- TwoExtractions
    FileOf <- SharedFile
INVARIANTS
    TypeOK
    CallFollowsPolicy
    TriagedOnce
    CompletedImportCovers
    CompletedBuildIsLastApproved
PROPERTIES
    CommandsEnd
CHECK_DEADLOCK FALSE
