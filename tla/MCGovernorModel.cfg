SPECIFICATION Spec
CONSTANTS
    Control = {"AC-1", "AC.1"}
    Provider = {"gcp", "aws"}
    Active = {"gcp"}
    MaxRuns = 1
    MaxRetries = 2
    Configured <- BothTiers
    Limited <- PrimaryOnly
    ModelOf <- OwnModels
    Serves <- OneServes
    Catalogs <- ShortCatalogs
    Extractions <- TwoExtractions
    FileOf <- SharedFile
INVARIANT
    EachTierAskedForItsModel
CHECK_DEADLOCK FALSE
