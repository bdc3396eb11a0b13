SPECIFICATION Spec
CONSTANTS
    u1 = u1
    u2 = u2
    None = None
    Url <- MCUrl
    Start = u1
    MaxPages = 2
    MaxRetries = 3
    BaseBackoff = 2
    JobTimeout = 16
    ClientTimeout = 5
    Latencies = {1}
    RetryAfters = {0, 3, 20}
    SignerTimes = {0, 2}
INVARIANT SkipMeansNoCredentials
