CONSTANTS
    github = github
    aws = aws
    j1 = j1
    j2 = j2
    j3 = j3
    k1 = k1
    k2 = k2
    Integration <- MCIntegration
    Job <- MCJob
    JobsOf <- MCJobsOf
    Key <- MCKey
    KeyOf <- MCKeyOf
    PageLists <- ObjectPages
    Concurrency = 2
    Cancellable = TRUE
SPECIFICATION Spec
INVARIANTS
    EveryPageInEvidence
