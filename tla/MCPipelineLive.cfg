CONSTANTS
    r1 = r1
    r2 = r2
    e1 = e1
    e2 = e2
    a1 = a1
    a2 = a2
    p1 = p1
    c1 = c1
    None = None
    Run <- OneRun
    Evid <- OneFile
    MaxDay = 2
    Assessment <- TwoAssessments
    Process <- OneProcess
    ProcessOf <- AllInOne
    Control <- OneControl
\* When the run and the assessments are over, nothing is left to do.
CHECK_DEADLOCK FALSE
SPECIFICATION FairSpec
INVARIANTS
    SameDay
    IInv
    VerdictSound
PROPERTIES
    EverythingEnds
