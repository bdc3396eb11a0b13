CONSTANTS
    r1 = r1
    r2 = r2
    e1 = e1
    e2 = e2
    a1 = a1
    a2 = a2
    p1 = p1
    c1 = c1
    None = None
    Run <- TwoRuns
    Evid <- TwoFiles
    MaxDay = 1
    Assessment <- OneAssessment
    Process <- OneProcess
    ProcessOf <- AllInOne
    Control <- NoControl
\* When every run and every assessment is over, nothing is left to do.
CHECK_DEADLOCK FALSE
SPECIFICATION Spec
SYMMETRY RunSymmetry
INVARIANTS
    TypeOK
    AttestsOneWholeRun
    NoFalseAlarm
    UndisturbedRunVerifies
    VerifiedIsOneWholeRun
PROPERTIES
    ImplementsAttestation
