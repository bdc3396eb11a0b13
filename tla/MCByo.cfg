CONSTANTS
    r1 = r1
    r2 = r2
    r3 = r3
    e1 = e1
    a1 = a1
    p1 = p1
    None = None
    Run <- TwoSignings
    Evid <- OneFile
    MaxDay = 2
    Input <- Directories
    NoSchema <- SchemaOff
    Assessment <- OneAssessment
    Process <- OneProcess
    ProcessOf <- AllInOne
    Control <- NoControl
\* When every invocation and the assessment are over, nothing is left to do.
CHECK_DEADLOCK FALSE
SPECIFICATION Spec
INVARIANTS
    TypeOK
    SignedDirectoryVerifies
    GateAdmitsOneInput
