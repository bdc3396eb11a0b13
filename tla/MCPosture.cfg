CONSTANTS
    a1 = a1
    a2 = a2
    p1 = p1
    None = None
    Torn = Torn
    Run <- NoRun
    Evid <- NoRun
    MaxDay = 3
    FamilyOf <- Families
    CsfMapping <- Csf
    Findings <- Outcomes
    Assessment <- TwoAssessments
    Report <- OneReport
    Window = 1
\* When the assessments and the report are over, nothing is left to do.
CHECK_DEADLOCK FALSE
SPECIFICATION Spec
SYMMETRY AssessmentSymmetry
INVARIANTS
    SectionsAgree
    QuietReportAgrees
    TrendComplete
