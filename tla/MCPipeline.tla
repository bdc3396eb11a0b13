----------------------------- MODULE MCPipeline -----------------------------
EXTENDS Pipeline, TLC

CONSTANTS r1, r2, e1, e2, a1, a2, p1, c1

OneRun == {r1}
TwoRuns == {r1, r2}
OneFile == {e1}
TwoFiles == {e1, e2}
OneAssessment == {a1}
TwoAssessments == {a1, a2}
OneProcess == {p1}
NoControl == {}
OneControl == {c1}

AllInOne == [a \in Assessment |-> p1]

RunSymmetry == Permutations(Run)
=============================================================================
