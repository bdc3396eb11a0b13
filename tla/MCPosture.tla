----------------------------- MODULE MCPosture -----------------------------
EXTENDS Posture, TLC

CONSTANTS a1, a2, p1

TwoAssessments == {a1, a2}
OneReport == {p1}
NoRun == {}
AssessmentSymmetry == Permutations(Assessment)

(* AC-2 and AU-6 are of mapped families, BCD-11.4 is of none. *)
Families == [ac2 |-> "AC", ac3 |-> "AC", au6 |-> "AU", bcd11 |-> "BCD"]
Csf == [AC |-> "Protect", AU |-> "Detect", RA |-> "Identify"]

Finding(c, v, n) == [control |-> c, verdict |-> v, confidence |-> n]
Outcomes ==
    {<<Finding("ac2", "COMPLIANT", 100), Finding("ac3", "NON_COMPLIANT", 60),
       Finding("au6", "FAILED", 0), Finding("bcd11", "NON_COMPLIANT", 100)>>,
     <<>>}
=============================================================================
