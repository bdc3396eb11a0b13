------------------------------ MODULE Insights ------------------------------
(***************************************************************************)
(* What jula-posture makes of the findings in a ledger                     *)
(* (reporter/internal/insights): counts by control family, by CSF function *)
(* and by degree of automation, the families whose risk is simulated, and  *)
(* the trend over several ledgers.                                         *)
(*                                                                         *)
(* An entry has a control, a verdict, a confidence in percent and the day  *)
(* of its evaluation.  Rates and scores are quotients of the counts, and   *)
(* losses are random numbers; neither is here.                             *)
(***************************************************************************)
EXTENDS Integers, Sequences, FiniteSets, Functions

CONSTANTS
    FamilyOf,       \* extractFamily: the letters a control ID begins with
    CsfMapping      \* csfMapping: the CSF function of some of the families

CsfFunction == {"Identify", "Protect", "Detect", "Respond", "Recover"}

ASSUME CsfAssumption == \A f \in DOMAIN CsfMapping : CsfMapping[f] \in CsfFunction

(* FAILED, like NON_COMPLIANT, is not compliant. *)
Compliant(entry) == entry.verdict = "COMPLIANT"
Failing(entry) == ~Compliant(entry)

(* Passed and failed among the entries at the places in group. *)
Tally(entries, group) ==
    [passed |-> Cardinality({i \in group : Compliant(entries[i])}),
     failed |-> Cardinality({i \in group : Failing(entries[i])})]

Family(entry) == FamilyOf[entry.control]

FamiliesIn(entries) == {Family(entries[i]) : i \in DOMAIN entries}

OfFamily(entries, f) == {i \in DOMAIN entries : Family(entries[i]) = f}

(* Fault: only NON_COMPLIANT counts as failed. *)
ComputeSummaryOfDecided(entries) ==
    LET Decided(e) == e.verdict \in {"COMPLIANT", "NON_COMPLIANT"}
        decided == SelectSeq(entries, Decided)
    IN  [total |-> Len(entries),
         counts |-> Tally(decided, DOMAIN decided),
         families |-> [f \in FamiliesIn(decided) |->
                         Tally(decided, OfFamily(decided, f))]]

ComputeSummary(entries) ==
    [total |-> Len(entries),
     counts |-> Tally(entries, DOMAIN entries),
     families |-> [f \in FamiliesIn(entries) |->
                     Tally(entries, OfFamily(entries, f))]]

ComputeCoverage(entries) ==
    LET Places(S) == {i \in DOMAIN entries : entries[i].confidence \in S}
        fully == {i \in DOMAIN entries : entries[i].confidence >= 100}
    IN  [fully |-> Cardinality(fully),
         partially |-> Cardinality(Places(1..99)),
         manual |-> Cardinality(DOMAIN entries \ (fully \cup Places(1..99)))]

(* Fault: a family that is not mapped counts nowhere. *)
CsfFunctionOfMapped(family) ==
    IF family \in DOMAIN CsfMapping THEN CsfMapping[family] ELSE "Other"

(* Families that are not mapped count as Identify. *)
CsfFunctionOf(family) ==
    IF family \in DOMAIN CsfMapping THEN CsfMapping[family] ELSE "Identify"

ComputeMaturity(entries) ==
    [fn \in CsfFunction |->
        Tally(entries, {i \in DOMAIN entries :
                          CsfFunctionOf(Family(entries[i])) = fn})]

(* A family is simulated when a control of it failed, with its number of   *)
(* failures as the factor of the frequency.  FAILED is a failure too,      *)
(* though the comment of the function has only NON_COMPLIANT.              *)
ComputeRisk(entries) ==
    LET Failures(f) == {i \in OfFamily(entries, f) : Failing(entries[i])}
    IN  [f \in {g \in FamiliesIn(entries) : Failures(g) # {}} |->
            Cardinality(Failures(f))]

-----------------------------------------------------------------------------
(* The trend. *)

(* The earliest evaluation in the ledger. *)
ExtractRunDate(entries) ==
    LET dates == {entries[i].evaluatedAt : i \in DOMAIN entries}
    IN  CHOOSE d \in dates : \A e \in dates : d <= e

TrendPoint(entries) ==
    [runDate |-> ExtractRunDate(entries), counts |-> Tally(entries, DOMAIN entries)]

(* A ledger read makes a point when it holds something of the time asked   *)
(* for.  The points are sorted by run date; sort.Slice is not stable, so   *)
(* that those of one date come in any order.                               *)
TrendOrders(readings, cutoff) ==
    LET kept == {i \in DOMAIN readings :
                    /\ readings[i] # <<>>
                    /\ ExtractRunDate(readings[i]) >= cutoff}
    IN  {order \in Bijection(1..Cardinality(kept), kept) :
            \A m, n \in DOMAIN order :
                m < n => ExtractRunDate(readings[order[m]])
                           <= ExtractRunDate(readings[order[n]])}
=============================================================================
