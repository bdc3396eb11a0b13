------------------------------ MODULE Posture ------------------------------
(***************************************************************************)
(* jula-posture (reporter/cmd/jula-posture) on a local copy of the ledger, *)
(* while assessments write to it.                                          *)
(*                                                                         *)
(* An assessment writes the findings ledger and then the signed verdict of *)
(* a date's directory (assessor/cmd/assessor/main.go, write); the local    *)
(* store first truncates a file and then fills it (objstore/local.go), so  *)
(* that a reader may find it empty.  A report reads the ledger and then    *)
(* the verdict, with nothing to keep writers out; the trend reads the      *)
(* ledgers of all directories one after the other.  The MCP server is a    *)
(* process that runs such a report per tool call.                          *)
(***************************************************************************)
EXTENDS Ledger, Insights

CONSTANTS
    Assessment,     \* the assessments
    Findings,       \* the findings an evaluation may come to, without dates
    Report,         \* the reports asked for: command runs and tool calls
    Window,         \* how many days back a trend goes
    Torn            \* a file that was truncated and is not yet written

(* json.Unmarshal fills LedgerEntry; every control has a family. *)
ASSUME FindingsAssumption ==
    Findings \subseteq
        Seq([control : DOMAIN FamilyOf, verdict : STRING, confidence : Int])
ASSUME WindowAssumption == Window \in Int

VARIABLES
    writePc,    \* where each assessment is
    dir,        \* the date of its directory
    findings,   \* its findings
    author,     \* history: who stored or truncated each file last
    pc,         \* where each report is
    ask,        \* the command, its directory, and the key given to it
    entries,    \* the ledger it has read
    verdict,    \* the verdict it has read
    readings,   \* the ledgers a trend has read, and those it has yet to
    unread,     \*   read
    touched,    \* history: the files written since each report began
    shown       \* what the report shows

writeVars == <<store, writePc, dir, findings, author, touched>>
readVars == <<entries, verdict, readings, unread>>
vars == <<today, writeVars, pc, ask, readVars, shown>>

(* The tool get_compliance_summary does what export does, without a file.  *)
Command == {"summary", "export", "trend"}

(* With another key, the signature of a verdict is not valid. *)
KeyGiven == {"none", AssessorKey, "another key"}

NoVerdict == [ledgerHash |-> Hash(<<>>)]

Init ==
    /\ LedgerInit
    /\ writePc = [a \in Assessment |-> "idle"]
    /\ dir = [a \in Assessment |-> 1]
    /\ findings = [a \in Assessment |-> <<>>]
    /\ author = [p \in {} |-> None]
    /\ pc = [r \in Report |-> "idle"]
    /\ ask = [r \in Report |-> [command |-> "summary", dir |-> 1, key |-> "none",
                                verdict |-> FALSE, cutoff |-> 0]]
    /\ entries = [r \in Report |-> <<>>]
    /\ verdict = [r \in Report |-> NoVerdict]
    /\ readings = [r \in Report |-> <<>>]
    /\ unread = [r \in Report |-> {}]
    /\ touched = [r \in Report |-> {}]
    /\ shown = [r \in Report |-> <<>>]

-----------------------------------------------------------------------------
(* The assessments. *)

(* The bucket URL may name a date, or gets today's; the evaluation is of   *)
(* today.                                                                  *)
Evaluate(a) ==
    /\ writePc[a] = "idle"
    /\ \E d \in 1..today, f \in Findings :
         /\ dir' = [dir EXCEPT ![a] = d]
         /\ findings' = [findings EXCEPT ![a] =
                [i \in DOMAIN f |-> [control |-> f[i].control,
                                     verdict |-> f[i].verdict,
                                     confidence |-> f[i].confidence,
                                     evaluatedAt |-> today]]]
    /\ writePc' = [writePc EXCEPT ![a] = "ledger"]
    /\ UNCHANGED <<today, store, author, touched, pc, ask, readVars, shown>>

(* The verdict counts the findings; signAssessmentVerdict. *)
Verdict(a) ==
    LET passed == Tally(findings[a], DOMAIN findings[a]).passed
    IN  Sign([ledgerHash |-> Hash(findings[a]),
              controlsPassed |-> passed,
              controlsFailed |-> Len(findings[a]) - passed,
              signature |-> NoSignature], AssessorKey)

Writes(a, path, content, label) ==
    /\ Stored(path, content)
    /\ author' = WithEntry(author, path, a)
    /\ touched' = [r \in Report |-> touched[r] \cup {path}]
    /\ writePc' = [writePc EXCEPT ![a] = label]
    /\ UNCHANGED <<today, dir, findings, pc, ask, readVars, shown>>

TruncateLedger(a) ==
    writePc[a] = "ledger" /\ Writes(a, LedgerFile(dir[a]), Torn, "fillLedger")
FillLedger(a) ==
    writePc[a] = "fillLedger" /\ Writes(a, LedgerFile(dir[a]), findings[a], "verdict")
TruncateVerdict(a) ==
    writePc[a] = "verdict" /\ Writes(a, VerdictFile(dir[a]), Torn, "fillVerdict")
FillVerdict(a) ==
    writePc[a] = "fillVerdict" /\ Writes(a, VerdictFile(dir[a]), Verdict(a), "done")

(* The ledger cannot be opened or written: that is logged, and the verdict *)
(* of the findings is written all the same.                                *)
LedgerFails(a) ==
    /\ writePc[a] \in {"ledger", "fillLedger"}
    /\ writePc' = [writePc EXCEPT ![a] = "verdict"]
    /\ UNCHANGED <<today, store, dir, findings, author, touched, pc, ask,
                   readVars, shown>>

(* No signing key, one that does not parse, a verdict that cannot be       *)
(* written, or a crash: the rest of the files stays as it was.             *)
StopWriting(a) ==
    /\ writePc[a] \notin {"idle", "done"}
    /\ writePc' = [writePc EXCEPT ![a] = "done"]
    /\ UNCHANGED <<today, store, dir, findings, author, touched, pc, ask,
                   readVars, shown>>

-----------------------------------------------------------------------------
(* The reports. *)

To(r, label) == pc' = [pc EXCEPT ![r] = label]

Whole(path) == Exists(path) /\ store[path] # Torn

StartReport(r) ==
    /\ pc[r] = "idle"
    /\ \E c \in Command \ {"trend"}, d \in 1..today, k \in KeyGiven, v \in BOOLEAN :
         /\ v \/ k = "none"     \* without a verdict the key is not looked at
         /\ ask' = [ask EXCEPT ![r] = [command |-> c, dir |-> d, key |-> k,
                                       verdict |-> v, cutoff |-> 0]]
    /\ touched' = [touched EXCEPT ![r] = {}]
    /\ To(r, "ledger")
    /\ UNCHANGED <<today, store, writePc, dir, findings, author, readVars, shown>>

ReadLedger(r) ==
    LET path == LedgerFile(ask[r].dir)
    IN  /\ pc[r] = "ledger"
        /\ IF Whole(path)
           THEN /\ entries' = [entries EXCEPT ![r] = store[path]]
                /\ To(r, IF ask[r].verdict THEN "verdict" ELSE "show")
           ELSE To(r, "error") /\ UNCHANGED entries
        /\ UNCHANGED <<today, writeVars, ask, verdict, readings, unread, shown>>

ReadVerdict(r) ==
    LET path == VerdictFile(ask[r].dir)
    IN  /\ pc[r] = "verdict"
        /\ IF Whole(path)
           THEN /\ verdict' = [verdict EXCEPT ![r] = store[path]]
                /\ To(r, "show")
           ELSE To(r, "error") /\ UNCHANGED verdict
        /\ UNCHANGED <<today, writeVars, ask, entries, readings, unread, shown>>

Verified(r) ==
    /\ ask[r].verdict
    /\ ask[r].key # "none"
    /\ Verifies(verdict[r], ask[r].key)

(* The summary, and with export every section; whether the verdict is      *)
(* called verified.  A verdict whose signature is not valid is an error of *)
(* the summary command only, and after it has shown the summary.           *)
Show(r) ==
    LET invalid == ask[r].verdict /\ ask[r].key # "none" /\ ~Verified(r)
    IN  /\ pc[r] = "show"
        /\ shown' = [shown EXCEPT ![r] =
               [summary |-> ComputeSummary(entries[r]),
                coverage |-> ComputeCoverage(entries[r]),
                maturity |-> ComputeMaturity(entries[r]),
                risk |-> ComputeRisk(entries[r]),
                verified |-> Verified(r)]]
        /\ To(r, IF ask[r].command = "summary" /\ invalid THEN "exit 1"
                 ELSE "shown")
        /\ UNCHANGED <<today, writeVars, ask, readVars>>

(* The walk finds every ledger there is, in the order of the dates; a      *)
(* directory that it may not enter is as one that is not there.            *)
StartTrend(r) ==
    /\ pc[r] = "idle"
    /\ ask' = [ask EXCEPT ![r].command = "trend", ![r].cutoff = today - Window]
    /\ unread' = [unread EXCEPT ![r] = {d \in Day : Exists(LedgerFile(d))}]
    /\ touched' = [touched EXCEPT ![r] = {}]
    /\ To(r, "trend")
    /\ UNCHANGED <<today, store, writePc, dir, findings, author, entries, verdict,
                   readings, shown>>

(* Fault: a ledger that does not parse ends the reading. *)
ReadHistoryStops(r) ==
    LET d == CHOOSE e \in unread[r] : \A f \in unread[r] : e <= f
    IN  /\ pc[r] = "trend"
        /\ unread[r] # {}
        /\ IF store[LedgerFile(d)] # Torn
           THEN /\ readings' = [readings EXCEPT ![r] = Append(@, store[LedgerFile(d)])]
                /\ unread' = [unread EXCEPT ![r] = @ \ {d}]
           ELSE /\ unread' = [unread EXCEPT ![r] = {}]
                /\ UNCHANGED readings
        /\ UNCHANGED <<today, writeVars, pc, ask, entries, verdict, shown>>

(* A ledger that does not parse is skipped. *)
ReadHistory(r) ==
    LET d == CHOOSE e \in unread[r] : \A f \in unread[r] : e <= f
    IN  /\ pc[r] = "trend"
        /\ unread[r] # {}
        /\ unread' = [unread EXCEPT ![r] = @ \ {d}]
        /\ IF store[LedgerFile(d)] # Torn
           THEN readings' = [readings EXCEPT ![r] = Append(@, store[LedgerFile(d)])]
           ELSE UNCHANGED readings
        /\ UNCHANGED <<today, writeVars, pc, ask, entries, verdict, shown>>

(* Without a point there is no trend. *)
ShowTrend(r) ==
    /\ pc[r] = "trend"
    /\ unread[r] = {}
    /\ \E order \in TrendOrders(readings[r], ask[r].cutoff) :
         LET points == [n \in DOMAIN order |-> TrendPoint(readings[r][order[n]])]
         IN  /\ shown' = [shown EXCEPT ![r] = points]
             /\ To(r, IF points = <<>> THEN "error" ELSE "shown")
    /\ UNCHANGED <<today, writeVars, ask, readVars>>

-----------------------------------------------------------------------------
Next ==
    \/ Midnight /\ UNCHANGED <<writePc, dir, findings, author, touched, pc, ask,
                               readVars, shown>>
    \/ \E a \in Assessment :
         \/ Evaluate(a)
         \/ TruncateLedger(a)
         \/ FillLedger(a)
         \/ LedgerFails(a)
         \/ TruncateVerdict(a)
         \/ FillVerdict(a)
         \/ StopWriting(a)
    \/ \E r \in Report :
         \/ StartReport(r)
         \/ ReadLedger(r)
         \/ ReadVerdict(r)
         \/ Show(r)
         \/ StartTrend(r)
         \/ ReadHistory(r)
         \/ ShowTrend(r)

Spec == Init /\ [][Next]_vars

-----------------------------------------------------------------------------
ReportsShown == {r \in Report : pc[r] = "shown" /\ ask[r].command # "trend"}
TrendsOver == {r \in Report : pc[r] \in {"shown", "error"}
                               /\ ask[r].command = "trend"}

(* Every section of a report counts every finding once, and they agree:    *)
(* the families, the degrees of automation and the CSF functions each add  *)
(* up to the total, a function has what its families have, and risk is     *)
(* simulated for the families with failures, mapped or not, on as many     *)
(* failures as the summary shows (ComputeSummary, ComputeCoverage,         *)
(* ComputeMaturity, ComputeRisk).  A control is a failure with any verdict *)
(* but COMPLIANT, so a family with nothing worse than FAILED is simulated, *)
(* against the comment of ComputeRisk, which names only NON_COMPLIANT.     *)
SectionsAgree ==
    \A r \in ReportsShown :
        LET s == shown[r].summary
            maturity == shown[r].maturity
            families == DOMAIN s.families
            failed == [f \in families |-> s.families[f].failed]
        IN  /\ s.total = s.counts.passed + s.counts.failed
            /\ s.total = SumFunction([f \in families |->
                                         s.families[f].passed + failed[f]])
            /\ s.total = shown[r].coverage.fully + shown[r].coverage.partially
                           + shown[r].coverage.manual
            /\ s.total = SumFunction([fn \in CsfFunction |->
                                         maturity[fn].passed + maturity[fn].failed])
            /\ \A fn \in CsfFunction :
                 maturity[fn].failed =
                     SumFunctionOnSet(failed, {f \in families : CsfFunctionOf(f) = fn})
            /\ shown[r].risk = [f \in {g \in families : failed[g] > 0} |-> failed[f]]

(* A report on a directory where ledger and verdict were last written by   *)
(* one assessment, and that nobody writes to meanwhile, shows the ledger   *)
(* that its verdict was signed on, and the counts of the reporter are      *)
(* those of the assessor (runSummary against write of the assessor).  A    *)
(* verified summary of another ledger takes files of two assessments: they *)
(* overlapped with each other or the report, one stopped between its two   *)
(* files, or one could not write its ledger and wrote its verdict.         *)
QuietReportAgrees ==
    \A r \in ReportsShown :
        LET d == ask[r].dir
            files == {LedgerFile(d), VerdictFile(d)}
        IN  /\ ask[r].verdict
            /\ files \cap touched[r] = {}
            /\ author[LedgerFile(d)] = author[VerdictFile(d)]
            => /\ verdict[r].ledgerHash = Hash(entries[r])
               /\ verdict[r].controlsPassed = shown[r].summary.counts.passed
               /\ verdict[r].controlsFailed = shown[r].summary.counts.failed

(* A trend is in the order of time, and no ledger that was there, whole    *)
(* and in the window when the walk began, and that nobody wrote to, is     *)
(* missing from it, whatever state the other directories are in; its       *)
(* failures are those a summary of the same directory shows.  There is no  *)
(* trend only when there is no such ledger (ComputeTrend against           *)
(* ComputeSummary).                                                        *)
TrendComplete ==
    \A r \in TrendsOver :
        LET points == shown[r]
        IN  /\ \A i, j \in DOMAIN points :
                 i < j => points[i].runDate <= points[j].runDate
            /\ \A d \in Day :
                 LET path == LedgerFile(d)
                 IN  /\ Whole(path)
                     /\ path \notin touched[r]
                     /\ store[path] # <<>>
                     /\ ExtractRunDate(store[path]) >= ask[r].cutoff
                     => \E i \in DOMAIN points :
                          /\ points[i].runDate = ExtractRunDate(store[path])
                          /\ points[i].counts = ComputeSummary(store[path]).counts
=============================================================================
