---------------------------- MODULE PostureProofs ----------------------------
(***************************************************************************)
(* Proofs about jula-posture, for any number of assessments, reports and   *)
(* days, and for ledgers of any length.                                    *)
(***************************************************************************)
EXTENDS Posture, DataLemmas, TLAPS

Finding == [control : DOMAIN FamilyOf, verdict : STRING, confidence : Int]
Entry == [control : DOMAIN FamilyOf, verdict : STRING, confidence : Int,
          evaluatedAt : Day]
Ledgers == Seq(Entry)

Types ==
    /\ today \in Day
    /\ DOMAIN author = DOMAIN store
    /\ writePc \in [Assessment -> {"idle", "ledger", "fillLedger", "verdict",
                                   "fillVerdict", "done"}]
    /\ dir \in [Assessment -> Day]
    /\ findings \in [Assessment -> Ledgers]
    /\ pc \in [Report -> {"idle", "ledger", "verdict", "show", "trend", "shown",
                          "exit 1", "error"}]
    /\ ask \in [Report -> [command : Command, dir : Day, key : KeyGiven,
                           verdict : BOOLEAN, cutoff : Int]]
    /\ entries \in [Report -> Ledgers]
    /\ readings \in [Report -> Seq(Ledgers)]
    /\ unread \in [Report -> SUBSET Day]
    /\ \A r \in Report : \A d \in unread[r] : LedgerFile(d) \in DOMAIN store
    /\ DOMAIN verdict = Report
    /\ DOMAIN touched = Report
    /\ DOMAIN shown = Report

(* A trend reads what trends read, and the others what they read. *)
OwnReads ==
    \A r \in Report :
        /\ pc[r] = "trend" => ask[r].command = "trend"
        /\ pc[r] \in {"ledger", "verdict", "show", "exit 1"}
             => ask[r].command # "trend"

(* A file is torn or holds what its last author has to say. *)
FilesOfAuthors ==
    \A p \in DOMAIN store :
        LET a == author[p]
        IN  /\ a \in Assessment
            /\ writePc[a] # "idle"
            /\ \/ p = LedgerFile(dir[a]) /\ store[p] \in {Torn, findings[a]}
               \/ p = VerdictFile(dir[a]) /\ store[p] \in {Torn, Verdict(a)}

(* What was read of a file is what it holds until somebody writes to it. *)
Current(r, path, content) ==
    path \in touched[r] \/ (Whole(path) /\ store[path] = content)

ReadsCurrent ==
    \A r \in Report : ask[r].command # "trend" =>
        /\ pc[r] \in {"verdict", "show", "shown", "exit 1"}
             => Current(r, LedgerFile(ask[r].dir), entries[r])
        /\ ask[r].verdict /\ pc[r] \in {"show", "shown", "exit 1"}
             => Current(r, VerdictFile(ask[r].dir), verdict[r])

ShowsWhatItRead ==
    \A r \in ReportsShown :
        /\ shown[r].summary = ComputeSummary(entries[r])
        /\ shown[r].coverage = ComputeCoverage(entries[r])
        /\ shown[r].maturity = ComputeMaturity(entries[r])
        /\ shown[r].risk = ComputeRisk(entries[r])

(* A trend has yet to read a ledger, or has read it, unless it was not     *)
(* there or somebody has written to it since.                              *)
TrendReads ==
    \A r \in Report :
        ask[r].command = "trend" /\ pc[r] # "idle" =>
            \A d \in Day :
                Whole(LedgerFile(d)) /\ LedgerFile(d) \notin touched[r] =>
                    \/ pc[r] = "trend" /\ d \in unread[r]
                    \/ \E i \in DOMAIN readings[r] :
                         readings[r][i] = store[LedgerFile(d)]

TrendShows ==
    \A r \in TrendsOver :
        \E order \in TrendOrders(readings[r], ask[r].cutoff) :
            shown[r] = [n \in DOMAIN order |-> TrendPoint(readings[r][order[n]])]

PInv ==
    /\ Types
    /\ OwnReads
    /\ FilesOfAuthors
    /\ ReadsCurrent
    /\ ShowsWhatItRead
    /\ TrendReads
    /\ TrendShows

-----------------------------------------------------------------------------
(* Types, and who wrote what. *)

LEMMA Paths ==
    ASSUME NEW d, NEW e
    PROVE  /\ LedgerFile(d) # VerdictFile(e)
           /\ LedgerFile(d) = LedgerFile(e) => d = e
           /\ VerdictFile(d) = VerdictFile(e) => d = e
  BY DEF LedgerFile, VerdictFile, File

LEMMA Days ==
    /\ Day \subseteq Nat
    /\ \A t \in Day : \A d \in 1..t : d \in Day
    /\ \A t \in Day : t < MaxDay => t + 1 \in Day
    /\ \A t \in Day : t - Window \in Int
  BY MaxDayAssumption, WindowAssumption DEF Day

(* What an evaluation finds is a ledger. *)
LEMMA FindingsMade ==
    ASSUME NEW f \in Findings, NEW t \in Day
    PROVE  [i \in DOMAIN f |-> [control |-> f[i].control, verdict |-> f[i].verdict,
                                confidence |-> f[i].confidence, evaluatedAt |-> t]]
             \in Ledgers
  <1>1. f \in Seq(Finding)
    BY FindingsAssumption DEF Finding
  <1>2. /\ Len(f) \in Nat
        /\ DOMAIN f = 1..Len(f)
        /\ \A i \in 1..Len(f) : f[i] \in Finding
    BY <1>1
  <1> DEFINE g == [i \in DOMAIN f |->
                     [control |-> f[i].control, verdict |-> f[i].verdict,
                      confidence |-> f[i].confidence, evaluatedAt |-> t]]
  <1>3. g \in [1..Len(f) -> Entry]
    BY <1>2 DEF Finding, Entry
  <1> QED
    BY <1>2, <1>3 DEF Ledgers

(* A ledger that is there and whole was written by an assessment. *)
LEMMA LedgerRead ==
    ASSUME Types, FilesOfAuthors, NEW d, Whole(LedgerFile(d))
    PROVE  store[LedgerFile(d)] \in Ledgers
  <1> DEFINE a == author[LedgerFile(d)]
  <1>1. a \in Assessment /\ store[LedgerFile(d)] = findings[a]
    BY Paths DEF FilesOfAuthors, Whole, Exists
  <1> QED
    BY <1>1 DEF Types

LEMMA BaseInit == Init => Types /\ FilesOfAuthors
  <1> SUFFICES ASSUME Init PROVE Types /\ FilesOfAuthors
    OBVIOUS
  <1>1. 1 \in Day
    BY MaxDayAssumption DEF Day
  <1>2. <<>> \in Ledgers /\ <<>> \in Seq(Ledgers)
    BY DEF Ledgers
  <1> QED
    BY <1>1, <1>2 DEF Init, LedgerInit, Types, FilesOfAuthors, Command, KeyGiven

(* The assessor. *)
LEMMA BaseAssessment ==
    ASSUME Types, FilesOfAuthors, NEW a \in Assessment,
           \/ Evaluate(a) \/ TruncateLedger(a) \/ FillLedger(a) \/ LedgerFails(a)
           \/ TruncateVerdict(a) \/ FillVerdict(a) \/ StopWriting(a)
    PROVE  Types' /\ FilesOfAuthors'
  <1> USE DEF Types, readVars
  <1>1. CASE Evaluate(a)
    <2>1. PICK d \in 1..today, f \in Findings :
            /\ dir' = [dir EXCEPT ![a] = d]
            /\ findings' = [findings EXCEPT ![a] =
                   [i \in DOMAIN f |-> [control |-> f[i].control,
                                        verdict |-> f[i].verdict,
                                        confidence |-> f[i].confidence,
                                        evaluatedAt |-> today]]]
      BY <1>1 DEF Evaluate
    <2>2. d \in Day
      BY Days
    <2>3. findings' \in [Assessment -> Ledgers]
      BY <2>1, FindingsMade
    <2>4. Types'
      BY <1>1, <2>1, <2>2, <2>3 DEF Evaluate
    <2>5. \A b \in Assessment : writePc[b] # "idle" =>
            /\ writePc'[b] = writePc[b] /\ dir'[b] = dir[b]
            /\ findings'[b] = findings[b] /\ Verdict(b)' = Verdict(b)
      BY <1>1, <2>1 DEF Evaluate, Verdict
    <2>6. store' = store /\ author' = author
      BY <1>1 DEF Evaluate
    <2>7. FilesOfAuthors'
      <3> HIDE DEF Types
      <3>1. ASSUME NEW p \in DOMAIN store, NEW b, b = author[p]
            PROVE  /\ b \in Assessment
                   /\ writePc'[b] # "idle"
                   /\ \/ p = LedgerFile(dir'[b]) /\ store[p] \in {Torn, findings'[b]}
                      \/ p = VerdictFile(dir'[b]) /\ store[p] \in {Torn, Verdict(b)'}
        <4>1. /\ b \in Assessment /\ writePc[b] # "idle"
              /\ \/ p = LedgerFile(dir[b]) /\ store[p] \in {Torn, findings[b]}
                 \/ p = VerdictFile(dir[b]) /\ store[p] \in {Torn, Verdict(b)}
          BY <3>1 DEF FilesOfAuthors
        <4> QED
          BY <2>5, <4>1
      <3> QED
        BY <2>6, <3>1 DEF FilesOfAuthors
    <2> QED
      BY <2>4, <2>7
  <1>2. ASSUME NEW path, NEW content, NEW label, Writes(a, path, content, label),
               writePc[a] # "idle",
               label \in {"fillLedger", "verdict", "fillVerdict", "done"},
               \/ path = LedgerFile(dir[a]) /\ content \in {Torn, findings[a]}
               \/ path = VerdictFile(dir[a]) /\ content \in {Torn, Verdict(a)}
        PROVE  Types' /\ FilesOfAuthors'
    <2>1. Types'
      BY <1>2 DEF Writes, Stored, WithEntry
    <2>2. \A b \in Assessment : Verdict(b)' = Verdict(b)
      BY <1>2 DEF Writes, Verdict
    <2>3. /\ writePc'[a] # "idle"
          /\ \A b \in Assessment : b # a => writePc'[b] = writePc[b]
          /\ UNCHANGED <<dir, findings>>
      BY <1>2 DEF Writes
    <2>4. /\ DOMAIN store' = DOMAIN store \cup {path}
          /\ author'[path] = a /\ store'[path] = content
          /\ \A p \in DOMAIN store : p # path =>
               author'[p] = author[p] /\ store'[p] = store[p]
      BY <1>2 DEF Writes, Stored, WithEntry
    <2>5. FilesOfAuthors'
      <3> HIDE DEF Types
      <3>1. ASSUME NEW p \in DOMAIN store', NEW b, b = author'[p]
            PROVE  /\ b \in Assessment
                   /\ writePc'[b] # "idle"
                   /\ \/ p = LedgerFile(dir[b]) /\ store'[p] \in {Torn, findings[b]}
                      \/ p = VerdictFile(dir[b]) /\ store'[p] \in {Torn, Verdict(b)}
        <4>1. CASE p = path
          BY <1>2, <2>3, <2>4, <3>1, <4>1
        <4>2. CASE p # path
          <5>1. p \in DOMAIN store /\ b = author[p] /\ store'[p] = store[p]
            BY <2>4, <3>1, <4>2
          <5> QED
            BY <2>3, <5>1 DEF FilesOfAuthors
        <4> QED
          BY <4>1, <4>2
      <3> QED
        BY <2>2, <2>3, <3>1 DEF FilesOfAuthors
    <2> QED
      BY <2>1, <2>5
  <1>3. CASE TruncateLedger(a) \/ FillLedger(a) \/ TruncateVerdict(a) \/ FillVerdict(a)
    BY <1>2, <1>3 DEF TruncateLedger, FillLedger, TruncateVerdict, FillVerdict
  <1>4. CASE LedgerFails(a) \/ StopWriting(a)
    <2>1. \A b \in Assessment : Verdict(b)' = Verdict(b)
      BY <1>4 DEF LedgerFails, StopWriting, Verdict
    <2>2. CASE LedgerFails(a)
      BY <2>1, <2>2 DEF LedgerFails, FilesOfAuthors
    <2>3. CASE StopWriting(a)
      BY <2>1, <2>3 DEF StopWriting, FilesOfAuthors
    <2> QED
      BY <1>4, <2>2, <2>3
  <1> QED
    BY <1>1, <1>3, <1>4

(* What is asked of a trend. *)
Asked == [command : Command, dir : Day, key : KeyGiven, verdict : BOOLEAN, cutoff : Int]

LEMMA TrendAsked ==
    ASSUME NEW q \in Asked, NEW n \in Int
    PROVE  [q EXCEPT !.command = "trend", !.cutoff = n] \in Asked
  <1> DEFINE p == [q EXCEPT !.command = "trend"]
  <1>1. p \in Asked
    BY DEF Asked, Command
  <1> HIDE DEF p
  <1>2. [p EXCEPT !.cutoff = n] \in Asked
    BY <1>1 DEF Asked
  <1> QED
    BY <1>2 DEF p

(* The reporter, and the change of the date. *)
LEMMA BaseReport ==
    ASSUME Types, FilesOfAuthors, NEW r \in Report,
           \/ StartReport(r) \/ ReadLedger(r) \/ ReadVerdict(r) \/ Show(r)
           \/ StartTrend(r) \/ ReadHistory(r) \/ ShowTrend(r)
    PROVE  Types' /\ FilesOfAuthors'
  <1> USE DEF To, writeVars, readVars
  <1>1. UNCHANGED <<today, store, writePc, dir, findings, author>>
    BY DEF StartReport, ReadLedger, ReadVerdict, Show, StartTrend, ReadHistory, ShowTrend
  <1>2. FilesOfAuthors'
    BY <1>1 DEF FilesOfAuthors, Verdict
  <1>3. CASE StartReport(r)
    <2>1. PICK c \in Command \ {"trend"}, d \in 1..today, k \in KeyGiven, v \in BOOLEAN :
            ask' = [ask EXCEPT ![r] = [command |-> c, dir |-> d, key |-> k,
                                       verdict |-> v, cutoff |-> 0]]
      BY <1>3 DEF StartReport
    <2>2. d \in Day
      BY Days DEF Types
    <2> DEFINE asked == [command |-> c, dir |-> d, key |-> k, verdict |-> v, cutoff |-> 0]
    <2>3. asked \in [command : Command, dir : Day, key : KeyGiven,
                    verdict : BOOLEAN, cutoff : Int]
      BY <2>2
    <2>4. ask' = [ask EXCEPT ![r] = asked]
      BY <2>1
    <2> HIDE DEF asked
    <2> QED
      BY <1>2, <1>3, <2>3, <2>4 DEF StartReport, Types
  <1>4. CASE ReadLedger(r)
    <2>1. Whole(LedgerFile(ask[r].dir)) => store[LedgerFile(ask[r].dir)] \in Ledgers
      BY LedgerRead
    <2> QED
      BY <1>2, <1>4, <2>1 DEF ReadLedger, Types
  <1>5. CASE ReadVerdict(r) \/ Show(r)
    BY <1>2, <1>5 DEF ReadVerdict, Show, Types
  <1>6. CASE StartTrend(r)
    <2>1. today - Window \in Int
      BY Days DEF Types
    <2>2. ask' \in [Report -> [command : Command, dir : Day, key : KeyGiven,
                               verdict : BOOLEAN, cutoff : Int]]
      <3>1. ask' = [ask EXCEPT ![r] = [@ EXCEPT !.command = "trend",
                                                !.cutoff = today - Window]]
        BY <1>6 DEF StartTrend
      <3>2. [ask[r] EXCEPT !.command = "trend", !.cutoff = today - Window] \in Asked
        BY <2>1, TrendAsked DEF Types, Asked
      <3> QED
        BY <3>1, <3>2 DEF Types, Asked
    <2> QED
      BY <1>2, <1>6, <2>2 DEF StartTrend, Types, Exists
  <1>7. CASE ReadHistory(r)
    <2> DEFINE d == CHOOSE e \in unread[r] : \A f \in unread[r] : e <= f
    <2>1. d \in unread[r]
      <3>1. unread[r] \in SUBSET Nat /\ unread[r] # {}
        BY <1>7, Days DEF ReadHistory, Types
      <3> QED
        BY <3>1, Least
    <2>2. store[LedgerFile(d)] # Torn => store[LedgerFile(d)] \in Ledgers
      <3>1. Exists(LedgerFile(d))
        BY <2>1 DEF Types, Exists
      <3> QED
        BY <3>1, LedgerRead DEF Whole
    <2>3. readings' \in [Report -> Seq(Ledgers)]
      <3>1. CASE store[LedgerFile(d)] # Torn
        <4>1. Append(readings[r], store[LedgerFile(d)]) \in Seq(Ledgers)
          <5>1. readings[r] \in Seq(Ledgers)
            BY DEF Types
          <5> HIDE DEF Types, d
          <5> QED
            BY <2>2, <3>1, <5>1
        <4>2. readings' = [readings EXCEPT ![r] = Append(readings[r], store[LedgerFile(d)])]
          BY <1>7, <3>1 DEF ReadHistory
        <4> QED
          BY <4>1, <4>2 DEF Types
      <3> QED
        BY <1>7, <3>1 DEF ReadHistory, Types
    <2> HIDE DEF d
    <2>4. unread' = [unread EXCEPT ![r] = @ \ {d}]
      BY <1>7 DEF ReadHistory, d
    <2> QED
      BY <1>2, <1>7, <2>3, <2>4 DEF ReadHistory, Types
  <1>8. CASE ShowTrend(r)
    BY <1>2, <1>8 DEF ShowTrend, Types
  <1> QED
    BY <1>3, <1>4, <1>5, <1>6, <1>7, <1>8

LEMMA BaseNext == Types /\ FilesOfAuthors /\ [Next]_vars => Types' /\ FilesOfAuthors'
  <1> SUFFICES ASSUME Types, FilesOfAuthors, [Next]_vars PROVE Types' /\ FilesOfAuthors'
    OBVIOUS
  <1>1. CASE Midnight /\ UNCHANGED <<writePc, dir, findings, author, touched, pc, ask,
                                     readVars, shown>>
    <2>1. today' \in Day
      BY <1>1, Days DEF Midnight, Types
    <2> QED
      BY <1>1, <2>1 DEF Midnight, Types, FilesOfAuthors, Verdict, readVars
  <1>2. CASE UNCHANGED vars
    BY <1>2 DEF vars, writeVars, readVars, Types, FilesOfAuthors, Verdict
  <1> QED
    BY <1>1, <1>2, BaseAssessment, BaseReport DEF Next

-----------------------------------------------------------------------------
(* What the reports have read. *)

(* One step is of one report, if of any. *)
LEMMA StepOf ==
    ASSUME Types, [Next]_vars, NEW r \in Report
    PROVE  \/ StartReport(r) \/ ReadLedger(r) \/ ReadVerdict(r) \/ Show(r)
           \/ StartTrend(r) \/ ReadHistory(r) \/ ShowTrend(r)
           \/ /\ pc'[r] = pc[r] /\ ask'[r] = ask[r] /\ entries'[r] = entries[r]
              /\ verdict'[r] = verdict[r] /\ readings'[r] = readings[r]
              /\ unread'[r] = unread[r] /\ shown'[r] = shown[r]
  <1> DEFINE same == /\ pc'[r] = pc[r] /\ ask'[r] = ask[r] /\ entries'[r] = entries[r]
                     /\ verdict'[r] = verdict[r] /\ readings'[r] = readings[r]
                     /\ unread'[r] = unread[r] /\ shown'[r] = shown[r]
  <1>1. CASE UNCHANGED <<pc, ask, readVars, shown>>
    BY <1>1 DEF readVars
  <1>2. ASSUME NEW a \in Assessment,
               \/ Evaluate(a) \/ TruncateLedger(a) \/ FillLedger(a) \/ LedgerFails(a)
               \/ TruncateVerdict(a) \/ FillVerdict(a) \/ StopWriting(a)
        PROVE  same
    <2>1. UNCHANGED <<pc, ask, readVars, shown>>
      BY <1>2 DEF Evaluate, TruncateLedger, FillLedger, LedgerFails, TruncateVerdict,
         FillVerdict, StopWriting, Writes
    <2> QED
      BY <1>1, <2>1 DEF readVars
  <1>3. ASSUME NEW q \in Report, q # r,
               \/ StartReport(q) \/ ReadLedger(q) \/ ReadVerdict(q) \/ Show(q)
               \/ StartTrend(q) \/ ReadHistory(q) \/ ShowTrend(q)
        PROVE  same
    <2> USE DEF Types, To, readVars
    <2>1. CASE StartReport(q)
      BY <1>3, <2>1 DEF StartReport
    <2>2. CASE ReadLedger(q) \/ ReadVerdict(q) \/ Show(q)
      BY <1>3, <2>2 DEF ReadLedger, ReadVerdict, Show
    <2>3. CASE StartTrend(q)
      BY <1>3, <2>3 DEF StartTrend
    <2>4. CASE ReadHistory(q)
      BY <1>3, <2>4 DEF ReadHistory
    <2>5. CASE ShowTrend(q)
      BY <1>3, <2>5 DEF ShowTrend
    <2> QED
      BY <1>3, <2>1, <2>2, <2>3, <2>4, <2>5
  <1> QED
    BY <1>1, <1>2, <1>3 DEF Next, vars

(* Files change by writes, and a report under way knows of every write. *)
LEMMA TouchedKept ==
    ASSUME Types, [Next]_vars, NEW r \in Report, pc[r] # "idle",
           NEW path, path \notin touched'[r]
    PROVE  /\ path \notin touched[r]
           /\ Whole(path)' = Whole(path)
           /\ Exists(path) => store'[path] = store[path]
  <1>1. CASE UNCHANGED <<store, touched>>
    BY <1>1 DEF Whole, Exists
  <1>2. ASSUME NEW a, NEW p, NEW content, NEW label, Writes(a, p, content, label)
        PROVE  /\ path \notin touched[r]
               /\ Whole(path)' = Whole(path)
               /\ Exists(path) => store'[path] = store[path]
    <2>1. path \notin touched[r] /\ path # p
      BY <1>2 DEF Writes
    <2> QED
      BY <1>2, <2>1 DEF Writes, Stored, WithEntry, Whole, Exists
  <1>3. ASSUME NEW a \in Assessment,
               \/ Evaluate(a) \/ TruncateLedger(a) \/ FillLedger(a) \/ LedgerFails(a)
               \/ TruncateVerdict(a) \/ FillVerdict(a) \/ StopWriting(a)
        PROVE  /\ path \notin touched[r]
               /\ Whole(path)' = Whole(path)
               /\ Exists(path) => store'[path] = store[path]
    <2>1. CASE Evaluate(a) \/ LedgerFails(a) \/ StopWriting(a)
      BY <1>1, <2>1 DEF Evaluate, LedgerFails, StopWriting
    <2>2. CASE TruncateLedger(a) \/ FillLedger(a) \/ TruncateVerdict(a) \/ FillVerdict(a)
      BY <1>2, <2>2 DEF TruncateLedger, FillLedger, TruncateVerdict, FillVerdict
    <2> QED
      BY <1>3, <2>1, <2>2
  <1>4. ASSUME NEW q \in Report, StartReport(q) \/ StartTrend(q)
        PROVE  UNCHANGED store /\ touched'[r] = touched[r]
    BY <1>4 DEF StartReport, StartTrend, Types
  <1>5. ASSUME NEW q \in Report, StartReport(q) \/ StartTrend(q)
        PROVE  /\ path \notin touched[r]
               /\ Whole(path)' = Whole(path)
               /\ Exists(path) => store'[path] = store[path]
    BY <1>4, <1>5 DEF Whole, Exists
  <1>6. ASSUME NEW q \in Report,
               ReadLedger(q) \/ ReadVerdict(q) \/ Show(q) \/ ReadHistory(q) \/ ShowTrend(q)
        PROVE  UNCHANGED <<store, touched>>
    BY <1>6 DEF ReadLedger, ReadVerdict, Show, ReadHistory, ShowTrend, writeVars
  <1> QED
    BY <1>1, <1>3, <1>5, <1>6 DEF Next, vars, writeVars, Midnight

LEMMA OwnReadsNext == Types /\ OwnReads /\ [Next]_vars => OwnReads'
  <1> SUFFICES ASSUME Types, OwnReads, [Next]_vars, NEW r \in Report
               PROVE  /\ pc'[r] = "trend" => ask'[r].command = "trend"
                      /\ pc'[r] \in {"ledger", "verdict", "show", "exit 1"}
                           => ask'[r].command # "trend"
    BY DEF OwnReads
  <1>0. r \in DOMAIN pc /\ r \in DOMAIN ask
    BY DEF Types
  <1> USE DEF To
  <1>1. CASE StartReport(r)
    <2>1. PICK c \in Command \ {"trend"}, d \in 1..today, k \in KeyGiven, v \in BOOLEAN :
            ask' = [ask EXCEPT ![r] = [command |-> c, dir |-> d, key |-> k,
                                       verdict |-> v, cutoff |-> 0]]
      BY <1>1 DEF StartReport, readVars
    <2>2. ask'[r].command # "trend" /\ pc'[r] = "ledger"
      BY <1>0, <1>1, <2>1 DEF StartReport, readVars
    <2> QED
      BY <2>2
  <1>2. CASE ReadLedger(r) \/ ReadVerdict(r) \/ Show(r)
    BY <1>0, <1>2 DEF OwnReads, ReadLedger, ReadVerdict, Show
  <1>3. CASE StartTrend(r)
    <2>1. ask' = [ask EXCEPT ![r] = [@ EXCEPT !.command = "trend",
                                              !.cutoff = today - Window]]
      BY <1>3 DEF StartTrend
    <2>2. ask[r] \in [command : Command, dir : Day, key : KeyGiven,
                      verdict : BOOLEAN, cutoff : Int]
      BY DEF Types
    <2>3. ask'[r].command = "trend"
      BY <1>0, <2>1, <2>2
    <2> QED
      BY <1>0, <1>3, <2>3 DEF StartTrend
  <1>4. CASE ReadHistory(r)
    BY <1>0, <1>4 DEF OwnReads, ReadHistory
  <1>5. CASE ShowTrend(r)
    BY <1>0, <1>5 DEF OwnReads, ShowTrend
  <1> QED
    BY <1>1, <1>2, <1>3, <1>4, <1>5, StepOf DEF OwnReads

LEMMA ReadsCurrentNext ==
    ASSUME Types, OwnReads, ReadsCurrent, [Next]_vars PROVE ReadsCurrent'
  <1> SUFFICES ASSUME NEW r \in Report, ask'[r].command # "trend"
               PROVE  /\ pc'[r] \in {"verdict", "show", "shown", "exit 1"}
                           => Current(r, LedgerFile(ask[r].dir), entries[r])'
                      /\ ask'[r].verdict /\ pc'[r] \in {"show", "shown", "exit 1"}
                           => Current(r, VerdictFile(ask[r].dir), verdict[r])'
    BY DEF ReadsCurrent, LedgerFile, VerdictFile, File
  <1>1. ASSUME pc[r] # "idle", NEW path, NEW content, Current(r, path, content)
        PROVE  \/ path \in touched'[r]
               \/ path \in DOMAIN store' /\ store'[path] # Torn /\ store'[path] = content
    BY <1>1, TouchedKept DEF Current, Whole, Exists
  <1> USE DEF ReadsCurrent, OwnReads, To
  <1>2. CASE StartReport(r)
    BY <1>2 DEF StartReport, Types
  <1>3. CASE ReadLedger(r)
    BY <1>3 DEF ReadLedger, Types, Current, Whole, Exists, writeVars
  <1>4. CASE ReadVerdict(r)
    BY <1>4 DEF ReadVerdict, Types, Current, Whole, Exists, writeVars
  <1>5. CASE Show(r)
    BY <1>5 DEF Show, Types, Current, Whole, Exists, writeVars, readVars
  <1>6. CASE StartTrend(r)
    BY <1>6 DEF StartTrend, Types
  <1>7. CASE ReadHistory(r) \/ ShowTrend(r)
    BY <1>7 DEF ReadHistory, ShowTrend
  <1>8. CASE /\ pc'[r] = pc[r] /\ ask'[r] = ask[r] /\ entries'[r] = entries[r]
             /\ verdict'[r] = verdict[r]
    <2>1. /\ pc[r] \in {"verdict", "show", "shown", "exit 1"}
               => Current(r, LedgerFile(ask[r].dir), entries[r])
          /\ ask[r].verdict /\ pc[r] \in {"show", "shown", "exit 1"}
               => Current(r, VerdictFile(ask[r].dir), verdict[r])
      BY <1>8
    <2> QED
      <3>1. \A path, content : pc[r] # "idle" /\ Current(r, path, content)
              => \/ path \in touched'[r]
                 \/ path \in DOMAIN store' /\ store'[path] # Torn /\ store'[path] = content
        BY <1>1
      <3> DEFINE ledger == LedgerFile(ask[r].dir)
                 signed == VerdictFile(ask[r].dir)
      <3>2. ASSUME pc[r] \in {"verdict", "show", "shown", "exit 1"}
            PROVE  \/ ledger \in touched'[r]
                   \/ /\ ledger \in DOMAIN store' /\ store'[ledger] # Torn
                      /\ store'[ledger] = entries[r]
        BY <2>1, <3>1, <3>2
      <3>3. ASSUME ask[r].verdict, pc[r] \in {"show", "shown", "exit 1"}
            PROVE  \/ signed \in touched'[r]
                   \/ /\ signed \in DOMAIN store' /\ store'[signed] # Torn
                      /\ store'[signed] = verdict[r]
        BY <2>1, <3>1, <3>3
      <3> QED
        BY <1>8, <3>2, <3>3 DEF Current, Whole, Exists
  <1> QED
    BY <1>2, <1>3, <1>4, <1>5, <1>6, <1>7, <1>8, StepOf

LEMMA ShowsWhatItReadNext ==
    ASSUME Types, OwnReads, ShowsWhatItRead, [Next]_vars PROVE ShowsWhatItRead'
  <1> SUFFICES ASSUME NEW r \in Report, pc'[r] = "shown", ask'[r].command # "trend"
               PROVE  /\ shown'[r].summary = ComputeSummary(entries'[r])
                      /\ shown'[r].coverage = ComputeCoverage(entries'[r])
                      /\ shown'[r].maturity = ComputeMaturity(entries'[r])
                      /\ shown'[r].risk = ComputeRisk(entries'[r])
    BY DEF ShowsWhatItRead, ReportsShown, ComputeSummary, ComputeCoverage,
       ComputeMaturity, ComputeRisk
  <1>0. r \in DOMAIN pc /\ r \in DOMAIN shown
    BY DEF Types
  <1>1. CASE StartReport(r) \/ ReadLedger(r) \/ ReadVerdict(r) \/ StartTrend(r)
    BY <1>0, <1>1 DEF StartReport, ReadLedger, ReadVerdict, StartTrend, To
  <1>2. CASE Show(r)
    <2>1. /\ entries' = entries
          /\ shown'[r] = [summary |-> ComputeSummary(entries[r]),
                          coverage |-> ComputeCoverage(entries[r]),
                          maturity |-> ComputeMaturity(entries[r]),
                          risk |-> ComputeRisk(entries[r]),
                          verified |-> Verified(r)]
      BY <1>0, <1>2 DEF Show, readVars
    <2> QED
      BY <2>1
  <1>3. CASE ReadHistory(r) \/ ShowTrend(r)
    BY <1>3 DEF ReadHistory, ShowTrend, OwnReads
  <1>4. CASE /\ pc'[r] = pc[r] /\ ask'[r] = ask[r] /\ entries'[r] = entries[r]
             /\ shown'[r] = shown[r]
    <2>1. r \in ReportsShown
      BY <1>4 DEF ReportsShown
    <2> QED
      BY <1>4, <2>1 DEF ShowsWhatItRead
  <1> QED
    BY <1>1, <1>2, <1>3, <1>4, StepOf

LEMMA Appended ==
    ASSUME NEW S, NEW s \in Seq(S), NEW x
    PROVE  /\ Len(s) + 1 \in DOMAIN Append(s, x)
           /\ Append(s, x)[Len(s) + 1] = x
           /\ \A i \in DOMAIN s : i \in DOMAIN Append(s, x) /\ Append(s, x)[i] = s[i]
  OBVIOUS

LEMMA TrendReadsNext ==
    ASSUME Types, OwnReads, TrendReads, [Next]_vars PROVE TrendReads'
  <1> SUFFICES ASSUME NEW r \in Report, ask'[r].command = "trend", pc'[r] # "idle",
                      NEW d \in Day, NEW path, path = LedgerFile(d),
                      Whole(path)', path \notin touched'[r]
               PROVE  \/ pc'[r] = "trend" /\ d \in unread'[r]
                      \/ \E i \in DOMAIN readings'[r] : readings'[r][i] = store'[path]
    BY DEF TrendReads, Whole, Exists, LedgerFile, File
  <1>0. r \in DOMAIN pc /\ r \in DOMAIN ask /\ r \in DOMAIN readings /\ r \in DOMAIN unread
    BY DEF Types
  <1>1. CASE StartReport(r)
    <2>1. PICK c \in Command \ {"trend"}, e \in 1..today, k \in KeyGiven, v \in BOOLEAN :
            ask' = [ask EXCEPT ![r] = [command |-> c, dir |-> e, key |-> k,
                                       verdict |-> v, cutoff |-> 0]]
      BY <1>1 DEF StartReport, readVars
    <2> QED
      BY <1>0, <2>1
  <1>2. CASE ReadLedger(r) \/ ReadVerdict(r) \/ Show(r)
    BY <1>2 DEF ReadLedger, ReadVerdict, Show, OwnReads
  <1>3. CASE StartTrend(r)
    BY <1>0, <1>3 DEF StartTrend, To, Whole, Exists
  <1>4. CASE ReadHistory(r)
    <2> DEFINE first == CHOOSE e \in unread[r] : \A f \in unread[r] : e <= f
    <2>1. /\ pc[r] = "trend" /\ pc' = pc /\ ask' = ask /\ store' = store
          /\ touched' = touched
          /\ unread'[r] = unread[r] \ {first}
          /\ readings'[r] = IF store[LedgerFile(first)] # Torn
                            THEN Append(readings[r], store[LedgerFile(first)])
                            ELSE readings[r]
      BY <1>0, <1>4 DEF ReadHistory, writeVars
    <2> HIDE DEF first
    <2>2. Whole(path) /\ path \notin touched[r]
      BY <2>1 DEF Whole, Exists
    <2>3. readings[r] \in Seq(Ledgers)
      BY DEF Types
    <2>4. CASE d \in unread[r] /\ d # first
      BY <2>1, <2>4
    <2>5. CASE d = first
      <3>1. readings'[r] = Append(readings[r], store[path])
        BY <2>1, <2>2, <2>5 DEF Whole
      <3>2. readings'[r][Len(readings[r]) + 1] = store'[path]
            /\ Len(readings[r]) + 1 \in DOMAIN readings'[r]
        <4>1. /\ Append(readings[r], store[path])[Len(readings[r]) + 1] = store[path]
              /\ Len(readings[r]) + 1 \in DOMAIN Append(readings[r], store[path])
          BY <2>3, Appended
        <4>2. store' = store
          BY <2>1
        <4> QED
          BY <3>1, <4>1, <4>2
      <3> QED
        BY <3>2
    <2>6. CASE d \notin unread[r]
      <3>1. PICK i \in DOMAIN readings[r] : readings[r][i] = store[path]
        BY <2>1, <2>2, <2>6 DEF TrendReads
      <3>2. i \in DOMAIN readings'[r] /\ readings'[r][i] = readings[r][i]
        BY <2>1, <2>3
      <3> QED
        BY <2>1, <3>1, <3>2
    <2> QED
      BY <2>4, <2>5, <2>6
  <1>5. CASE ShowTrend(r)
    <2>1. /\ pc[r] = "trend" /\ unread[r] = {} /\ ask' = ask /\ store' = store
          /\ touched' = touched /\ readings' = readings
      BY <1>5 DEF ShowTrend, writeVars, readVars
    <2>2. Whole(path) /\ path \notin touched[r]
      BY <2>1 DEF Whole, Exists
    <2> QED
      BY <2>1, <2>2 DEF TrendReads
  <1>6. CASE /\ pc'[r] = pc[r] /\ ask'[r] = ask[r] /\ readings'[r] = readings[r]
             /\ unread'[r] = unread[r]
    <2>1. Whole(path) /\ path \notin touched[r] /\ store'[path] = store[path]
      BY <1>6, TouchedKept DEF Whole
    <2> QED
      BY <1>6, <2>1 DEF TrendReads
  <1> QED
    BY <1>1, <1>2, <1>3, <1>4, <1>5, <1>6, StepOf

LEMMA TrendShowsNext ==
    ASSUME Types, OwnReads, TrendShows, [Next]_vars PROVE TrendShows'
  <1> DEFINE Shows(read, cutoff, points) ==
               \E order \in TrendOrders(read, cutoff) :
                   points = [n \in DOMAIN order |-> TrendPoint(read[order[n]])]
  <1> SUFFICES ASSUME NEW r \in Report, pc'[r] \in {"shown", "error"},
                      ask'[r].command = "trend"
               PROVE  Shows(readings'[r], ask'[r].cutoff, shown'[r])
    BY DEF TrendShows, TrendsOver
  <1>0. r \in DOMAIN pc /\ r \in DOMAIN ask /\ r \in DOMAIN shown
    BY DEF Types
  <1>1. CASE StartReport(r) \/ StartTrend(r) \/ ReadHistory(r)
    BY <1>0, <1>1 DEF StartReport, StartTrend, ReadHistory, To
  <1>2. CASE ReadLedger(r) \/ ReadVerdict(r) \/ Show(r)
    BY <1>2 DEF ReadLedger, ReadVerdict, Show, OwnReads
  <1>3. CASE ShowTrend(r)
    <2>1. PICK order \in TrendOrders(readings[r], ask[r].cutoff) :
            shown'[r] = [n \in DOMAIN order |-> TrendPoint(readings[r][order[n]])]
      BY <1>0, <1>3 DEF ShowTrend
    <2>2. ask' = ask /\ readings' = readings
      BY <1>3 DEF ShowTrend, readVars
    <2> QED
      BY <2>1, <2>2
  <1>4. CASE /\ pc'[r] = pc[r] /\ ask'[r] = ask[r] /\ readings'[r] = readings[r]
             /\ shown'[r] = shown[r]
    <2>1. r \in TrendsOver
      BY <1>4 DEF TrendsOver
    <2>2. Shows(readings[r], ask[r].cutoff, shown[r])
      BY <2>1 DEF TrendShows
    <2> HIDE DEF Shows
    <2> QED
      BY <1>4, <2>2
  <1> QED
    BY <1>1, <1>2, <1>3, <1>4, StepOf

LEMMA ReadingInit ==
    Init => OwnReads /\ ReadsCurrent /\ ShowsWhatItRead /\ TrendReads /\ TrendShows
  BY DEF Init, OwnReads, ReadsCurrent, ShowsWhatItRead, ReportsShown, TrendReads,
     TrendShows, TrendsOver

(* The inductive invariant: what files hold, what reports have read of     *)
(* them, and what they show of that.                                       *)
THEOREM PostureInvariant == Spec => []PInv
  <1>1. Init => PInv
    BY BaseInit, ReadingInit DEF PInv
  <1>2. PInv /\ [Next]_vars => PInv'
    BY BaseNext, OwnReadsNext, ReadsCurrentNext, ShowsWhatItReadNext, TrendReadsNext,
       TrendShowsNext DEF PInv
  <1> QED
    BY <1>1, <1>2, PTL DEF Spec

-----------------------------------------------------------------------------
(* A report on a quiet directory. *)

(* Of the places of a ledger each is of a pass or of a failure. *)
LEMMA TallySplits ==
    ASSUME NEW s \in Ledgers, NEW group \in SUBSET DOMAIN s
    PROVE  LET t == Tally(s, group)
           IN  /\ t.passed \in Nat /\ t.failed \in Nat
               /\ t.passed + t.failed = Cardinality(group)
  <1> DEFINE passing == {i \in group : Compliant(s[i])}
             failing == {i \in group : Failing(s[i])}
  <1>1. IsFiniteSet(group) /\ Cardinality(group) \in Nat
    <2>1. DOMAIN s = 1..Len(s) /\ Len(s) \in Nat
      BY DEF Ledgers
    <2>2. IsFiniteSet(DOMAIN s)
      BY <2>1, FS_Interval
    <2> QED
      BY <2>2, FS_Subset, FS_CardinalityType
  <1>2. IsFiniteSet(passing) /\ IsFiniteSet(failing)
    BY <1>1, FS_Subset
  <1>3. Cardinality(passing) \in Nat /\ Cardinality(failing) \in Nat
    BY <1>2, FS_CardinalityType
  <1>4. passing \cup failing = group /\ passing \cap failing = {}
    BY DEF Failing
  <1>5. Cardinality(group) = Cardinality(passing) + Cardinality(failing)
    <2>1. Cardinality(passing \cup failing)
            = Cardinality(passing) + Cardinality(failing) - Cardinality(passing \cap failing)
      BY <1>2, FS_Union
    <2>2. Cardinality(passing \cap failing) = 0
      BY <1>4, FS_EmptySet, Zenon
    <2>3. Cardinality(passing \cup failing) = Cardinality(group)
      BY <1>4, Zenon
    <2> HIDE DEF passing, failing
    <2> QED
      BY <1>3, <2>1, <2>2, <2>3
  <1> QED
    BY <1>3, <1>5 DEF Tally

LEMMA LedgerLength ==
    ASSUME NEW s \in Ledgers
    PROVE  /\ Len(s) \in Nat
           /\ DOMAIN s = 1..Len(s)
           /\ IsFiniteSet(DOMAIN s)
           /\ Cardinality(DOMAIN s) = Len(s)
  <1>1. DOMAIN s = 1..Len(s) /\ Len(s) \in Nat
    BY DEF Ledgers
  <1>2. IsFiniteSet(1..Len(s)) /\ Cardinality(1..Len(s)) = Len(s)
    <2>1. Len(s) \in Int /\ 1 \in Int
      BY <1>1
    <2>2. /\ IsFiniteSet(1..Len(s))
          /\ Cardinality(1..Len(s)) = IF 1 > Len(s) THEN 0 ELSE Len(s) - 1 + 1
      BY <2>1, FS_Interval
    <2> QED
      BY <1>1, <2>2
  <1> QED
    BY <1>1, <1>2

(* What an assessor counts is what a reporter counts. *)
LEMMA VerdictCounts ==
    ASSUME Types, NEW a \in Assessment
    PROVE  /\ Verdict(a).ledgerHash = Hash(findings[a])
           /\ Verdict(a).controlsPassed = ComputeSummary(findings[a]).counts.passed
           /\ Verdict(a).controlsFailed = ComputeSummary(findings[a]).counts.failed
  <1> DEFINE s == findings[a]
             t == Tally(s, DOMAIN s)
  <1>1. s \in Ledgers
    BY DEF Types
  <1>2. t.passed \in Nat /\ t.failed \in Nat /\ t.passed + t.failed = Len(s)
    BY <1>1, TallySplits, LedgerLength
  <1>3. ComputeSummary(s).counts = t
    BY DEF ComputeSummary
  <1>4. /\ Verdict(a).ledgerHash = Hash(s)
        /\ Verdict(a).controlsPassed = t.passed
        /\ Verdict(a).controlsFailed = Len(s) - t.passed
    <2> HIDE DEF t
    <2>1. Verdict(a) = Sign([ledgerHash |-> Hash(s), controlsPassed |-> t.passed,
                             controlsFailed |-> Len(s) - t.passed,
                             signature |-> NoSignature], AssessorKey)
      BY DEF Verdict, t
    <2> QED
      BY <2>1 DEF Sign
  <1>5. Len(s) \in Nat
    BY <1>1, LedgerLength
  <1> HIDE DEF t, s
  <1>6. Len(s) - t.passed = t.failed
    BY <1>2, <1>5
  <1> QED
    BY <1>3, <1>4, <1>6 DEF s

(* Whatever assessments overlap, die or truncate files elsewhere: a report *)
(* on a directory that one assessment wrote, and nobody writes to while it *)
(* runs, shows the counts and the ledger that this assessment signed.      *)
THEOREM QuietReportAgreesAlways == Spec => []QuietReportAgrees
  <1>1. PInv => QuietReportAgrees
    <2> SUFFICES ASSUME PInv, NEW r \in ReportsShown, NEW d, d = ask[r].dir,
                        ask[r].verdict,
                        LedgerFile(d) \notin touched[r], VerdictFile(d) \notin touched[r],
                        author[LedgerFile(d)] = author[VerdictFile(d)]
                 PROVE  /\ verdict[r].ledgerHash = Hash(entries[r])
                        /\ verdict[r].controlsPassed = shown[r].summary.counts.passed
                        /\ verdict[r].controlsFailed = shown[r].summary.counts.failed
      BY DEF QuietReportAgrees
    <2> DEFINE a == author[LedgerFile(d)]
    <2>1. /\ Whole(LedgerFile(d)) /\ store[LedgerFile(d)] = entries[r]
          /\ Whole(VerdictFile(d)) /\ store[VerdictFile(d)] = verdict[r]
      BY DEF PInv, ReadsCurrent, Current, ReportsShown
    <2>2. a \in Assessment /\ entries[r] = findings[a] /\ verdict[r] = Verdict(a)
      BY <2>1, Paths DEF PInv, FilesOfAuthors, Whole, Exists
    <2>3. shown[r].summary = ComputeSummary(entries[r])
      BY DEF PInv, ShowsWhatItRead
    <2> HIDE DEF a
    <2> QED
      BY <2>2, <2>3, VerdictCounts DEF PInv
  <1> QED
    BY <1>1, PostureInvariant, PTL

-----------------------------------------------------------------------------
(* The trend. *)

(* A sorted enumeration of the readings has a place for every one of them  *)
(* that counts.                                                            *)
LEMMA OrderReaches ==
    ASSUME NEW read, NEW cutoff, NEW order \in TrendOrders(read, cutoff)
    PROVE  /\ \A i \in DOMAIN read :
                read[i] # <<>> /\ ExtractRunDate(read[i]) >= cutoff
                  => \E n \in DOMAIN order : order[n] = i
           /\ \A m, n \in DOMAIN order :
                m < n => ExtractRunDate(read[order[m]]) <= ExtractRunDate(read[order[n]])
  <1> DEFINE kept == {i \in DOMAIN read :
                        read[i] # <<>> /\ ExtractRunDate(read[i]) >= cutoff}
  <1>1. /\ order \in Bijection(1..Cardinality(kept), kept)
        /\ \A m, n \in DOMAIN order :
             m < n => ExtractRunDate(read[order[m]]) <= ExtractRunDate(read[order[n]])
    BY DEF TrendOrders
  <1>2. /\ DOMAIN order = 1..Cardinality(kept)
        /\ \A i \in kept : \E n \in 1..Cardinality(kept) : order[n] = i
    BY <1>1 DEF Bijection, Injection, Surjection
  <1> QED
    BY <1>1, <1>2

(* However the directories are rewritten while it walks over them: a trend *)
(* is in the order of time and misses no whole ledger in its window that   *)
(* stayed as it was.                                                       *)
THEOREM TrendCompleteAlways == Spec => []TrendComplete
  <1>1. PInv => TrendComplete
    <2> SUFFICES ASSUME PInv, NEW r \in TrendsOver PROVE
            /\ \A i, j \in DOMAIN shown[r] :
                 i < j => shown[r][i].runDate <= shown[r][j].runDate
            /\ \A d \in Day :
                 LET path == LedgerFile(d)
                 IN  /\ Whole(path)
                     /\ path \notin touched[r]
                     /\ store[path] # <<>>
                     /\ ExtractRunDate(store[path]) >= ask[r].cutoff
                     => \E i \in DOMAIN shown[r] :
                          /\ shown[r][i].runDate = ExtractRunDate(store[path])
                          /\ shown[r][i].counts = ComputeSummary(store[path]).counts
      BY DEF TrendComplete
    <2>1. PICK order \in TrendOrders(readings[r], ask[r].cutoff) :
            shown[r] = [n \in DOMAIN order |-> TrendPoint(readings[r][order[n]])]
      BY DEF PInv, TrendShows
    <2>2. \A n \in DOMAIN order :
            /\ shown[r][n].runDate = ExtractRunDate(readings[r][order[n]])
            /\ shown[r][n].counts = ComputeSummary(readings[r][order[n]]).counts
      BY <2>1 DEF TrendPoint, ComputeSummary
    <2>3. DOMAIN shown[r] = DOMAIN order
      BY <2>1
    <2>4. ASSUME NEW i \in DOMAIN shown[r], NEW j \in DOMAIN shown[r], i < j
          PROVE  shown[r][i].runDate <= shown[r][j].runDate
      BY <2>2, <2>3, <2>4, OrderReaches
    <2>5. ASSUME NEW d \in Day, NEW path, path = LedgerFile(d), Whole(path),
                 path \notin touched[r], store[path] # <<>>,
                 ExtractRunDate(store[path]) >= ask[r].cutoff
          PROVE  \E n \in DOMAIN shown[r] :
                   /\ shown[r][n].runDate = ExtractRunDate(store[path])
                   /\ shown[r][n].counts = ComputeSummary(store[path]).counts
      <3>1. PICK i \in DOMAIN readings[r] : readings[r][i] = store[path]
        BY <2>5 DEF PInv, TrendReads, TrendsOver
      <3>2. PICK n \in DOMAIN order : order[n] = i
        BY <2>5, <3>1, OrderReaches
      <3> QED
        BY <2>2, <2>3, <3>1, <3>2
    <2> QED
      BY <2>4, <2>5
  <1> QED
    BY <1>1, PostureInvariant, PTL

(* A ledger that holds anything has a date. *)
LEMMA LedgerDated ==
    ASSUME NEW ledger \in Ledgers, ledger # <<>>
    PROVE  ExtractRunDate(ledger) \in Int
  <1> DEFINE dates == {ledger[i].evaluatedAt : i \in DOMAIN ledger}
  <1>1. dates \in SUBSET Nat /\ dates # {}
    <2>1. 1 \in DOMAIN ledger /\ \A i \in DOMAIN ledger : ledger[i] \in Entry
      BY DEF Ledgers
    <2> QED
      BY <2>1, Days DEF Entry
  <1> HIDE DEF dates
  <1>2. \E d \in dates : \A e \in dates : d <= e
    BY <1>1, Least
  <1> DEFINE first == CHOOSE d \in dates : \A e \in dates : d <= e
  <1>3. first \in dates
    BY <1>2
  <1>4. ExtractRunDate(ledger) = first
    BY Zenon DEF ExtractRunDate, dates
  <1> HIDE DEF first
  <1> QED
    BY <1>1, <1>3, <1>4

(* Readings can be sorted by their dates. *)
LEMMA TrendOrdered ==
    ASSUME NEW read \in Seq(Ledgers), NEW cutoff \in Int
    PROVE  TrendOrders(read, cutoff) # {}
  <1> DEFINE kept == {i \in DOMAIN read :
                        read[i] # <<>> /\ ExtractRunDate(read[i]) >= cutoff}
             date == [i \in kept |-> ExtractRunDate(read[i])]
  <1>1. IsFiniteSet(kept)
    <2>1. Len(read) \in Nat /\ DOMAIN read = 1..Len(read)
      OBVIOUS
    <2>2. IsFiniteSet(1..Len(read))
      BY <2>1, FS_Interval
    <2>3. kept \subseteq 1..Len(read)
      BY <2>1
    <2> HIDE DEF kept
    <2> QED
      BY <2>2, <2>3, FS_Subset
  <1>2. Keyed(kept, date)
    BY LedgerDated DEF Keyed
  <1>3. \A i \in kept : date[i] = ExtractRunDate(read[i])
    OBVIOUS
  <1>4. \A order : order \in TrendOrders(read, cutoff) <=>
          /\ order \in Bijection(1..Cardinality(kept), kept)
          /\ \A m, n \in DOMAIN order :
               m < n => ExtractRunDate(read[order[m]]) <= ExtractRunDate(read[order[n]])
    BY DEF TrendOrders
  <1> HIDE DEF kept, date
  <1>5. PICK order : Ordered(order, kept, date)
    BY <1>1, <1>2, OrderExists
  <1>6. order \in Bijection(1..Cardinality(kept), kept)
    BY <1>5 DEF Ordered, Bijection, Injection, Surjection, IsInjective
  <1>7. \A m, n \in DOMAIN order :
          m < n => ExtractRunDate(read[order[m]]) <= ExtractRunDate(read[order[n]])
    BY <1>3, <1>5 DEF Ordered
  <1> QED
    BY <1>4, <1>6, <1>7

(* A trend that has read all there is has an answer: whatever it has read  *)
(* has an order by date (ComputeTrend).                                    *)
TrendHasAnswer ==
    \A r \in Report : pc[r] = "trend" /\ unread[r] = {} =>
        TrendOrders(readings[r], ask[r].cutoff) # {}

(* No trend is left without an answer, so that TrendComplete speaks of     *)
(* every walk that ends (ComputeTrend).                                    *)
THEOREM TrendHasAnswerAlways == Spec => []TrendHasAnswer
  <1>1. PInv => TrendHasAnswer
    BY TrendOrdered DEF PInv, Types, TrendHasAnswer
  <1> QED
    BY <1>1, PostureInvariant, PTL

-----------------------------------------------------------------------------
(* The sections of a report. *)

LEMMA FamiliesFinite ==
    ASSUME NEW s \in Ledgers PROVE IsFiniteSet(FamiliesIn(s))
  <1> DEFINE family == [i \in DOMAIN s |-> Family(s[i])]
  <1>1. family \in Surjection(DOMAIN s, FamiliesIn(s))
    BY DEF Surjection, FamiliesIn
  <1> HIDE DEF family
  <1> QED
    BY <1>1, LedgerLength, FS_Surjection

LEMMA FunctionsFinite == IsFiniteSet(CsfFunction)
  <1>1. /\ IsFiniteSet({"Identify"}) /\ IsFiniteSet({"Protect"}) /\ IsFiniteSet({"Detect"})
        /\ IsFiniteSet({"Respond"}) /\ IsFiniteSet({"Recover"})
    BY FS_Singleton
  <1>2. IsFiniteSet({"Identify"} \cup {"Protect"})
    BY <1>1, FS_Union
  <1>3. IsFiniteSet({"Identify"} \cup {"Protect"} \cup {"Detect"})
    BY <1>1, <1>2, FS_Union
  <1>4. IsFiniteSet({"Identify"} \cup {"Protect"} \cup {"Detect"} \cup {"Respond"})
    BY <1>1, <1>3, FS_Union
  <1>5. IsFiniteSet({"Identify"} \cup {"Protect"} \cup {"Detect"} \cup {"Respond"}
                      \cup {"Recover"})
    BY <1>1, <1>4, FS_Union
  <1>6. {"Identify"} \cup {"Protect"} \cup {"Detect"} \cup {"Respond"} \cup {"Recover"}
          = CsfFunction
    BY DEF CsfFunction
  <1> QED
    BY <1>5, <1>6

(* The parts that a sum of tallies counts. *)
LEMMA TalliesAddUp ==
    ASSUME NEW s \in Ledgers, NEW F, IsFiniteSet(F), NEW part,
           \A f \in F : part[f] \subseteq DOMAIN s,
           \A f, g \in F : f # g => part[f] \cap part[g] = {},
           \A i \in DOMAIN s : \E f \in F : i \in part[f]
    PROVE  Len(s) = SumFunction([f \in F |-> Tally(s, part[f]).passed
                                               + Tally(s, part[f]).failed])
  <1> DEFINE count == [f \in F |-> Tally(s, part[f]).passed + Tally(s, part[f]).failed]
  <1>1. \A f \in F : count[f] = Cardinality(part[f])
    BY TallySplits
  <1>2. SumFunctionOnSet(count, F)
          = Cardinality({i \in DOMAIN s : \E f \in F : i \in part[f]})
    <2> DEFINE I == DOMAIN s
    <2>1. IsFiniteSet(I) /\ \A f \in F : part[f] \subseteq I
      BY LedgerLength
    <2> HIDE DEF count, I
    <2>2. SumFunctionOnSet(count, F) = Cardinality({i \in I : \E f \in F : i \in part[f]})
      BY <1>1, <2>1, SumOfParts
    <2> QED
      BY <2>2 DEF I
  <1>3. {i \in DOMAIN s : \E f \in F : i \in part[f]} = DOMAIN s
    OBVIOUS
  <1>4. SumFunction(count) = SumFunctionOnSet(count, F)
    BY DEF SumFunction
  <1> HIDE DEF count
  <1>5. Len(s) = SumFunction(count)
    BY <1>2, <1>3, <1>4, LedgerLength
  <1> QED
    BY <1>5 DEF count

(* The counts of the families. *)
LEMMA FamiliesAddUp ==
    ASSUME NEW s \in Ledgers
    PROVE  LET families == ComputeSummary(s).families
           IN  /\ DOMAIN families = FamiliesIn(s)
               /\ \A f \in FamiliesIn(s) :
                    families[f].failed
                      = Cardinality({i \in OfFamily(s, f) : Failing(s[i])})
               /\ Len(s) = SumFunction([f \in FamiliesIn(s) |->
                                          families[f].passed + families[f].failed])
  <1> DEFINE families == ComputeSummary(s).families
             part == [f \in FamiliesIn(s) |-> OfFamily(s, f)]
  <1>1. families = [f \in FamiliesIn(s) |-> Tally(s, part[f])]
    BY DEF ComputeSummary
  <1>2. /\ \A f \in FamiliesIn(s) : part[f] \subseteq DOMAIN s
        /\ \A f, g \in FamiliesIn(s) : f # g => part[f] \cap part[g] = {}
        /\ \A i \in DOMAIN s : \E f \in FamiliesIn(s) : i \in part[f]
    BY DEF OfFamily, FamiliesIn
  <1>3. Len(s) = SumFunction([f \in FamiliesIn(s) |-> Tally(s, part[f]).passed
                                                        + Tally(s, part[f]).failed])
    <2> HIDE DEF part
    <2> QED
      BY <1>2, FamiliesFinite, TalliesAddUp
  <1>4. [f \in FamiliesIn(s) |-> families[f].passed + families[f].failed]
          = [f \in FamiliesIn(s) |-> Tally(s, part[f]).passed + Tally(s, part[f]).failed]
    <2> HIDE DEF families, part
    <2> QED
      BY <1>1
  <1>5. \A f \in FamiliesIn(s) :
          families[f].failed = Cardinality({i \in OfFamily(s, f) : Failing(s[i])})
    BY DEF ComputeSummary, Tally
  <1>6. DOMAIN families = FamiliesIn(s)
    BY <1>1
  <1> QED
    BY <1>3, <1>4, <1>5, <1>6

(* The degrees of automation. *)
LEMMA CoverageAddsUp ==
    ASSUME NEW s \in Ledgers
    PROVE  LET c == ComputeCoverage(s)
           IN  Len(s) = c.fully + c.partially + c.manual
  <1> DEFINE all == DOMAIN s
             fully == {i \in all : s[i].confidence >= 100}
             partially == {i \in all : s[i].confidence \in 1..99}
             manual == all \ (fully \cup partially)
  <1>1. \A i \in all : s[i].confidence \in Int
    <2>1. \A i \in all : s[i] \in Entry
      BY DEF Ledgers
    <2> QED
      BY <2>1 DEF Entry
  <1>2. /\ IsFiniteSet(all) /\ IsFiniteSet(fully) /\ IsFiniteSet(partially)
        /\ IsFiniteSet(manual)
    BY LedgerLength, FS_Subset
  <1>3. /\ Cardinality(fully) \in Nat /\ Cardinality(partially) \in Nat
        /\ Cardinality(manual) \in Nat /\ Cardinality(all) = Len(s)
    BY <1>2, LedgerLength, FS_CardinalityType
  <1>4. /\ fully \cap partially = {}
        /\ (fully \cup partially) \cap manual = {}
        /\ (fully \cup partially) \cup manual = all
    BY <1>1
  <1>5. /\ ComputeCoverage(s).fully = Cardinality(fully)
        /\ ComputeCoverage(s).partially = Cardinality(partially)
        /\ ComputeCoverage(s).manual = Cardinality(manual)
    BY DEF ComputeCoverage
  <1> HIDE DEF all, fully, partially, manual
  <1>6. /\ IsFiniteSet(fully \cup partially)
        /\ Cardinality(fully \cup partially)
             = Cardinality(fully) + Cardinality(partially) - Cardinality(fully \cap partially)
    BY <1>2, FS_Union
  <1>7. Cardinality((fully \cup partially) \cup manual)
          = Cardinality(fully \cup partially) + Cardinality(manual)
              - Cardinality((fully \cup partially) \cap manual)
    BY <1>2, <1>6, FS_Union
  <1>8. Cardinality({}) = 0
    BY FS_EmptySet
  <1>9. Len(s) = Cardinality(fully) + Cardinality(partially) + Cardinality(manual)
    <2>1. Cardinality(fully \cap partially) = 0
      BY <1>4, <1>8
    <2>2. Cardinality((fully \cup partially) \cap manual) = 0
      BY <1>4, <1>8
    <2>3. Cardinality((fully \cup partially) \cup manual) = Len(s)
      BY <1>3, <1>4
    <2> QED
      BY <1>3, <1>6, <1>7, <2>1, <2>2, <2>3
  <1> QED
    BY <1>5, <1>9

LEMMA MappedFunction == \A f : CsfFunctionOf(f) \in CsfFunction
  BY CsfAssumption DEF CsfFunctionOf, CsfFunction

(* The CSF functions, by findings and by families. *)
LEMMA MaturityAddsUp ==
    ASSUME NEW s \in Ledgers
    PROVE  LET m == ComputeMaturity(s)
           IN  /\ Len(s) = SumFunction([fn \in CsfFunction |-> m[fn].passed + m[fn].failed])
               /\ \A fn \in CsfFunction :
                    m[fn].failed
                      = Cardinality({i \in DOMAIN s : /\ CsfFunctionOf(Family(s[i])) = fn
                                                      /\ Failing(s[i])})
  <1> DEFINE m == ComputeMaturity(s)
             part == [fn \in CsfFunction |->
                        {i \in DOMAIN s : CsfFunctionOf(Family(s[i])) = fn}]
  <1>1. m = [fn \in CsfFunction |-> Tally(s, part[fn])]
    BY DEF ComputeMaturity
  <1>2. /\ \A f \in CsfFunction : part[f] \subseteq DOMAIN s
        /\ \A f, g \in CsfFunction : f # g => part[f] \cap part[g] = {}
        /\ \A i \in DOMAIN s : \E f \in CsfFunction : i \in part[f]
    BY MappedFunction
  <1>3. Len(s) = SumFunction([f \in CsfFunction |-> Tally(s, part[f]).passed
                                                      + Tally(s, part[f]).failed])
    <2> HIDE DEF part
    <2> QED
      BY <1>2, FunctionsFinite, TalliesAddUp
  <1>4. [f \in CsfFunction |-> m[f].passed + m[f].failed]
          = [f \in CsfFunction |-> Tally(s, part[f]).passed + Tally(s, part[f]).failed]
    <2> HIDE DEF m, part
    <2> QED
      BY <1>1
  <1>5. \A fn \in CsfFunction :
          m[fn].failed = Cardinality({i \in DOMAIN s : /\ CsfFunctionOf(Family(s[i])) = fn
                                                       /\ Failing(s[i])})
    <2> SUFFICES ASSUME NEW fn \in CsfFunction
                 PROVE  m[fn].failed
                          = Cardinality({i \in DOMAIN s : /\ CsfFunctionOf(Family(s[i])) = fn
                                                          /\ Failing(s[i])})
      OBVIOUS
    <2>1. m[fn].failed = Cardinality({i \in part[fn] : Failing(s[i])})
      BY DEF ComputeMaturity, Tally
    <2>2. {i \in part[fn] : Failing(s[i])}
            = {i \in DOMAIN s : CsfFunctionOf(Family(s[i])) = fn /\ Failing(s[i])}
      OBVIOUS
    <2> QED
      BY <2>1, <2>2
  <1> QED
    BY <1>3, <1>4, <1>5

(* A function has the failures of its families. *)
LEMMA FunctionOfFamilies ==
    ASSUME NEW s \in Ledgers, NEW fn \in CsfFunction, NEW failed,
           \A f \in FamiliesIn(s) :
             failed[f] = Cardinality({i \in OfFamily(s, f) : Failing(s[i])})
    PROVE  ComputeMaturity(s)[fn].failed
             = SumFunctionOnSet(failed, {f \in FamiliesIn(s) : CsfFunctionOf(f) = fn})
  <1> DEFINE F == {f \in FamiliesIn(s) : CsfFunctionOf(f) = fn}
             part == [f \in F |-> {i \in OfFamily(s, f) : Failing(s[i])}]
  <1>1. IsFiniteSet(F)
    BY FamiliesFinite, FS_Subset
  <1>2. /\ \A f \in F : part[f] \subseteq DOMAIN s
        /\ \A f, g \in F : f # g => part[f] \cap part[g] = {}
        /\ \A f \in F : failed[f] = Cardinality(part[f])
    BY DEF OfFamily
  <1>3. {i \in DOMAIN s : \E f \in F : i \in part[f]}
          = {i \in DOMAIN s : CsfFunctionOf(Family(s[i])) = fn /\ Failing(s[i])}
    BY DEF OfFamily, FamiliesIn
  <1>4. SumFunctionOnSet(failed, F)
          = Cardinality({i \in DOMAIN s : \E f \in F : i \in part[f]})
    <2> HIDE DEF F, part
    <2> QED
      BY <1>1, <1>2, LedgerLength, SumOfParts
  <1> QED
    BY <1>3, <1>4, MaturityAddsUp

(* The families at risk are those that the summary shows failures of. *)
LEMMA RiskOfFamilies ==
    ASSUME NEW s \in Ledgers, NEW failed,
           \A f \in FamiliesIn(s) :
             failed[f] = Cardinality({i \in OfFamily(s, f) : Failing(s[i])})
    PROVE  ComputeRisk(s) = [f \in {g \in FamiliesIn(s) : failed[g] > 0} |-> failed[f]]
  <1>1. ASSUME NEW f \in FamiliesIn(s)
        PROVE  {i \in OfFamily(s, f) : Failing(s[i])} # {} <=> failed[f] > 0
    <2> DEFINE failures == {i \in OfFamily(s, f) : Failing(s[i])}
    <2>1. IsFiniteSet(failures)
      BY LedgerLength, FS_Subset DEF OfFamily
    <2>2. Cardinality(failures) \in Nat /\ (Cardinality(failures) = 0 <=> failures = {})
      BY <2>1, FS_CardinalityType, FS_EmptySet
    <2>3. failed[f] = Cardinality(failures)
      OBVIOUS
    <2> HIDE DEF failures
    <2>4. failures # {} <=> failed[f] > 0
      BY <2>2, <2>3
    <2> QED
      BY <2>4 DEF failures
  <1>2. {g \in FamiliesIn(s) : {i \in OfFamily(s, g) : Failing(s[i])} # {}}
          = {g \in FamiliesIn(s) : failed[g] > 0}
    BY <1>1
  <1> QED
    BY <1>2 DEF ComputeRisk

(* For ledgers of any length and any mapping of families: no section of a  *)
(* report counts a finding twice or not at all.                            *)
THEOREM SectionsAgreeAlways == Spec => []SectionsAgree
  <1>1. PInv => SectionsAgree
    <2> SUFFICES ASSUME PInv, NEW r \in ReportsShown
                 PROVE  LET s == shown[r].summary
                            maturity == shown[r].maturity
                            families == DOMAIN s.families
                            failed == [f \in families |-> s.families[f].failed]
                        IN  /\ s.total = s.counts.passed + s.counts.failed
                            /\ s.total = SumFunction([f \in families |->
                                                         s.families[f].passed + failed[f]])
                            /\ s.total = shown[r].coverage.fully + shown[r].coverage.partially
                                           + shown[r].coverage.manual
                            /\ s.total = SumFunction([fn \in CsfFunction |->
                                                         maturity[fn].passed
                                                           + maturity[fn].failed])
                            /\ \A fn \in CsfFunction :
                                 maturity[fn].failed =
                                     SumFunctionOnSet(failed,
                                         {f \in families : CsfFunctionOf(f) = fn})
                            /\ shown[r].risk
                                 = [f \in {g \in families : failed[g] > 0} |-> failed[f]]
      BY DEF SectionsAgree
    <2> DEFINE s == shown[r].summary
               failed == [f \in DOMAIN s.families |-> s.families[f].failed]
    <2> DEFINE e == entries[r]
    <2>1. e \in Ledgers
      BY DEF PInv, Types, ReportsShown
    <2>2. /\ s = ComputeSummary(e)
          /\ shown[r].coverage = ComputeCoverage(e)
          /\ shown[r].maturity = ComputeMaturity(e)
          /\ shown[r].risk = ComputeRisk(e)
      BY DEF PInv, ShowsWhatItRead
    <2>0. failed = [f \in DOMAIN s.families |-> s.families[f].failed]
      OBVIOUS
    <2> HIDE DEF e, s, failed
    <2>3. s.total = Len(e) /\ s.counts = Tally(e, DOMAIN e)
      BY <2>2 DEF ComputeSummary
    <2>4. /\ DOMAIN s.families = FamiliesIn(e)
          /\ \A f \in FamiliesIn(e) :
               failed[f] = Cardinality({i \in OfFamily(e, f) : Failing(e[i])})
          /\ Len(e) = SumFunction([f \in FamiliesIn(e) |->
                                     s.families[f].passed + s.families[f].failed])
      BY <2>0, <2>1, <2>2, FamiliesAddUp
    <2>5. s.total = s.counts.passed + s.counts.failed
      BY <2>1, <2>3, TallySplits, LedgerLength
    <2>6. s.total = SumFunction([f \in DOMAIN s.families |->
                                   s.families[f].passed + failed[f]])
      <3>1. [f \in DOMAIN s.families |-> s.families[f].passed + failed[f]]
              = [f \in FamiliesIn(e) |-> s.families[f].passed + s.families[f].failed]
        BY <2>0, <2>4
      <3> QED
        BY <2>3, <2>4, <3>1
    <2>7. s.total = shown[r].coverage.fully + shown[r].coverage.partially
                      + shown[r].coverage.manual
      BY <2>1, <2>2, <2>3, CoverageAddsUp
    <2>8. s.total = SumFunction([fn \in CsfFunction |->
                                   shown[r].maturity[fn].passed + shown[r].maturity[fn].failed])
      BY <2>1, <2>2, <2>3, MaturityAddsUp
    <2>9. \A fn \in CsfFunction :
            shown[r].maturity[fn].failed =
                SumFunctionOnSet(failed, {f \in DOMAIN s.families : CsfFunctionOf(f) = fn})
      BY <2>1, <2>2, <2>4, FunctionOfFamilies
    <2>10. shown[r].risk = [f \in {g \in DOMAIN s.families : failed[g] > 0} |-> failed[f]]
      <3>1. ComputeRisk(e) = [f \in {g \in FamiliesIn(e) : failed[g] > 0} |-> failed[f]]
        BY <2>1, <2>4, RiskOfFamilies
      <3> QED
        BY <2>2, <2>4, <3>1
    <2> QED
      BY <2>5, <2>6, <2>7, <2>8, <2>9, <2>10 DEF s, failed
  <1> QED
    BY <1>1, PostureInvariant, PTL
=============================================================================
