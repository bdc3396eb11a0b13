----------------------------- MODULE Extraction -----------------------------
(***************************************************************************)
(* The blind extraction loop of the collector                              *)
(* (collector/internal/engine/orchestrator.go).                            *)
(*                                                                         *)
(* Extract builds one job per configured endpoint, starts one goroutine    *)
(* per job, lets at most Concurrency of them run at a time, waits for all  *)
(* of them, classifies what they left behind and merges the findings into  *)
(* one evidence per (evidence ID, source ID).                              *)
(*                                                                         *)
(* The HTTP work of a job is abstracted to what it returns: the shapes of  *)
(* the page bodies it collected, a real failure, or missing credentials.   *)
(***************************************************************************)
EXTENDS Naturals, FiniteSets, Sequences, SequencesExt

CONSTANTS
    Integration,    \* the vendor YAML files
    Job,            \* the endpoints of all files: extractionJob
    JobsOf,         \* JobsOf[i]: the endpoints of integration i
    Key,            \* groupKey: (evidenceID, sourceID)
    KeyOf,          \* KeyOf[j]: the key that every finding of job j carries
    PageLists,      \* what a successful execute may return, as body shapes
    Concurrency,    \* RunConfig.Concurrency, the capacity of sem
    Cancellable     \* whether the caller's context can be cancelled

Shape == {"array", "object", "null"}

ASSUME ConcurrencyAssumption == Concurrency \in Nat
ASSUME JobsOfAssumption == JobsOf \in [Integration -> SUBSET Job]
ASSUME KeyOfAssumption == KeyOf \in [Job -> Key]
ASSUME PageListsAssumption == PageLists \subseteq Seq(Shape) \ {<<>>}
ASSUME CancellableAssumption == Cancellable \in BOOLEAN

(***************************************************************************)
(* A finding is one page of one job.  Its raw data is abstracted to the    *)
(* shape of the body and the items in it: page p of job j holds one item,  *)
(* <<j, p>>, unless it is the body "null" of a tolerated 404.              *)
(***************************************************************************)
Item == Job \X (Nat \ {0})
Finding == [job : Job, page : Nat \ {0}, shape : Shape, items : Seq(Item)]

PageFinding(j, p, shape) ==
    [job |-> j, page |-> p, shape |-> shape,
     items |-> IF shape = "null" THEN <<>> ELSE <<<<j, p>>>>]

FindingsOf(j, shapes) ==
    [p \in 1..Len(shapes) |-> PageFinding(j, p, shapes[p])]

VARIABLES
    mainPc,       \* Extract: building, spawning, waiting, returned
    jobs,         \* the jobs buildJobs returned
    wg,           \* counter of the WaitGroup
    sem,          \* slots taken in the channel sem
    cancelled,    \* the context given to executeJobs is done
    pc,           \* goroutine of each job
    expired,      \* the per-job timeout context is done
    returned,     \* what execute returned to the goroutine, not yet recorded
    allFindings,  \* the shared slice of findings
    realErrs,     \* the shared slice of failures, as the jobs that failed
    skipped,      \* the shared slice of skips, as the jobs skipped
    result        \* what Extract returned: outcome and evidence

mainVars == <<mainPc, jobs, result>>
jobVars == <<pc, expired, returned>>
slices == <<allFindings, realErrs, skipped>>
vars == <<mainPc, jobs, wg, sem, cancelled, pc, expired, returned,
          allFindings, realErrs, skipped, result>>

NoReturn == [kind |-> "none", findings |-> <<>>]
Returned(kind, findings) == [kind |-> kind, findings |-> findings]
NoResult == [outcome |-> "none", evidence |-> <<>>]

(* A goroutine that holds a slot of sem. *)
Holding == {"executing", "recording", "releasing"}

-----------------------------------------------------------------------------
(* Grouping and merging. *)

GroupOf(findings, k) ==
    LET upTo[n \in 0..Len(findings)] ==
          IF n = 0 THEN <<>>
          ELSE IF KeyOf[findings[n].job] = k THEN Append(upTo[n - 1], findings[n])
          ELSE upTo[n - 1]
    IN  upTo[Len(findings)]

(* The keys in the order in which their first finding was recorded. *)
KeysOrdered(findings) ==
    LET keySeen(n) == \E m \in 1..n - 1 : KeyOf[findings[m].job] = KeyOf[findings[n].job]
        upTo[n \in 0..Len(findings)] ==
          IF n = 0 THEN <<>>
          ELSE IF keySeen(n) THEN upTo[n - 1]
          ELSE Append(upTo[n - 1], KeyOf[findings[n].job])
    IN  upTo[Len(findings)]

(* json.Unmarshal into []any succeeds on an array, and on "null". *)
IsJSONArray(f) == f.shape \in {"array", "null"}

(* Fault: arrays are not concatenated either. *)
MergeKeepsLastPage(group) == group[Len(group)]

MergedItems(group) ==
    LET upTo[n \in 0..Len(group)] ==
          IF n = 0 THEN <<>> ELSE upTo[n - 1] \o group[n].items
    IN  upTo[Len(group)]

(* What was decoded is encoded again.  That is taken to succeed and to     *)
(* keep each item one item; a failure would be an error of Extract.        *)
MergeFindingsGroup(group) ==
    IF Len(group) = 1 THEN group[1]
    ELSE IF \A i \in 1..Len(group) : IsJSONArray(group[i])
         THEN LET merged == MergedItems(group)
              IN  [group[1] EXCEPT !.items = merged,
                       !.shape = IF merged = <<>> THEN "null" ELSE "array"]
         ELSE group[Len(group)]

GroupAndMergeFindings(findings) ==
    LET keys == KeysOrdered(findings)
    IN  [i \in 1..Len(keys) |->
            [key |-> keys[i],
             finding |-> MergeFindingsGroup(GroupOf(findings, keys[i]))]]

-----------------------------------------------------------------------------
Init ==
    /\ mainPc = "building"
    /\ jobs = {}
    /\ wg = 0
    /\ sem = 0
    /\ cancelled = FALSE
    /\ pc = [j \in Job |-> "unborn"]
    /\ expired = [j \in Job |-> FALSE]
    /\ returned = [j \in Job |-> NoReturn]
    /\ allFindings = <<>>
    /\ realErrs = <<>>
    /\ skipped = <<>>
    /\ result = NoResult

(* One unreadable or malformed file fails the whole build, and so does a   *)
(* configuration without endpoints.                                        *)
BuildJobs ==
    /\ mainPc = "building"
    /\ \E present \in SUBSET Integration, malformed \in SUBSET Integration :
         LET built == UNION {JobsOf[i] : i \in present}
         IN  /\ malformed \subseteq present
             /\ IF malformed # {} \/ built = {}
                THEN /\ mainPc' = "returned"
                     /\ result' = [NoResult EXCEPT !.outcome = "error"]
                     /\ UNCHANGED jobs
                ELSE /\ mainPc' = "spawning"
                     /\ jobs' = built
                     /\ UNCHANGED result
    /\ UNCHANGED <<wg, sem, cancelled, jobVars, slices>>

(* wg.Add(1), go func: the loop goes through the jobs in map order. *)
Spawn(j) ==
    /\ mainPc = "spawning"
    /\ j \in jobs
    /\ pc[j] = "unborn"
    /\ wg' = wg + 1
    /\ pc' = [pc EXCEPT ![j] = "queued"]
    /\ mainPc' = IF \A i \in jobs \ {j} : pc[i] # "unborn"
                 THEN "waiting" ELSE mainPc
    /\ UNCHANGED <<jobs, result, sem, cancelled, expired, returned, slices>>

(* Fault: the channel has room for every job. *)
AcquireSlotUnbounded(j) ==
    /\ pc[j] = "queued"
    /\ sem' = sem + 1
    /\ pc' = [pc EXCEPT ![j] = "executing"]
    /\ UNCHANGED <<mainVars, wg, cancelled, expired, returned, slices>>

AcquireSlot(j) ==
    /\ pc[j] = "queued"
    /\ sem < Concurrency
    /\ sem' = sem + 1
    /\ pc' = [pc EXCEPT ![j] = "executing"]
    /\ UNCHANGED <<mainVars, wg, cancelled, expired, returned, slices>>

(* Fault: the slot is released by a defer that precedes the select. *)
CancelledReleasesSlot(j) ==
    /\ pc[j] = "queued"
    /\ cancelled
    /\ realErrs' = Append(realErrs, j)
    /\ pc' = [pc EXCEPT ![j] = "releasing"]
    /\ UNCHANGED <<mainVars, wg, sem, cancelled, expired, returned,
                   allFindings, skipped>>

(* The other branch of the select: the job never ran.  The slot it never   *)
(* took is not released, the goroutine goes straight to wg.Done.           *)
CancelledBeforeStart(j) ==
    /\ pc[j] = "queued"
    /\ cancelled
    /\ realErrs' = Append(realErrs, j)
    /\ pc' = [pc EXCEPT ![j] = "finishing"]
    /\ UNCHANGED <<mainVars, wg, sem, cancelled, expired, returned,
                   allFindings, skipped>>

(* context.WithTimeout expires while the job is still at work. *)
Deadline(j) ==
    /\ pc[j] = "executing"
    /\ ~expired[j]
    /\ expired' = [expired EXCEPT ![j] = TRUE]
    /\ UNCHANGED <<mainVars, wg, sem, cancelled, pc, returned, slices>>

ExecuteReturns(j, ret) ==
    /\ pc[j] = "executing"
    /\ returned' = [returned EXCEPT ![j] = ret]
    /\ pc' = [pc EXCEPT ![j] = "recording"]
    /\ UNCHANGED <<mainVars, wg, sem, cancelled, expired, slices>>

ExecuteSucceeds(j) ==
    \E shapes \in PageLists :
        ExecuteReturns(j, Returned("findings", FindingsOf(j, shapes)))

ExecuteSkips(j) == ExecuteReturns(j, Returned("skip", <<>>))

ExecuteFails(j) == ExecuteReturns(j, Returned("error", <<>>))

(* The HTTP client gives up as soon as its context is done. *)
ExecuteAborts(j) == (expired[j] \/ cancelled) /\ ExecuteFails(j)

(* Fault: the branch of the skipped job does not return. *)
RecordSkipTwice(j) ==
    /\ pc[j] = "recording"
    /\ allFindings' = allFindings \o returned[j].findings
    /\ skipped' = IF returned[j].kind = "skip" THEN Append(skipped, j) ELSE skipped
    /\ realErrs' = IF returned[j].kind \in {"skip", "error"}
                   THEN Append(realErrs, j) ELSE realErrs
    /\ pc' = [pc EXCEPT ![j] = "releasing"]
    /\ UNCHANGED <<mainVars, wg, sem, cancelled, expired, returned>>

(* Fault: one append per finding, the lock released in between, modelled   *)
(* by the pages of the job going to both ends of the slice.                *)
RecordSplit(j) ==
    /\ pc[j] = "recording"
    /\ returned[j].kind = "findings"
    /\ allFindings' = <<Head(returned[j].findings)>> \o allFindings
                        \o Tail(returned[j].findings)
    /\ pc' = [pc EXCEPT ![j] = "releasing"]
    /\ UNCHANGED <<mainVars, wg, sem, cancelled, expired, returned,
                   realErrs, skipped>>

(* Fault: the slice is assigned to, not appended to. *)
RecordOverwrites(j) ==
    /\ pc[j] = "recording"
    /\ returned[j].kind = "findings"
    /\ allFindings' = returned[j].findings
    /\ pc' = [pc EXCEPT ![j] = "releasing"]
    /\ UNCHANGED <<mainVars, wg, sem, cancelled, expired, returned,
                   realErrs, skipped>>

(* The goroutine appends to one of the shared slices under mu. *)
Record(j) ==
    /\ pc[j] = "recording"
    /\ CASE returned[j].kind = "findings" ->
              /\ allFindings' = allFindings \o returned[j].findings
              /\ UNCHANGED <<realErrs, skipped>>
         [] returned[j].kind = "skip" ->
              /\ skipped' = Append(skipped, j)
              /\ UNCHANGED <<allFindings, realErrs>>
         [] returned[j].kind = "error" ->
              /\ realErrs' = Append(realErrs, j)
              /\ UNCHANGED <<allFindings, skipped>>
    /\ pc' = [pc EXCEPT ![j] = "releasing"]
    /\ UNCHANGED <<mainVars, wg, sem, cancelled, expired, returned>>

(* Fault: the slot of a job is never given back. *)
ReleaseSlotLeaks(j) ==
    /\ pc[j] = "releasing"
    /\ pc' = [pc EXCEPT ![j] = "finishing"]
    /\ UNCHANGED <<mainVars, wg, sem, cancelled, expired, returned, slices>>

(* defer func() { <-sem }() *)
ReleaseSlot(j) ==
    /\ pc[j] = "releasing"
    /\ sem' = sem - 1
    /\ pc' = [pc EXCEPT ![j] = "finishing"]
    /\ UNCHANGED <<mainVars, wg, cancelled, expired, returned, slices>>

(* defer wg.Done() *)
Done(j) ==
    /\ pc[j] = "finishing"
    /\ wg' = wg - 1
    /\ pc' = [pc EXCEPT ![j] = "done"]
    /\ UNCHANGED <<mainVars, sem, cancelled, expired, returned, slices>>

Cancel ==
    /\ Cancellable
    /\ ~cancelled
    /\ mainPc \in {"building", "spawning", "waiting"}
    /\ cancelled' = TRUE
    /\ UNCHANGED <<mainVars, wg, sem, jobVars, slices>>

(* Fault: a single failure fails the extraction. *)
CollectFailsFast ==
    /\ mainPc = "waiting"
    /\ wg = 0
    /\ mainPc' = "returned"
    /\ result' = IF realErrs # <<>>
                 THEN [NoResult EXCEPT !.outcome = "error"]
                 ELSE [outcome |-> "ok",
                       evidence |-> GroupAndMergeFindings(allFindings)]
    /\ UNCHANGED <<jobs, wg, sem, cancelled, jobVars, slices>>

(* Fault: there is no wg.Wait. *)
CollectWithoutWait ==
    /\ mainPc = "waiting"
    /\ mainPc' = "returned"
    /\ result' = [outcome |-> "ok",
                  evidence |-> GroupAndMergeFindings(allFindings)]
    /\ UNCHANGED <<jobs, wg, sem, cancelled, jobVars, slices>>

(* wg.Wait returned: classify, then group and merge. *)
Collect ==
    /\ mainPc = "waiting"
    /\ wg = 0
    /\ mainPc' = "returned"
    /\ result' = IF realErrs # <<>> /\ allFindings = <<>>
                 THEN [NoResult EXCEPT !.outcome = "error"]
                 ELSE [outcome |-> "ok",
                       evidence |-> GroupAndMergeFindings(allFindings)]
    /\ UNCHANGED <<jobs, wg, sem, cancelled, jobVars, slices>>

Terminated == mainPc = "returned" /\ UNCHANGED vars

Goroutine(j) ==
    \/ AcquireSlot(j)
    \/ CancelledBeforeStart(j)
    \/ Deadline(j)
    \/ ExecuteSucceeds(j)
    \/ ExecuteSkips(j)
    \/ ExecuteFails(j)
    \/ Record(j)
    \/ ReleaseSlot(j)
    \/ Done(j)

Next ==
    \/ BuildJobs
    \/ \E j \in Job : Spawn(j)
    \/ \E j \in Job : Goroutine(j)
    \/ Cancel
    \/ Collect
    \/ Terminated

Spec == Init /\ [][Next]_vars

(***************************************************************************)
(* Fairness: the Go scheduler runs every goroutine that can run, timers    *)
(* fire, and the HTTP client returns once its context is done.  A request  *)
(* that is answered before its deadline is not assumed: a vendor may hang. *)
(***************************************************************************)
Fairness ==
    /\ WF_vars(BuildJobs)
    /\ WF_vars(Collect)
    /\ \A j \in Job :
         /\ WF_vars(Spawn(j))
         /\ WF_vars(AcquireSlot(j))
         /\ WF_vars(Deadline(j))
         /\ WF_vars(ExecuteAborts(j))
         /\ WF_vars(Record(j))
         /\ WF_vars(ReleaseSlot(j))
         /\ WF_vars(Done(j))

FairSpec == Spec /\ Fairness

-----------------------------------------------------------------------------
TypeOK ==
    /\ mainPc \in {"building", "spawning", "waiting", "returned"}
    /\ jobs \in SUBSET Job
    /\ wg \in Nat
    /\ sem \in Nat
    /\ cancelled \in BOOLEAN
    /\ pc \in [Job -> {"unborn", "queued", "executing", "recording",
                       "releasing", "finishing", "done"}]
    /\ expired \in [Job -> BOOLEAN]
    /\ returned \in [Job -> [kind : {"none", "findings", "skip", "error"},
                             findings : Seq(Finding)]]
    /\ allFindings \in Seq(Finding)
    /\ realErrs \in Seq(Job)
    /\ skipped \in Seq(Job)
    /\ result.outcome \in {"none", "ok", "error"}

(* The vendors' APIs never see more than Concurrency extractions at a time *)
(* (runSingleExtractionJob), whichever goroutines queue, hang or give up.  *)
BoundedConcurrency ==
    /\ Cardinality({j \in Job : pc[j] \in Holding}) = sem
    /\ sem <= Concurrency

TimesIn(j, s) == Cardinality({i \in 1..Len(s) : s[i] = j})

Found(j) == \E i \in DOMAIN allFindings : allFindings[i].job = j

(* How often job j was accounted for, in any of the three slices. *)
Accounts(j) ==
    TimesIn(j, realErrs) + TimesIn(j, skipped)
        + (IF Found(j) THEN 1 ELSE 0)

(* When Extract has returned from a batch it accepted, every configured    *)
(* endpoint was executed unconditionally and left exactly one account of   *)
(* itself (findings, a failure or a skip), and no goroutine is left that   *)
(* could still touch the slices.                                           *)
EveryJobAccounted ==
    mainPc = "returned" =>
        /\ \A j \in jobs : pc[j] = "done" /\ Accounts(j) = 1
        /\ \A j \in Job \ jobs : Accounts(j) = 0

(* In s, the findings of job j are pages, one after the other. *)
PagesTogether(j, pages, s) ==
    \E a \in DOMAIN s :
        /\ a + Len(pages) - 1 <= Len(s)
        /\ \A i \in DOMAIN s :
             IF i \in a..a + Len(pages) - 1 THEN s[i] = pages[i - a + 1]
             ELSE s[i].job # j

(* However the jobs interleave, the findings of one job are all there, in  *)
(* page order, without another job's findings among them.                  *)
JobPagesContiguous ==
    \A j \in Job :
        Found(j) => PagesTogether(j, returned[j].findings, allFindings)

(* Extract fails on real failures without a single finding, and only then: *)
(* missing credentials everywhere are no error, and a partial failure      *)
(* still delivers what the other jobs found (executeJobs).                 *)
ErrorOnlyWhenNothingFound ==
    mainPc = "returned" /\ jobs # {} =>
        (result.outcome = "error") <=>
            /\ \E j \in jobs : TimesIn(j, realErrs) > 0
            /\ \A j \in jobs : returned[j].kind # "findings"

EvidenceOf(k) == {n \in DOMAIN result.evidence : result.evidence[n].key = k}

FindingsFor(k) == {i \in DOMAIN allFindings : KeyOf[allFindings[i].job] = k}

ItemsOf(k) == UNION {ToSet(allFindings[i].items) : i \in FindingsFor(k)}

AllArrays(k) == \A i \in FindingsFor(k) : IsJSONArray(allFindings[i])

(* There is one evidence per (evidence ID, source ID) that any job found   *)
(* something for, and when all its pages are arrays it holds every item of *)
(* every page once, the pages of each job in order (groupAndMergeFindings).*)
EvidenceComplete ==
    result.outcome = "ok" =>
        \A k \in Key :
            LET found == {j \in jobs : returned[j].kind = "findings"
                                        /\ KeyOf[j] = k}
            IN  /\ Cardinality(EvidenceOf(k)) = IF found = {} THEN 0 ELSE 1
                /\ AllArrays(k) => \A n \in EvidenceOf(k) :
                    LET items == result.evidence[n].finding.items
                    IN  /\ ToSet(items) = ItemsOf(k)
                        /\ Len(items) = Cardinality(ItemsOf(k))
                        /\ \A a, b \in 1..Len(items) :
                             a < b /\ items[a][1] = items[b][1] =>
                                items[a][2] < items[b][2]

(* Every page a job collected is in the evidence that is signed, as the    *)
(* comment of Execute promises ("one finding per page").                   *)
EveryPageInEvidence ==
    result.outcome = "ok" =>
        \A i \in 1..Len(allFindings) :
            \E n \in 1..Len(result.evidence) :
                ToSet(allFindings[i].items)
                    \subseteq ToSet(result.evidence[n].finding.items)

(* What is recorded stays: the shared slices only grow, and nothing is     *)
(* appended once Extract has read them.                                    *)
RecordsOnlyGrow ==
    [][/\ IsPrefix(allFindings, allFindings')
       /\ IsPrefix(realErrs, realErrs')
       /\ IsPrefix(skipped, skipped')
       /\ mainPc = "returned" => UNCHANGED <<slices, result>>]_vars

(* Extract returns, although a vendor may never answer: the per-job        *)
(* timeout frees the slot.  It needs at least one slot.                    *)
Termination == <>(mainPc = "returned")

(* The loop is a parallel batch: a job is settled by what the slices say   *)
(* of it.                                                                  *)
Settlement(j) ==
    IF j \in ToSet(realErrs) THEN "error"
    ELSE IF j \in ToSet(skipped) THEN "skip"
    ELSE IF Found(j) THEN "findings"
    ELSE "pending"

Batch ==
    INSTANCE ParallelBatch WITH
        Task <- Job,
        Outcome <- {"findings", "skip", "error"},
        Pending <- "pending",
        phase <- CASE mainPc = "building" -> "idle"
                   [] mainPc = "returned" -> "finished"
                   [] OTHER -> "running",
        batch <- jobs,
        outcome <- [j \in Job |-> Settlement(j)]

ImplementsBatch == Batch!Spec
=============================================================================
