# A TLA+ model of Jula

Jula collects compliance evidence from vendors' APIs, stores it signed in an
object store, evaluates policies on it and signs the verdict; a reporter shows
what came out, and a governor has policies written for the controls of a
catalog. This directory holds TLA+ modules of all of them, TLC configurations
that check the modules on small instances, and proofs, checked by TLAPS, that
the properties which matter most hold for every number of runs, files,
assessments, days, goroutines, controls and so on.

## The system

| Component | State it keeps | Operations | Talks to |
|---|---|---|---|
| **collector / orchestrator** (`collector/internal/engine`) | three slices under a mutex, a semaphore, a WaitGroup | `Extract`: build jobs, one goroutine per endpoint, merge findings | REST engine (a call per job) |
| **collector / REST engine and signers** (`collector/internal/providers/universal_rest`) | per call: attempt, backoff, page; per process: Azure token cache | `Execute`: authenticate, retry, paginate | vendors' APIs |
| **collector / run and courier** (`collector/cmd/collector`, `collector/internal/courier`) | local to a run | extract, then put evidence, sidecars, trace log, manifest | object store |
| **collector / trace log** (`collector/pkg/logging`) | one buffer per process | append a line, compress it all | courier |
| **core / object store** (`core/pkg/objstore`) | files, or a bucket; token cache of the GCS client | `Put`, `Get`, `List` | disk, S3, GCS |
| **core / crypto** (`core/pkg/crypto`) | none | sign and verify manifest, provenance, verdict, bundle | all |
| **core / commands** (`core/cmd`) | none | `jula-verify`, `jula-sign-evidence`, `jula-sign-bundle` | object store |
| **assessor** (`assessor`) | local to an assessment | read manifest, load policies, read payloads, gatekeeper, evaluate, write ledger, verdict, results | object store, OPA |
| **reporter** (`reporter`) | none | summaries, scores, trends, reports of ledgers; the same as an MCP server | ledger and verdict files |
| **governor** (`governor`) | `requirements.csv`, the policy files, the translators | import, translate, build, validate | AI endpoints in two tiers, files, people |

Collector and assessor share nothing but the bucket and the calendar. A run
puts its files under `deploy-{id}/{date}`, evidence first and the signed
manifest last; an assessment reads the manifest of its date's directory and
then the files it lists, and writes its own results beside them. The verifier
and the reporter only read. `jula-sign-evidence` may stand in the collector's
place, with files some other tool has collected. The commands of the governor
share `requirements.csv` among themselves and with the people who edit it.

### What is hard about it

* **Concurrency inside a run.** Goroutines share slices and slots; a vendor may
  hang, a job may be cancelled while it waits for its slot.
* **Concurrency between runs.** Every `POST /run` starts a run, keys carry the
  date but no run ID, and `Put` is unconditional: two runs of a day overwrite
  each other file by file while an assessment reads.
* **Crashes and lost answers.** A run or an assessment may die between two
  calls, and a `Put` that reports an error may have been carried out.
* **The calendar.** The run takes the date when its extraction is over, the
  assessment before it reads anything.
* **Resumption.** An import of the governor goes on where a killed one ended,
  from a file that may end in half a row and that people have edited.
* **Waiting.** Token caches ask the token service with their mutex held; a job
  waits there beyond its own deadline.
* **Partial failure.** Missing credentials are no failure, one success among
  failures is a success, a verdict that cannot be written is a line in a log.

`PROJECT.json` lists these hazards one by one with the line where each bites
and the properties that would show it going wrong.

### What makes each component correct

* Orchestrator: never more than `Concurrency` jobs at work; every configured
  endpoint leaves exactly one account; pages of a job stay together and in
  order; no item of an array is lost in the merge; `Extract` returns.
* Courier: the manifest lists exactly what was put, with the hash of what was
  put; leftovers of an earlier run do no harm.
* Assessor: what is evaluated is the whole evidence of one run; a rejection
  means that somebody else wrote; the verdict names what was evaluated.
* Verifier: a run, or a signed directory, that nobody disturbed verifies, and
  what verifies is one whole run, whoever has written into its directory.
* BYO signer: what the gate admits is the whole input of one invocation.
* Token caches: a token handed out is still good, the service is not asked
  more often than the margin demands, and nobody waits too long.
* Reporter: the sections of a report agree with each other and, when nobody
  writes meanwhile, with the verdict; a trend misses no ledger it should have.
* Governor: a call goes through the tiers as configured; a control is asked
  for once; an import that is done covers its catalog; a build that is done
  leaves the last approved policy in every file it could write, and no earlier
  one in a file it could not; every command ends, but for requests that have no
  timeout.

## The modules

| Module | Models | Its state and actions in the code |
|---|---|---|
| `Extraction` | `orchestrator.go` | `mainPc` is the program counter of `Extract`, `pc[j]` that of the goroutine of job `j`; `sem`, `wg`, `allFindings`, `realErrs`, `skipped` are the variables of `executeJobs`. Each lock-protected append, channel operation and WaitGroup call is an action. |
| `RestFetch` | `universal_rest/engine.go`: one call of `Execute`, that is one job of `Extraction` while it is executing | `pc`, `url`, `attempt`, `backoff`, `pages` are the locals of `fetchPaginated` and `fetchSingle`; `now` is the clock, in seconds. One action per outcome of configuring, signing, sending, reading and waiting |
| `ParallelBatch` | what a caller of a fan-out relies on | a batch is refused or accepted; each task settles once; the answer comes when all have settled |
| `Ledger` | bucket, paths, artifacts, hashes, signatures, calendar | `store` maps keys to objects; `Stored` is `Put`; `Midnight` changes the date |
| `Courier` | `handleRun`, `deliverEvidence`, `CloudCourier.Deliver` | `runPc[r]`, and the locals of `Deliver`: `todo`, `current`, `checksums`. One action per `Put`; `PutFails` is a `Put` that returned an error, with or without effect; `CrashRun` is the end of the process |
| `Assessor` | `runAssessmentPipeline`, `CloudReader`, gatekeeper, verdict | `pc[a]`, the manifest, the payloads read so far, the verdicts. One action per `Get` and `WriteFile`; the gate is one action since it works on memory only |
| `JulaVerify` | `verifyChain` | operators on the store |
| `Pipeline` | composes `Courier`, `Assessor`, `JulaVerify` over one `Ledger` | the properties of the system and the inductive invariant |
| `Attestation` | the abstract specification of the pipeline | a run publishes its evidence at one moment and as a whole; an assessment attests to what one run has published |
| `TokenCache` | the token caches of `gcs.go`, `creds.go` and `azure_identity.go` | `queue` holds the goroutines in `resolveToken`, the first one has the mutex; `fetch` is what that one does; `Tick` is time |
| `SignEvidence` | `jula-sign-evidence`: schema gate, files, sidecars, manifest | `signPc[r]`, and the locals of `signDirectory`: `through`, `listed`. One action per `Put`, `SigningFails` is a `Put` with an error or the end of the process |
| `ByoPipeline` | composes `SignEvidence`, `Assessor`, `JulaVerify` over one `Ledger` | the properties of signed directories |
| `Insights` | `reporter/internal/insights`: summary, coverage, maturity, risk, trend | operators on the entries of a ledger |
| `Posture` | `jula-posture` on a local ledger, commands and MCP tool calls, while assessments write | `pc[r]`, `entries`, `verdict`, `unread` of a report; each truncation and each write of a file is an action |
| `Failover` | `aiutil.go`: attempts, pauses, tiers | `call`, `tier`, `attempt` of `ProcessWithRetriesAndFailover`; `requests` is history. One action per kind of answer |
| `Requirements` | `requirements.csv`, what people do to it, and which command is at work where | `header`, `lines`, `cut` (the last line has no end); `command`, `step` |
| `Import`, `PolicyBuild` | `governor/cmd/import`; `governor/cmd/build` and `translate` | the locals of the loops over catalog and file; one action per read, call and write |
| `Governor` | composes `Failover`, `Import`, `PolicyBuild` over `Requirements` | commands one after the other, each killed at any step |
| `PipelineProofs`, `RestFetchProofs`, `ExtractionProofs`, `TokenCacheProofs`, `ByoProofs`, `PostureProofs`, `GovernorProofs` | theorems and proofs | |
| `DataLemmas` | nothing: facts about finite sets, sums, sorting and recursive definitions that the proofs share | |
| `MCExtraction`, `MCRestFetch`, `MCPipeline`, `MCByo`, `MCPosture`, `MCGovernor` | instances for TLC (`TokenCache` needs none) | |

Abstractions. Evidence is a file name and the run it was collected by. Hashes
and signatures are symbolic, so that two hashes are equal exactly when what
was hashed is, and nobody signs without the key; breaking them is not
considered. The body of a page is one of three shapes, JSON array, JSON object
or `null`, and the items in it; encoding the merged items again
(`orchestrator.go:149`) is taken to succeed and to keep them. Policies are reduced to the verdict they yield, one per
Rego package. `disturbed` and `published` in `Courier` are history variables:
no action reads them.

Where an action is coarser than the code: `BeginDelivery` joins the end of the
extraction with reading the clock, which nobody can observe in between;
`PassGate` and `Reject` join all checks on the payloads in memory; `Evaluate`
joins the evaluation of all controls. `Extraction` is checked on its own: the
pipeline takes from it that an extraction ends with some evidence, none, or an
error. `Extraction` in turn takes from `RestFetch` that a call returns some
pages, a failure or a skip.

In `RestFetch` the vendor is whatever it likes to be: each answer picks a
status and the URL of a next page. A page is its URL and where it leads, so
resolving relative URLs and the path of the cursor are left out. Time passes
where the code waits, and by as much as a constant set allows; a signer takes
its time whatever the context says, since the client for ECS credentials has a
timeout of its own and the lock of the Azure cache none. `open`, `notBefore`,
`requests` and `signing` are only there for the properties.

In `TokenCache` the mutex goes to the goroutine that has waited longest, or to
one that arrives while it is free (`Overtake`): in its normal mode a
`sync.Mutex` only wakes the longest waiter at an unlock, and an arriving
goroutine may be faster. Starvation mode, which a waiter switches on when it
loses after more than a millisecond, would end that; it is left out, so the
model lets a goroutine be overtaken more often than the program does, and the
bounds on its wait count how often it was. A tick is any time a token service
may take. Tokens for which the service states no lifetime are left
out. In `Posture` an assessment is its findings, which come from a small set; a
run date is a day, and findings always carry one, so the date a trend takes
from elsewhere for a ledger without dates is left out. Rates and simulated
losses are functions of the counts and are left out too. `Courier` and
`SignEvidence` assume one file name per evidence.

In the governor a requirement is a control, a provider and a status, a policy
is the row it was generated from, and `os.WriteFile` is two steps: it empties
the file, and then writes it, fails, or is killed, which leaves the file
`Torn`. The AI answers whatever it likes,
`APPROVED` included. What a person does between two commands is to change the
status of a row (`Decide`) or to mend a half-written one (`Repair`). The
history fields `run` and `asked` of a row and the history variable `requests`
are read by no action.

Operators preceded by a comment that begins with "Fault:" are variants of an
action or helper with a plausible bug. No specification uses them; they show
that each property notices the bug it is there for.

## The runs

| Run | Instance | What it shows |
|---|---|---|
| `extraction` | 2 integrations, 3 jobs, 2 of them with the same key, 2 slots, cancellable context, one or two pages of arrays, an object, or `null`; 297k states | the invariants of the orchestrator, its termination, and that it implements `ParallelBatch` |
| `extraction_pages` | the same, pages are objects | *violated*: pages but the last are dropped |
| `rest_fetch` | every configuration, 2 URLs, 2 pages at most, 4 attempts, backoff from 2 s, deadline 16 s, client timeout 5 s, `Retry-After` of 0, 3 or 20 s; 872k states | what is returned is the vendor's chain of pages; requests and time are bounded; answers are closed; `Retry-After` is honoured |
| `rest_fetch_skip` | the same | *violated*: a failing signer is a skip for missing credentials |
| `pipeline` | 2 runs of up to 2 evidences, 1 assessment, 1 day; 817k states up to symmetry | `AttestsOneWholeRun`, `NoFalseAlarm`, `UndisturbedRunVerifies`, `VerifiedIsOneWholeRun`; the pipeline implements `Attestation` |
| `pipeline_live` | 1 run of 1 evidence, 2 assessments in one process, 1 control, midnight, fairness; 204k states | runs and assessments end; `SameDay`, `VerdictSound`, the inductive invariant |
| `governor` | 3 commands, 2 attempts per tier, both tiers, 2 controls that share a policy file, 2 providers of which 1 is active, catalogs of 1 and 2 entries, a fallback tier whose timeout is 0, fairness; 385k states | calls follow the policy, nothing is asked for twice, an import covers its catalog, a build leaves what was approved last unless its write failed, commands end unless something without a timeout hangs |
| `governor_model` | the same, the fallback serves its own model only | *violated*: the fallback tier is asked for the model of the primary |
| `tokens` | each of the three caches, 3 goroutines, margin 2, tokens of 1 and 4 ticks, service timeout 1, job timeout 2, one overtaking per goroutine, 7 ticks; 3.9M states | tokens handed out are good, fetches are spread, waits are bounded |
| `byo` | 2 invocations on 3 and 2 files, among them one with the name of another's sidecar, 1 assessment, 2 days; 296k states | a directory that one invocation signed verifies exactly if no names collide and its sidecars are signed; the gate admits one whole input of the day |
| `byo_assessed` | 1 invocation, with the schema gate | *violated*: signed evidence is left out of the evaluation |
| `posture` | 2 assessments, 1 report, 3 days, a trend of 1 day back, ledgers of 0 and 4 findings, one family `FAILED` only; 3.3M states up to symmetry | sections agree; a quiet report agrees with its verdict; trends are complete |

Why the bounds are enough. With three jobs over two slots one job waits while
two are at work, and with two jobs of one key findings of different jobs meet
in the merge. Two runs are needed, and enough, for anything one run can do to
another: every property speaks of one manifest and of some run that is not its
own. Two evidences are needed for a run that is half way through, two days for
anything the calendar can do. Two assessments are the fewest that overwrite
each other's results, and they share a process so that schema drift of one
ends the other. The times of `rest_fetch` let the four attempts end before the
deadline, after it and in a pause cut short by it; two URLs are enough for a
circle. Three goroutines make one that waits behind another that waits, one of
them may overtake the other two, and seven ticks let a token expire, be renewed
and expire again. Three commands are
an import, one that resumes it after a kill or an edit, and a build of what
both have left, in any order; two controls with one file name are needed for
policies that overwrite each other, and an AI that names the wrong provider for
rows filed elsewhere. In `posture` three days put one ledger before the window
of a trend and one on either edge of it. Its two outcomes of an
evaluation differ in number and in every count, so a report that mixes them
shows. The inputs of `byo` hold no sidecar
that is unsigned, since a third invocation takes minutes; the theorem covers
it. The theorems then remove the bounds from every safety property of a run
that passes.

`CHECK_DEADLOCK FALSE` is set where everything may be over and nothing is left
to do: once all runs, invocations, assessments and reports have ended, the
bound on the commands is reached, or the time of `tokens` is used up. Runs are
interchangeable in `pipeline`, and assessments in `posture`, so their
permutations are declared a symmetry there; liveness is checked without
symmetry.

### Fairness

*Extraction*: weak fairness of every step of a goroutine that is only waiting
for the Go scheduler, of the per-job deadline (a timer), and of the return of
`execute` once its context is done (`http.NewRequestWithContext`). That a
vendor answers is not assumed. Weak fairness is enough for `AcquireSlot`: each
job takes a slot once, so after finitely many others have come and gone a free
slot stays free until the goroutine that waits takes it.

*Pipeline*: weak fairness of the steps of a run that has started and of an
assessment that has started; each is a sequence of calls that return or time
out. Whether a call succeeds, whether a process crashes and whether anything is
started at all is left open.

*Governor*: weak fairness of the steps of a command, except while it waits for
something that need not end (`Hanging`): a catalog is downloaded with `http.Get`,
which has no timeout (`import/main.go:208`, `:665`), and an AI endpoint whose
`JULA_*_TIMEOUT_SEC` is 0 has none either (`aiutil.go:95`, `:202`); the run has
such an endpoint. `CommandsEnd` therefore says that a command ends or hangs in
one such request for ever. Every other request of a command has a timeout,
every pause an end, and the rest are steps of one goroutine.

## What the code does not keep

Four statements of the repository do not hold; each has a run whose
counterexample shows it, and an entry under `findings` in `PROJECT.json`.

1. *One finding per page, merged* (`engine.go:64`, `CHANGELOG.md:47`).
   `mergeFindingsGroup` keeps the last page only unless every page is a JSON
   array. A cursor in the body makes the pages objects, so an endpoint
   paginated that way always loses all pages but its last.
2. *Missing credentials* (`engine.go:27`, `orchestrator.go:279`). `applyAuth`
   wraps every failure of a signer in `ErrMissingCredentials`, so a token
   service that is down makes the job a skip, not a failure.
3. *The model is set per tier* (`import/main.go:532`). The request goes to the
   fallback tier with the model of the primary; `JULA_FALLBACK_MODEL` is read
   and never used.
4. *Evidence consumed by the assessor* (`core/schemas/README.md:3`). The
   sidecars of `jula-sign-evidence` have another name than the assessor looks
   for, so that it warns and evaluates none of the files.

Three more were seen in the model and have no run of their own:

* *Immutable ledger* (`README.md:158`, `:298`). The second run of a day
  replaces files of the first under the same keys. If it dies before its
  manifest, the manifest of the first no longer verifies; this is why
  `UndisturbedRunVerifies` speaks of undisturbed runs. Bucket versioning keeps
  the old objects, but no reader asks for versions.
* *The chain of a run* (`VERIFY.md:5`). `jula-verify` never compares the run ID
  of the verdict with that of the manifest.
* *Only families with a NON_COMPLIANT control are simulated* (`risk.go:79`).
  The code counts every verdict but `COMPLIANT` (`risk.go:88`), and the assessor
  also gives `FAILED`, for missing evidence or an evaluation error (`opa.go:24`):
  a family with nothing worse than that is simulated too. `SectionsAgree`
  states what the code does, since that is what agrees with the failures in the
  summary, and the ledgers of the run have such a family; read as the comment
  has it, its last conjunct would be violated.

None of them lets an assessment evaluate a mixture: that is what
`AttestsOneWholeRun` and `GateAdmitsOneInput` say, and both are proved.

Facts about the code that no document denies, but that explain the shape of a
property:

* `CompletedImportCovers` says "or a file that the next import refuses": a row
  cut in its first field cannot be told from a row, and a cut row makes every
  later import stop until somebody repairs the file. `TriagedOnce` asks for the
  header: without one every import asks anew.
* The AI may answer `APPROVED` itself, and a row it files under another
  provider than it was asked for is asked for again.
* A build never removes the policy of a requirement whose approval was
  withdrawn, which is why `CompletedBuildIsLastApproved` speaks of the files
  the build has opened.
* A policy that was reported as saved is lost when the same build fails to write
  a later one of the same file: `os.WriteFile` empties the file first
  (`build/main.go:194`), the error is a line of output, and the build goes on to
  its end. The property says so: the file then holds the policy of that last row
  or is cut, and never that of an earlier row. What earlier builds left is lost
  in the same way, and by a kill.
* Two controls whose names are sanitized to one file name share the file.
* The summary is called verified when the signature of the verdict is valid;
  the hash of the ledger in it is never compared with the ledger
  (`summary.go:70`). `QuietReportAgrees` therefore needs one author for both
  files. Two authors do not take two assessments at once: one that dies between
  ledger and verdict, or one whose ledger cannot be written, which is logged
  before the verdict is written all the same (`assessor/cmd/assessor/main.go:439`,
  `:477`), leaves its own file beside one of an earlier assessment, and such a
  summary may be called verified. With an invalid signature `summary` exits with 1, `export` and the MCP
  tools show the report as not verified.
* `CachedTokenGood` subtracts the time the answer of the token service took,
  because the GCS and Azure caches count a lifetime from its arrival.

## The proofs

`PipelineProofs` proves, for every `Run`, `Evid`,
`MaxDay`, `Assessment` and `Process`, finite or not, and every finite `Control`:

| Theorem | States |
|---|---|
| `TypeCorrect` | of the pipeline: `Spec => []TypeOK` |
| `AttestsOneWholeRunAlways` | `Spec => []AttestsOneWholeRun` |
| `SameDayAlways` | `Spec => []SameDay` |
| `UndisturbedRunVerifiesAlways` | `Spec => []UndisturbedRunVerifies` |
| `VerifiedIsOneWholeRunAlways` | `Spec => []VerifiedIsOneWholeRun` |
| `NoFalseAlarmAlways` | `Spec => []NoFalseAlarm` |
| `InductiveInvariant` | `Spec => []IInv`, the inductive invariant |
| `PipelineImplementsAttestation` | `Spec => ImplementsAttestation` |
| `VerdictSoundAlways` | `Spec => []VerdictSound` |

`RestFetchProofs` proves, for every vendor (`Url`), limit, time and timeout:

| Theorem | States |
|---|---|
| `FetchTypeCorrect` | `Spec => [](TypeOK /\ OneBodyOpen)` |
| `BodiesClosedAlways` | `Spec => []BodiesClosed` |
| `WithinTimeoutAlways` | `Spec => []WithinTimeout` |
| `RetryAfterHonouredAlways` | `Spec => RetryAfterHonoured` |
| `FollowsTheChainAlways` | `Spec => []FollowsTheChain` |
| `BoundedRequestsAlways` | `Spec => []BoundedRequests` |

Assumptions: `MaxDay` is a positive natural number, `None` is no evidence,
`Control` is finite, and `ProcessOf` maps assessments to processes; for
`RestFetch` that `Start` is a URL and `None` is not, that at least one page is
asked for, and that times are natural numbers, those of `Retry-After` integers.
All are assumptions of the modules and evaluated by TLC in every run.

The argument. `AttestsOneWholeRun` is not inductive: it says nothing of the
manifest before it is read. The invariant follows a manifest from the run to
the gate:

* `BookKeeping`: at every point of its upload the checksums of a run are
  exactly those of the files of the evidence it is through with, and a run that
  has published has listed everything.
* `ManifestsWhole`: every manifest in the ledger, and every one an assessment
  holds, is that of a run that has published, on the day of that directory.
* `GateHolds`: nothing is evaluated before the gate. At the gate every payload
  has the hash in the manifest, and since a hash stands for what was hashed,
  the payloads are the files of the one run that `ManifestsWhole` names,
  whoever has written in between. This is where overlapping runs are harmless.
* `UndisturbedKept`: what a run has put stays until another run of the same
  directory puts something; it needs `BookKeeping`, because it speaks of the
  checksums.
* `UndisturbedRead`: an assessment that reads the files of an undisturbed run
  has read what it delivered.

The first three and the types are inductive by themselves (`CoreInvariant`) and
yield `AttestsOneWholeRun`, `SameDay` and `VerifiedIsOneWholeRun` (an auditor
checks the same hashes as the gate, against the store instead of what was
read); the last two and `NoFalseAlarm` are inductive together with them
(`LedgerInvariant`). The refinement maps a step to
`Publish` when the store takes a manifest, whatever the run is told of it, to
`Attest` when the gate is passed, and to a stutter otherwise; it needs
`GateHolds` to know that what is attested is what was published.

For `Execute` the types need `OneBodyOpen` (an answer is closed only by the
one who reads it), and the properties the following, each inductive with the
types: `WithinTimeout` itself; `PauseLongEnough`, that a pause due ends no
sooner than the vendor asked; `Linked`, that `url` is what comes after the
pages so far; `WithinBudget`, that the requests sent are paid for by the pages
fetched and the attempts made.

`VerdictSoundAlways` adds to the invariant of the pipeline that behind every
verdict in the ledger there is a settled assessment (`Issued`): what it found,
its manifest and its evidence do not change any more, its findings are about
the policies that were loaded (`FindingsWhole`), and the two counts add up to
their number. Counting takes finitely many controls: no other theorem uses
`ControlAssumption`.

`ExtractionProofs`, for any endpoints, slots and answers of the vendors:

| Theorem | States |
|---|---|
| `ExtractionInvariant` | `Spec => [](TypeOK /\ Inv)` |
| `BoundedConcurrencyAlways` | `Spec => []BoundedConcurrency` |
| `EveryJobAccountedAlways` | `Spec => []EveryJobAccounted` |
| `JobPagesContiguousAlways` | `Spec => []JobPagesContiguous` |
| `ErrorOnlyWhenNothingFoundAlways` | `Spec => []ErrorOnlyWhenNothingFound` |
| `RecordsOnlyGrowAlways` | `Spec => RecordsOnlyGrow` |
| `ExtractionImplementsBatch` | `Spec => ImplementsBatch` |
| `EvidenceCompleteAlways` | `Spec => []EvidenceComplete` |
| `NoSlotsNoAnswer` | with `Concurrency = 0`: `Spec => []WaitsForever` |

The invariant: `Slots`, that the slots taken are those of the goroutines that
hold one; `WaitGroup`, that it counts the goroutines between `Add` and `Done`;
`Phases`, where goroutines can be while `Extract` builds, collects or is done;
`Returns`, what a goroutine holds before it is recorded; `Recorded` and
`RecordedOnce`, that a settled job is in exactly the slice its return belongs
to, once; `Classified`, that the answer of `Extract` follows from the slices.
The refinement maps a step to the acceptance of the batch, the settlement of
the job it records, or the answer.

`EvidenceComplete` needs what lies behind the slices: `PagesNumbered`, that a
goroutine returns its pages by number with one item on each, and `Evidenced`,
that the answer is `GroupAndMergeFindings` of everything recorded. The rest is
about the grouping and the merge, for any slice in which the pages of each job
come in order (`Paged`): a key has one group, a group keeps that order, and
items merged from such a group rise, so that each comes once (`Rising`,
`OneEvidence`). The loops over the slice are recursive functions; since the
induction theorems of the library cannot be instantiated, `DataLemmas` has
induction up to a bound (`UpTo`) and the existence of recursive functions
(`RecursionExists`) as lemmas about sets.

`NoSlotsNoAnswer` is the reason `Concurrency` is positive in the runs: the code
accepts 0 (`run.go:44`), and then no goroutine gets past the semaphore and
`Extract`, once it has a job, returns only if its context is cancelled.

`TokenCacheProofs` (`CachedTokenGoodAlways`, `FetchesSpreadAlways`,
`WaitBoundedAlways`), for any number of goroutines, margin, timeouts and
lifetimes: `TokensIssued`, that a token ends when the service said;
`HolderInTime`, that whoever holds the mutex has just got it or is within the
timeout of its request; `PlacesInTime`, that the goroutine at a place of the
queue has seen at most as many requests as there were goroutines before it or
overtaking it, less those still before it; `JobsInTime`, that in the collector
all those before a goroutine are done when the time of a job has passed, and
once more for each that overtook it (`DoneBy`). The proofs do not use
`MaxOvertaken`: the bounds hold however often a goroutine is overtaken, in
terms of how often it was.

`ByoProofs`, for any invocations, inputs, days and assessments:

| Theorem | States |
|---|---|
| `ByoTypeCorrect` | of signed directories: `Spec => []TypeOK` |
| `GateAdmitsOneInputAlways` | `Spec => []GateAdmitsOneInput` |
| `SignedDirectoryVerifiesAlways` | `Spec => []SignedDirectoryVerifies` |
| `VerifiedIsOneWholeInputAlways` | `Spec => []VerifiedIsOneWholeInput` |

The invariant: `Progress`, how far an invocation is with its files; `Lists`,
that its list holds the two entries of each file it is through with and nothing
else; `StoredManifests` and `HeldManifests`, that every manifest in the ledger
or in the hands of an assessment is that of an invocation of the same day which
was through with its whole input. At the gate the payloads have the hashes of
that list, and so have the files in the ledger when `jula-verify` accepts them.
`SignedDirectoryVerifies` needs `AllDelivered` besides: as long as an
invocation has its directory to itself, what it has put there stays, unless two
of its own files share a path. That a directory with a collision never verifies
follows from the list alone, which then asks for two contents under one path.

Assumed of `Input` is that files are evidence, tables or sidecars
(`InputAssumption`) and, for `SignedDirectoryVerifies` only, what walking a
directory guarantees (`WalkAssumption`): names are distinct, and no file is a
sidecar that this invocation has yet to sign. The first proof of `SignedDirectoryVerifies`
failed on a statement that was false: an input with the name of a sidecar that
the key never signed is listed in the manifest, and `jula-verify` rejects it in
its third step. The property now says so (`SidecarsSigned`).

`PostureProofs`, for any assessments, reports, days and mappings of families,
and ledgers of any length:

| Theorem | States |
|---|---|
| `PostureInvariant` | `Spec => []PInv`, the inductive invariant |
| `QuietReportAgreesAlways` | `Spec => []QuietReportAgrees` |
| `TrendCompleteAlways` | `Spec => []TrendComplete` |
| `TrendHasAnswerAlways` | `Spec => []TrendHasAnswer` |
| `SectionsAgreeAlways` | `Spec => []SectionsAgree` |

The invariant: `FilesOfAuthors`, that a file is torn or holds what its last
author says; `ReadsCurrent`, that what a report has read is what the file holds
until somebody writes to it; `ShowsWhatItRead`, that sections are computed from
what was read; `TrendReads`, that a ledger nobody has written to since is still
to be read or among the readings; `TrendShows`, that the trend is an order of
the readings. `sort.Slice` is not stable, so `TrendOrders` is the set of all
sorted orders; that one always exists, for any readings, is `TrendHasAnswer`.
`SectionsAgree` compares counts with sums over functions and families.
`DataLemmas` proves what that takes, again without the induction theorems: two
sums that differ would differ on a smallest set. Assumed is that the CSF mapping
leads to CSF functions (`CsfAssumption`), that what an evaluation finds are
sequences of findings on known controls (`FindingsAssumption`), and that the
window of a trend is a number of days (`WindowAssumption`).

`GovernorProofs`, for any controls, providers, catalogs, tiers, answers, and
numbers of attempts and commands:

| Theorem | States | Rests on |
|---|---|---|
| `GovernorTypeCorrect` | `Spec => []TypeOK` | `Basis`: what each kind of command may hold at each step |
| `CallFollowsPolicyAlways` | `Spec => []CallFollowsPolicy` | `CallHistory`: the requests so far are in order, and account for the tier and the attempt |
| `TriagedOnceAlways` | `Spec => []TriagedOnce` | `RowsKnown`: by the time an import asks for anything it knows every row that is not its own |
| `CompletedImportCoversAlways` | `Spec => []CompletedImportCovers` | `EntriesCovered`: what is taken for processed is in the file, and so is a row for every entry the import is past, but those it missed |
| `CompletedBuildIsLastApprovedAlways` | `Spec => []CompletedBuildIsLastApproved` | `RowsBuilt`: the property at every row of a build, for the rows the build has opened a file for (`begun`), the one being written included |

Only model-checked: liveness (`Termination`, `EverythingEnds`, `CommandsEnd`),
which is out of the prover's reach, and with it the fairness of the
specifications; no theorem uses it. Every safety property and both refinements
that a passing run checks have a theorem. Two theorems state what no run
checks, `VerifiedIsOneWholeInput` and `TrendHasAnswer`: they follow from the
invariants of properties that the runs do check.

## Not modelled

Signature algorithms and HTTP clients (bytes and library calls), rendering, PDF
and OSCAL layout (formatting), Monte Carlo losses (random numbers), reading and
downloading of catalogs, integrations, policies and metadata (a step that may
fail), `governor validate` (asks OPA to parse files and writes nothing), bundle
signing (one process, nothing in between), platform detection, examples and
mocks. The bucket is atomic except in `Posture`, where the local store
truncates and rewrites a file in place; the pipeline is not meant to run on it.
Of the local files, `requirements.csv`, the governor's policies and translators
and the files of `Posture` may be cut or half written; the others are written
at once. A trend does not tell a directory that
the walk cannot enter (`trend.go:36`) from one that is not there. The capacity
of the error channel of `ReadPayloads` (`ingestion/cloud.go:68`) is left out: it
has room for one error of every file, and a smaller one would not show in the
model. The trace log is one object per run; that the runs of one process share the
buffer behind it changes the content of a log and nothing else.

## Plan

Done: `Ledger`, `Courier`, `Assessor`, `JulaVerify`, `Pipeline`, `Attestation`;
`Extraction`, `ParallelBatch`; `RestFetch`; `TokenCache`; `SignEvidence`,
`ByoPipeline`; `Insights`, `Posture`; `Failover`, `Requirements`, `Import`,
`PolicyBuild`, `Governor`; and the proofs of all of them.

What could follow: signed directories as a second implementation of
`Attestation`, which takes a history variable for the moment an invocation
publishes; how a bucket URL becomes a directory (`assessor/cmd/assessor/main.go:152`),
so that collector, assessor and verifier can be compared on it; and the trace
log's shared buffer (`handler.go:94`).
