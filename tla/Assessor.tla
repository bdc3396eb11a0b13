------------------------------ MODULE Assessor ------------------------------
(***************************************************************************)
(* An assessment: runAssessmentPipeline (assessor/cmd/assessor/main.go)    *)
(* with its reader (assessor/internal/ingestion/cloud.go) and gatekeeper   *)
(* (assessor/internal/crypto/gatekeeper.go).                               *)
(*                                                                         *)
(* Several assessments may run at once, in one serve process or in         *)
(* several.  Each reads the manifest of its date's directory, then the     *)
(* payloads it lists, one Get per file in any order; then it checks what   *)
(* it read, evaluates the policies on it and writes ledger, verdict and    *)
(* OSCAL results into the same directory.  The limit of ten concurrent     *)
(* downloads is left out: a download that waits for its slot is one that   *)
(* has not happened yet.                                                   *)
(*                                                                         *)
(* Evaluation is abstracted to one verdict per control policy, chosen      *)
(* freely: Rego policies are data, and a policy that does not compile, an  *)
(* evaluation that errs or runs out of time, and an empty result are       *)
(* FAILED.                                                                 *)
(***************************************************************************)
EXTENDS Ledger, FiniteSets

CONSTANTS
    Assessment,     \* the invocations of handleRun
    Process,        \* the assessor processes
    ProcessOf,      \* the process that serves each assessment
    Control         \* the control policies (Rego packages) there may be

ASSUME ProcessOfAssumption == ProcessOf \in [Assessment -> Process]
ASSUME ControlAssumption == IsFiniteSet(Control)

VerdictCompliant == "COMPLIANT"
VerdictDrifted == "SCHEMA_DRIFT"
ComplianceVerdict == {VerdictCompliant, "NON_COMPLIANT", "FAILED", VerdictDrifted}

VARIABLES
    pc,         \* where each assessment is
    day,        \* the date of its bucket URL
    manifest,   \* the manifest it verified
    payloads,   \* what ReadPayloads has read so far, by path
    registered, \* the control policies loaded
    pending,    \* the files still to be read
    readFailed, \* a read sent to the errs channel
    evaluated,  \* the evidence handed to the engine
    findings    \* allFindings: the verdict of each control policy

assessorVars == <<pc, day, manifest, registered, payloads, pending, readFailed,
                  evaluated, findings>>
readVars == <<payloads, pending, readFailed>>
heldVars == <<day, manifest, registered>>

AssessmentOver == {"compliant", "noncompliant", "failed", "rejected",
                   "exited", "crashed"}
AssessmentPc == {"idle", "ingesting", "policies", "reading", "evaluating",
                 "ledger", "verdict", "results"} \cup AssessmentOver

(* Past the gate: its findings are about evidence it has verified. *)
Attesting == {"evaluating", "ledger", "verdict", "results", "compliant",
              "noncompliant"}

AssessorInit ==
    /\ pc = [a \in Assessment |-> "idle"]
    /\ day = [a \in Assessment |-> 1]
    /\ manifest = [a \in Assessment |-> None]
    /\ registered = [a \in Assessment |-> {}]
    /\ payloads = [a \in Assessment |-> [p \in {} |-> None]]
    /\ pending = [a \in Assessment |-> {}]
    /\ readFailed = [a \in Assessment |-> FALSE]
    /\ evaluated = [a \in Assessment |-> {}]
    /\ findings = [a \in Assessment |-> [c \in {} |-> VerdictCompliant]]

Move(a, label) == pc' = [pc EXCEPT ![a] = label]

-----------------------------------------------------------------------------
(* Fault: the date is that of a time zone ahead of UTC. *)
StartAssessmentAhead(a) ==
    /\ pc[a] = "idle"
    /\ day' = [day EXCEPT ![a] = today + 1]
    /\ Move(a, "ingesting")
    /\ UNCHANGED <<ledgerVars, manifest, registered, readVars, evaluated,
                   findings>>

(* resolveBucketURL takes the date before anything is read. *)
StartAssessment(a) ==
    /\ pc[a] = "idle"
    /\ day' = [day EXCEPT ![a] = today]
    /\ Move(a, "ingesting")
    /\ UNCHANGED <<ledgerVars, manifest, registered, readVars, evaluated,
                   findings>>

(* Fault: the date is taken anew for the manifest. *)
ReadManifestOfToday(a) ==
    LET m == store[ManifestFile(today)]
    IN  /\ pc[a] = "ingesting"
        /\ Exists(ManifestFile(today))
        /\ Verifies(m, CollectorKey)
        /\ manifest' = [manifest EXCEPT ![a] = m]
        /\ Move(a, "policies")
        /\ UNCHANGED <<ledgerVars, day, registered, readVars, evaluated, findings>>

(* executeIngestionPhase *)
ReadManifest(a) ==
    LET m == store[ManifestFile(day[a])]
    IN  /\ pc[a] = "ingesting"
        /\ Exists(ManifestFile(day[a]))
        /\ Verifies(m, CollectorKey)
        /\ manifest' = [manifest EXCEPT ![a] = m]
        /\ Move(a, "policies")
        /\ UNCHANGED <<ledgerVars, day, registered, readVars, evaluated, findings>>

(* There is no manifest, or its signature is wrong. *)
NoManifest(a) ==
    /\ pc[a] = "ingesting"
    /\ Exists(ManifestFile(day[a])) =>
         ~Verifies(store[ManifestFile(day[a])], CollectorKey)
    /\ Move(a, "failed")
    /\ UNCHANGED <<ledgerVars, heldVars, readVars, evaluated, findings>>

(* filterValidEvidenceFiles: the trace log is not read. *)
ValidFiles(m) == {f \in m.files : f.path.kind # "log"}

(* executeOPASetupPhase; then ReadPayloads starts a goroutine per file.    *)
LoadPolicies(a) ==
    /\ pc[a] = "policies"
    /\ \E controls \in SUBSET Control :
         registered' = [registered EXCEPT ![a] = controls]
    /\ pending' = [pending EXCEPT ![a] =
                     {f.path : f \in ValidFiles(manifest[a])}]
    /\ Move(a, "reading")
    /\ UNCHANGED <<ledgerVars, day, manifest, payloads, readFailed, evaluated,
                   findings>>

ReadPayload(a, path) ==
    /\ pc[a] = "reading"
    /\ path \in pending[a]
    /\ pending' = [pending EXCEPT ![a] = @ \ {path}]
    /\ IF Exists(path)
       THEN /\ payloads' = [payloads EXCEPT ![a] =
                              WithEntry(@, path, store[path])]
            /\ UNCHANGED readFailed
       ELSE /\ readFailed' = [readFailed EXCEPT ![a] = TRUE]
            /\ UNCHANGED payloads
    /\ UNCHANGED <<ledgerVars, pc, heldVars, evaluated, findings>>

(* The Get failed, or the five minutes of the assessment are over. *)
ReadFails(a, path) ==
    /\ pc[a] = "reading"
    /\ path \in pending[a]
    /\ pending' = [pending EXCEPT ![a] = @ \ {path}]
    /\ readFailed' = [readFailed EXCEPT ![a] = TRUE]
    /\ UNCHANGED <<ledgerVars, pc, heldVars, payloads, evaluated, findings>>

(* Fault: nobody drains the errs channel. *)
AssessmentIgnoresErrs(a) ==
    /\ pc[a] \in {"ingesting", "policies", "verdict"}
    /\ Move(a, "failed")
    /\ UNCHANGED <<ledgerVars, heldVars, readVars, evaluated, findings>>

(* ReadManifest, downloadPolicies, LoadPolicies or Compile returned an     *)
(* error, or ReadPayloads did once all its goroutines were done, or the    *)
(* signing key of the verdict could not be parsed.                         *)
AssessmentFails(a) ==
    /\ \/ pc[a] \in {"ingesting", "policies", "verdict"}
       \/ pc[a] = "reading" /\ pending[a] = {} /\ readFailed[a]
    /\ Move(a, "failed")
    /\ UNCHANGED <<ledgerVars, heldVars, readVars, evaluated, findings>>

-----------------------------------------------------------------------------
(* Fault: presence is checked, the hash is not. *)
VerifyPresence(a) ==
    \A f \in ValidFiles(manifest[a]) : f.path \in DOMAIN payloads[a]

(* Every file of the manifest is there, with the hash of the manifest. *)
VerifyPayloads(a) ==
    \A f \in ValidFiles(manifest[a]) :
        /\ f.path \in DOMAIN payloads[a]
        /\ Hash(payloads[a][f.path]) = f.sha256

EvidencePaths(a) == {f.path : f \in {g \in ValidFiles(manifest[a]) :
                                       g.path.kind \notin SidecarKind}}

(* .json is cut off before .prov.json is hung on. *)
SidecarOf(path) ==
    [path EXCEPT !.kind = IF path.kind = "csv" THEN "csv_prov" ELSE "provenance"]

(* An evidence file without a sidecar is skipped with a warning. *)
WithSidecar(a) == {p \in EvidencePaths(a) : SidecarOf(p) \in DOMAIN payloads[a]}

(* It unmarshals into an Evidence. *)
IsEvidence(content) == "payloadHash" \in DOMAIN content

(* verifyEvidenceProvenance returns no error. *)
VerifyEvidenceProvenance(a, path) ==
    LET prov == payloads[a][SidecarOf(path)]
        payload == payloads[a][path]
    IN  /\ Verifies(prov, CollectorKey)
        /\ IsEvidence(payload)
        /\ prov.payloadHash = payload.payloadHash

(* Fault: the evidence is fetched again after it was verified. *)
PassGateReadsAgain(a) ==
    /\ pc[a] = "reading"
    /\ pending[a] = {}
    /\ ~readFailed[a]
    /\ VerifyPayloads(a)
    /\ \A p \in WithSidecar(a) : VerifyEvidenceProvenance(a, p)
    /\ evaluated' = [evaluated EXCEPT ![a] =
                       {store[p] : p \in WithSidecar(a)}]
    /\ Move(a, "evaluating")
    /\ UNCHANGED <<ledgerVars, heldVars, readVars, findings>>

PassGate(a) ==
    /\ pc[a] = "reading"
    /\ pending[a] = {}
    /\ ~readFailed[a]
    /\ VerifyPayloads(a)
    /\ \A p \in WithSidecar(a) : VerifyEvidenceProvenance(a, p)
    /\ evaluated' = [evaluated EXCEPT ![a] =
                       {payloads[a][p] : p \in WithSidecar(a)}]
    /\ Move(a, "evaluating")
    /\ UNCHANGED <<ledgerVars, heldVars, readVars, findings>>

(* GATEKEEPER FAILURE, or a sidecar that does not fit its evidence. *)
Reject(a) ==
    /\ pc[a] = "reading"
    /\ pending[a] = {}
    /\ ~readFailed[a]
    /\ VerifyPayloads(a) =>
         \E p \in WithSidecar(a) : ~VerifyEvidenceProvenance(a, p)
    /\ Move(a, "rejected")
    /\ UNCHANGED <<ledgerVars, heldVars, readVars, evaluated, findings>>

-----------------------------------------------------------------------------
(* evaluate: every control policy, over all the evidence. *)
Evaluate(a) ==
    /\ pc[a] = "evaluating"
    /\ \E verdicts \in [registered[a] -> ComplianceVerdict \ {VerdictDrifted}] :
         findings' = [findings EXCEPT ![a] = verdicts]
    /\ Move(a, "ledger")
    /\ UNCHANGED <<ledgerVars, heldVars, readVars, evaluated>>

(* handleSchemaDriftFinding: a drifted control ends the process with       *)
(* os.Exit(0), and with it every assessment the process serves.            *)
SchemaDrift(a) ==
    /\ pc[a] = "evaluating"
    /\ registered[a] # {}
    /\ pc' = [b \in Assessment |->
                IF ProcessOf[b] = ProcessOf[a]
                   /\ pc[b] \notin AssessmentOver \cup {"idle"}
                THEN "exited" ELSE pc[b]]
    /\ UNCHANGED <<ledgerVars, heldVars, readVars, evaluated, findings>>

Passed(a) == {c \in registered[a] : findings[a][c] = VerdictCompliant}
HasFailures(a) == Passed(a) # registered[a]

(* Each finding carries the time of its evaluation. *)
FindingsLedger(a) == [findings |-> findings[a], evaluatedAt |-> a]

(* Fault: a control whose evaluation errs is in neither count. *)
VerdictForgetsErrors(a) ==
    Sign([run |-> manifest[a].run,
          ledgerHash |-> Hash(FindingsLedger(a)),
          controlsPassed |-> Cardinality(Passed(a)),
          controlsFailed |-> Cardinality({c \in registered[a] :
                                            findings[a][c] = "NON_COMPLIANT"}),
          signature |-> NoSignature], AssessorKey)

Verdict(a) ==
    Sign([run |-> manifest[a].run,
          ledgerHash |-> Hash(FindingsLedger(a)),
          controlsPassed |-> Cardinality(Passed(a)),
          controlsFailed |-> Cardinality(registered[a] \ Passed(a)),
          signature |-> NoSignature], AssessorKey)

AssessmentResults(a) == [run |-> manifest[a].run, findings |-> findings[a]]

(* WriteFile: an error is logged and nothing else; it does not say whether *)
(* the store took the object.                                              *)
WriteFile(path, content) == Stored(path, content) \/ UNCHANGED store

WriteLedger(a) ==
    /\ pc[a] = "ledger"
    /\ WriteFile(LedgerFile(day[a]), FindingsLedger(a))
    /\ Move(a, "verdict")
    /\ UNCHANGED <<today, heldVars, readVars, evaluated, findings>>

(* Without JULA_ASSESSOR_SIGNING_KEY there is no verdict. *)
WriteVerdict(a) ==
    /\ pc[a] = "verdict"
    /\ WriteFile(VerdictFile(day[a]), Verdict(a))
    /\ Move(a, "results")
    /\ UNCHANGED <<today, heldVars, readVars, evaluated, findings>>

(* Only with JULA_OUTPUT_FORMAT=oscal; then the status is reported. *)
WriteResults(a) ==
    /\ pc[a] = "results"
    /\ WriteFile(ResultsFile(day[a]), AssessmentResults(a))
    /\ Move(a, IF HasFailures(a) THEN "noncompliant" ELSE "compliant")
    /\ UNCHANGED <<today, heldVars, readVars, evaluated, findings>>

CrashAssessment(a) ==
    /\ pc[a] \notin AssessmentOver \cup {"idle"}
    /\ Move(a, "crashed")
    /\ UNCHANGED <<ledgerVars, heldVars, readVars, evaluated, findings>>

Assess(a) ==
    \/ ReadManifest(a)
    \/ NoManifest(a)
    \/ LoadPolicies(a)
    \/ \E p \in pending[a] : ReadPayload(a, p) \/ ReadFails(a, p)
    \/ AssessmentFails(a)
    \/ PassGate(a)
    \/ Reject(a)
    \/ Evaluate(a)
    \/ SchemaDrift(a)
    \/ WriteLedger(a)
    \/ WriteVerdict(a)
    \/ WriteResults(a)

AssessorNext(a) == StartAssessment(a) \/ Assess(a) \/ CrashAssessment(a)
=============================================================================
