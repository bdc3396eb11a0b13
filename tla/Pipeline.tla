------------------------------ MODULE Pipeline ------------------------------
(***************************************************************************)
(* Collector runs and assessments over one ledger.                         *)
(*                                                                         *)
(* They share nothing but the bucket and the calendar: a scheduler starts  *)
(* both by the clock, nothing orders a run and the assessment that follows *)
(* it, and nothing keeps two runs of one day apart.                        *)
(***************************************************************************)
EXTENDS Courier, Assessor, JulaVerify

vars == <<ledgerVars, courierVars, assessorVars>>

Init == LedgerInit /\ CourierInit /\ AssessorInit

Next ==
    \/ \E r \in Run : CourierNext(r) /\ UNCHANGED assessorVars
    \/ \E a \in Assessment : AssessorNext(a) /\ UNCHANGED courierVars
    \/ Midnight /\ UNCHANGED <<courierVars, assessorVars>>

Spec == Init /\ [][Next]_vars

(* A process that has started goes on until it ends: the scheduler runs    *)
(* it, and every call it makes has a timeout or an error to return.        *)
Fairness ==
    /\ \A r \in Run :
         WF_vars((BeginDelivery(r) \/ Deliver(r)) /\ UNCHANGED assessorVars)
    /\ \A a \in Assessment : WF_vars(Assess(a) /\ UNCHANGED courierVars)

FairSpec == Spec /\ Fairness

-----------------------------------------------------------------------------
Delivered(r) == {Evidence(r, e) : e \in produced[r]}

Types ==
    /\ DOMAIN store \subseteq Path
    /\ today \in Day
    /\ runPc \in [Run -> RunPc]
    /\ runDay \in [Run -> Day]
    /\ produced \in [Run -> SUBSET Evid]
    /\ todo \in [Run -> SUBSET Evid]
    /\ current \in [Run -> Evid \cup {None}]
    /\ DOMAIN checksums = Run
    /\ disturbed \in [Run -> SUBSET Run]
    /\ published \in SUBSET Run
    /\ pc \in [Assessment -> AssessmentPc]
    /\ day \in [Assessment -> Day]
    /\ DOMAIN manifest = Assessment
    /\ registered \in [Assessment -> SUBSET Control]
    /\ DOMAIN payloads = Assessment
    /\ DOMAIN pending = Assessment
    /\ readFailed \in [Assessment -> BOOLEAN]
    /\ DOMAIN evaluated = Assessment
    /\ DOMAIN findings = Assessment

TypeOK ==
    /\ Types
    /\ \A a \in Assessment : DOMAIN payloads[a] \subseteq Path
    /\ pending \in [Assessment -> SUBSET Path]

(* What the policies are evaluated on is the evidence of one run, the one  *)
(* the verdict will name, and all of it: whatever other runs put into the  *)
(* same directory between the manifest and the last payload, and whatever  *)
(* runs died half way, no verdict is about a mixture of runs or about a    *)
(* part of one (Deliver, ReadPayloads, VerifyPayloads).                    *)
AttestsOneWholeRun ==
    \A a \in Assessment : pc[a] \in Attesting =>
        /\ manifest[a].run \in published
        /\ evaluated[a] = Delivered(manifest[a].run)

(* The gatekeeper raises no false alarm: it rejects a manifest only when   *)
(* another run has stored something in the directory since the run of the  *)
(* manifest began to deliver.  What an earlier run of the day left behind, *)
(* finished or not, does no harm.                                          *)
NoFalseAlarm ==
    \A a \in Assessment : pc[a] = "rejected" =>
        disturbed[manifest[a].run] # {}

(* A run that nobody disturbs leaves a directory that jula-verify accepts, *)
(* even after the leftovers of a run that failed or crashed.               *)
UndisturbedRunVerifies ==
    \A r \in published : disturbed[r] = {} => VerifyChain(runDay[r], FALSE)

(* What jula-verify accepts is one whole run: the directory holds the      *)
(* manifest of a run that published on that day, and every file that run   *)
(* delivered as it delivered it, whatever other runs have put there before *)
(* and since (verifyChain).                                                *)
VerifiedIsOneWholeRun ==
    \A d \in Day : VerifyChain(d, FALSE) =>
        \E r \in published :
            /\ runDay[r] = d
            /\ store[ManifestFile(d)].run = r
            /\ \A e \in produced[r] :
                 /\ store[EvidenceFile(d, e)] = Evidence(r, e)
                 /\ store[ProvenanceFile(d, e)] = Provenance(r, e)

(* A verdict in the ledger names the run whose evidence was evaluated and  *)
(* counts every control policy once, and its signature holds.              *)
VerdictSound ==
    \A d \in Day : Exists(VerdictFile(d)) =>
        LET v == store[VerdictFile(d)]
        IN  /\ VerifyVerdict(d)
            /\ \E a \in Assessment :
                 /\ evaluated[a] = Delivered(v.run)
                 /\ v.run = manifest[a].run
                 /\ v.ledgerHash = Hash(FindingsLedger(a))
                 /\ v.controlsPassed + v.controlsFailed
                      = Cardinality(registered[a])
                 /\ DOMAIN findings[a] = registered[a]

(* An assessment's directory is that of the date at its start: it never    *)
(* attests to a run that delivered on another day.                         *)
SameDay ==
    \A a \in Assessment : pc[a] \in Attesting =>
        runDay[manifest[a].run] = day[a]

(* Every run and every assessment that has started comes to an end. *)
EverythingEnds ==
    /\ \A r \in Run : runPc[r] = "extracting" ~> runPc[r] \in RunOver
    /\ \A a \in Assessment : pc[a] = "ingesting" ~> pc[a] \in AssessmentOver

(* The pipeline implements the abstract attestation: stepwise uploads that *)
(* may fail, overlap and overwrite, and downloads file by file, look like  *)
(* one atomic publication and one atomic attestation.                      *)
Abstract ==
    INSTANCE Attestation WITH
        Collection <- [r \in Run |-> {{Evidence(r, e) : e \in S} :
                                        S \in (SUBSET Evid) \ {{}}}],
        published <- [r \in published |-> Delivered(r)],
        attested <- [a \in {b \in Assessment : evaluated[b] # {}} |->
                        [run |-> manifest[a].run, evidence |-> evaluated[a]]]

ImplementsAttestation == Abstract!Spec

-----------------------------------------------------------------------------
(* The inductive invariant behind these properties. *)

(* The entries of the manifest that e brings, and that of the trace log. *)
FilesOf(r, e) ==
    {FileChecksum(EvidenceFile(runDay[r], e), Evidence(r, e)),
     FileChecksum(ProvenanceFile(runDay[r], e), Provenance(r, e))}
LogOf(r) == FileChecksum(LogFile(runDay[r]), TraceLog(r))

(* A run lists both files of an evidence when it is through with it, and   *)
(* has listed everything when it comes to the manifest.                    *)
Books(r) ==
    /\ todo[r] \subseteq produced[r]
    /\ runPc[r] \in {"idle", "extracting", "nothing"} => produced[r] = {}
    /\ produced[r] = {} => checksums[r] = {}
    /\ runPc[r] \in Uploading => produced[r] # {}
    /\ runPc[r] = "sidecar" => current[r] \in todo[r]
    /\ runPc[r] \in {"log", "manifest"} => todo[r] = {}
    /\ \A e \in produced[r] \ todo[r] : FilesOf(r, e) \subseteq checksums[r]
    /\ \A f \in checksums[r] :
         \/ f = LogOf(r)
         \/ \E e \in produced[r] \ todo[r] : f \in FilesOf(r, e)
    /\ r \in published =>
         /\ runPc[r] \in {"delivered", "failed"}
         /\ todo[r] = {}
         /\ produced[r] # {}

BookKeeping == \A r \in Run : Books(r)

(* The manifest m is that of a run that delivered all of it on day d. *)
WholeManifest(m, d) ==
    \E r \in published : runDay[r] = d /\ m = Manifest(r, checksums[r])

HasManifest == {"policies", "reading", "rejected"} \cup Attesting

(* Every manifest in the ledger, and every one an assessment holds. *)
ManifestsWhole ==
    /\ \A d \in Day : Exists(ManifestFile(d)) =>
         WholeManifest(store[ManifestFile(d)], d)
    /\ \A a \in Assessment : pc[a] \in HasManifest =>
         WholeManifest(manifest[a], day[a])

(* Nothing is evaluated before the gate, the delivered evidence behind it. *)
GateHolds ==
    \A a \in Assessment :
        /\ pc[a] \in {"idle", "ingesting", "policies", "reading", "rejected"} =>
             evaluated[a] = {}
        /\ pc[a] \in Attesting => evaluated[a] = Delivered(manifest[a].run)

(* The ledger holds what run r has put. *)
Kept(r) ==
    /\ \A f \in checksums[r] : Exists(f.path) /\ Hash(store[f.path]) = f.sha256
    /\ runPc[r] = "sidecar" =>
         /\ Exists(EvidenceFile(runDay[r], current[r]))
         /\ store[EvidenceFile(runDay[r], current[r])] = Evidence(r, current[r])
    /\ r \in published =>
         /\ Exists(ManifestFile(runDay[r]))
         /\ store[ManifestFile(runDay[r])] = Manifest(r, checksums[r])

(* What an undisturbed run has put stays in the ledger. *)
UndisturbedKept == \A r \in Run : disturbed[r] = {} => Kept(r)

(* What has been read of an undisturbed run is what it delivered. *)
UndisturbedRead ==
    \A a \in Assessment :
        pc[a] = "reading" /\ disturbed[manifest[a].run] = {} /\ ~readFailed[a] =>
            \A f \in ValidFiles(manifest[a]) :
                \/ f.path \in pending[a]
                \/ /\ f.path \in DOMAIN payloads[a]
                   /\ Hash(payloads[a][f.path]) = f.sha256

IInv ==
    /\ TypeOK
    /\ BookKeeping
    /\ ManifestsWhole
    /\ GateHolds
    /\ UndisturbedKept
    /\ UndisturbedRead
    /\ NoFalseAlarm
=============================================================================
