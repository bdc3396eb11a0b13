----------------------------- MODULE JulaVerify -----------------------------
(***************************************************************************)
(* What the offline verifier finds in the ledger                           *)
(* (core/cmd/jula-verify/main.go, verifyChain).  It only reads; it is      *)
(* stated of the store as it is at one moment, as an auditor runs it on a  *)
(* directory at rest.  The policy bundle (step 4) is a file of the         *)
(* governor's that the ledger does not hold.                               *)
(***************************************************************************)
EXTENDS Ledger

(* Step 1: there is a manifest with a valid signature. *)
VerifyManifest(d) ==
    /\ Exists(ManifestFile(d))
    /\ Verifies(store[ManifestFile(d)], CollectorKey)

EvidenceFiles(d) == store[ManifestFile(d)].files

(* Fault: a file that can be read is one that is verified. *)
VerifyFilesRead(d) == \A f \in EvidenceFiles(d) : Exists(f.path)

(* Step 2: every file of the manifest, the trace log too, has its hash. *)
VerifyFileHashes(d) ==
    \A f \in EvidenceFiles(d) :
        Exists(f.path) /\ Hash(store[f.path]) = f.sha256

(* Step 3: every sidecar of the manifest has a valid signature. *)
VerifyProvenances(d) ==
    \A f \in EvidenceFiles(d) : f.path.kind \in SidecarKind =>
        Exists(f.path) /\ Verifies(store[f.path], CollectorKey)

(* Step 5, with --verdict: the verdict has a valid signature. *)
VerifyVerdict(d) ==
    /\ Exists(VerdictFile(d))
    /\ Verifies(store[VerdictFile(d)], AssessorKey)

(* verifyChain returned no error. *)
VerifyChain(d, withVerdict) ==
    /\ VerifyManifest(d)
    /\ VerifyFileHashes(d)
    /\ VerifyProvenances(d)
    /\ withVerdict => VerifyVerdict(d)
=============================================================================
