----------------------------- MODULE ByoPipeline -----------------------------
(***************************************************************************)
(* "Bring your own collector": jula-sign-evidence in the collector's place *)
(* before the same ledger, assessor and offline verifier.  As in Pipeline, *)
(* only the bucket and the calendar are shared, and nothing keeps two      *)
(* invocations of one day apart.                                           *)
(***************************************************************************)
EXTENDS SignEvidence, Assessor, JulaVerify

vars == <<ledgerVars, signVars, assessorVars>>

Init == LedgerInit /\ SignInit /\ AssessorInit

Next ==
    \/ \E r \in Run : SignNext(r) /\ UNCHANGED assessorVars
    \/ \E a \in Assessment : AssessorNext(a) /\ UNCHANGED signVars
    \/ Midnight /\ UNCHANGED <<signVars, assessorVars>>

Spec == Init /\ [][Next]_vars

-----------------------------------------------------------------------------
TypeOK ==
    /\ DOMAIN store \subseteq Path
    /\ today \in Day
    /\ signPc \in [Run -> SignPc]
    /\ signDay \in [Run -> Day]
    /\ \A r \in Run : through[r] \in 0..Len(Input[r])
    /\ \A r \in Run : \A f \in listed[r] : f.path \in Path
    /\ pc \in [Assessment -> AssessmentPc]
    /\ day \in [Assessment -> Day]
    /\ pending \in [Assessment -> SUBSET Path]
    /\ \A a \in Assessment : DOMAIN payloads[a] \subseteq Path

InputFiles(r) == {Input[r][i] : i \in DOMAIN Input[r]}

(* An input file has the name of the sidecar of another one, as when the   *)
(* directory holds what an earlier invocation left.                        *)
Collides(r) ==
    \E f, g \in InputFiles(r) : FilePath(r, f) = SidecarPath(r, g)

(* Every input file with the name of a sidecar is one the key has signed.  *)
SidecarsSigned(r) ==
    \A f \in InputFiles(r) :
        f.kind \in SidecarKind => Verifies(f.content, CollectorKey)

Alone(r) ==
    \A q \in Run \ {r} : signPc[q] = "idle" \/ signDay[q] # signDay[r]

(* A directory that was signed to the end, and that nobody else wrote to,  *)
(* is one that jula-verify accepts; but one with colliding names, or with  *)
(* a file that only has the name of a sidecar, which the signer reports as *)
(* delivered all the same, it never accepts (signDirectory against         *)
(* verifyChain).                                                           *)
SignedDirectoryVerifies ==
    \A r \in Run : signPc[r] = "signed" /\ Alone(r) =>
        (VerifyChain(signDay[r], FALSE) <=> ~Collides(r) /\ SidecarsSigned(r))

(* What jula-verify accepts is the whole input of one invocation of that   *)
(* day, file by file with its sidecar, whatever other invocations have put *)
(* into the directory before and since (verifyChain).                      *)
VerifiedIsOneWholeInput ==
    \A d \in Day : VerifyChain(d, FALSE) =>
        \E r \in Run :
            /\ signDay[r] = d
            /\ store[ManifestFile(d)].run = r
            /\ \A f \in InputFiles(r) :
                 /\ store[FilePath(r, f)] = f.content
                 /\ store[SidecarPath(r, f)] = SidecarFor(r, f)

(* What the gate has let through is the input of one invocation of the     *)
(* same day, the one the verdict will name, file by file: whatever a       *)
(* second one puts over it between the manifest and the last payload       *)
(* (VerifyPayloads).                                                       *)
GateAdmitsOneInput ==
    \A a \in Assessment : pc[a] \in Attesting =>
        LET r == manifest[a].run
        IN  /\ signPc[r] \in {"signed", "failed"}
            /\ signDay[r] = day[a]
            /\ \A f \in InputFiles(r) :
                 /\ payloads[a][FilePath(r, f)] = f.content
                 /\ payloads[a][SidecarPath(r, f)] = SidecarFor(r, f)

-----------------------------------------------------------------------------
(* core/schemas/README.md calls the files jula-sign-evidence signs the     *)
(* "evidence types consumed by the Jula Assessor": every evidence file of  *)
(* a signed directory that has passed the gate is evaluated.  The code     *)
(* does not keep it: the assessor looks for another sidecar name.          *)
SignedEvidenceIsEvaluated ==
    \A a \in Assessment : pc[a] \in Attesting =>
        \A f \in InputFiles(manifest[a].run) :
            f.kind = "evidence" => f.content \in evaluated[a]
=============================================================================
