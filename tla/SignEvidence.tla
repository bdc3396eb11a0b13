---------------------------- MODULE SignEvidence ----------------------------
(***************************************************************************)
(* jula-sign-evidence (core/cmd/jula-sign-evidence/main.go): a second      *)
(* producer of the ledger.  It reads a directory of files that other tools *)
(* collected, checks the JSON ones against the evidence schema             *)
(* (core/pkg/schema/validator.go), and then, file by file, puts the file   *)
(* and a signed sidecar into the day's directory, the manifest last.       *)
(*                                                                         *)
(* An invocation is a process of its own that gives up at the first error  *)
(* and may die at any point.  It signs whatever the files hold: the hash   *)
(* in a sidecar is that of the whole file.                                 *)
(***************************************************************************)
EXTENDS Ledger, Sequences

CONSTANTS
    Input,      \* the files each invocation finds, in the order of the walk
    NoSchema    \* --no-schema was given

VARIABLES
    signPc,     \* where each invocation is
    signDay,    \* the date in its pathPrefix
    through,    \* how many files it is through with
    listed      \* manifest.EvidenceFiles so far

signVars == <<signPc, signDay, through, listed>>

Signing == {"file", "sidecar", "manifest"}
SignPc == {"idle", "signed", "failed"} \cup Signing

SignInit ==
    /\ signPc = [r \in Run |-> "idle"]
    /\ signDay = [r \in Run |-> 1]
    /\ through = [r \in Run |-> 0]
    /\ listed = [r \in Run |-> {}]

ToStep(r, label) == signPc' = [signPc EXCEPT ![r] = label]

-----------------------------------------------------------------------------
(* What the ledger receives of an input file: the file, and its sidecar.   *)

FilePath(r, f) == File(signDay[r], f.kind, f.id)

(* An input file called manifest.json or as one of the assessor's files is *)
(* left out.                                                               *)
SidecarSuffix == [evidence |-> "evidence_prov", csv |-> "csv_prov",
                  provenance |-> "provenance_prov", csv_prov |-> "csv_prov_prov"]

ASSUME InputAssumption ==
    /\ DOMAIN Input = Run
    /\ DOMAIN NoSchema = Run
    /\ \A r \in Run :
         /\ Len(Input[r]) \in Nat
         /\ DOMAIN Input[r] = 1..Len(Input[r])
         /\ \A i \in DOMAIN Input[r] :
              Input[r][i].kind \in DOMAIN SidecarSuffix /\ Input[r][i].id \in Evid

SidecarPath(r, f) == File(signDay[r], SidecarSuffix[f.kind], f.id)

SidecarFor(r, f) ==
    Sign([id |-> f.id, payloadHash |-> Hash(f.content), timestamp |-> r,
          signature |-> NoSignature], CollectorKey)

(* The walk meets every name once; and no file it finds is a sidecar that  *)
(* this invocation has yet to sign, at a time that has yet to come.        *)
ASSUME WalkAssumption ==
    \A r \in Run : \A i, j \in DOMAIN Input[r] :
        /\ Input[r][i].kind = Input[r][j].kind /\ Input[r][i].id = Input[r][j].id
             => i = j
        /\ Input[r][i].content # SidecarFor(r, Input[r][j])

(* ValidateEvidence finds the fields of an Evidence. *)
ValidateEvidence(content) == {"id", "raw", "payloadHash"} \subseteq DOMAIN content

PassesSchema(r) ==
    NoSchema[r] \/ \A i \in DOMAIN Input[r] :
        Input[r][i].kind # "csv" => ValidateEvidence(Input[r][i].content)

-----------------------------------------------------------------------------
(* Fault: the date is that of a time zone ahead of UTC. *)
StartSigningAhead(r) ==
    /\ signPc[r] = "idle"
    /\ signDay' = [signDay EXCEPT ![r] = today + 1]
    /\ ToStep(r, "file")
    /\ UNCHANGED <<ledgerVars, through, listed>>

(* Nothing is put before every file has been read and checked. *)
StartSigning(r) ==
    /\ signPc[r] = "idle"
    /\ Len(Input[r]) > 0
    /\ PassesSchema(r)
    /\ signDay' = [signDay EXCEPT ![r] = today]
    /\ ToStep(r, "file")
    /\ UNCHANGED <<ledgerVars, through, listed>>

(* No files, one that cannot be read, or one the schema does not admit. *)
RefuseSigning(r) ==
    /\ signPc[r] = "idle"
    /\ ToStep(r, "failed")
    /\ UNCHANGED <<ledgerVars, signDay, through, listed>>

Due(r) == Input[r][through[r] + 1]

PutFile(r) ==
    /\ signPc[r] = "file"
    /\ Stored(FilePath(r, Due(r)), Due(r).content)
    /\ ToStep(r, "sidecar")
    /\ UNCHANGED <<today, signDay, through, listed>>

(* The file is through, both its objects are listed. *)
FileDone(r) ==
    LET f == Due(r)
    IN  /\ listed' = [listed EXCEPT ![r] = @ \cup
             {FileChecksum(FilePath(r, f), f.content),
              FileChecksum(SidecarPath(r, f), SidecarFor(r, f))}]
        /\ through' = [through EXCEPT ![r] = @ + 1]
        /\ ToStep(r, IF through[r] + 1 = Len(Input[r]) THEN "manifest" ELSE "file")

PutSidecar(r) ==
    /\ signPc[r] = "sidecar"
    /\ Stored(SidecarPath(r, Due(r)), SidecarFor(r, Due(r)))
    /\ FileDone(r)
    /\ UNCHANGED <<today, signDay>>

PutSignedManifest(r) ==
    /\ signPc[r] = "manifest"
    /\ Stored(ManifestFile(signDay[r]), Manifest(r, listed[r]))
    /\ ToStep(r, "signed")
    /\ UNCHANGED <<today, signDay, through, listed>>

(* The object that is due is stored. *)
StoreDue(r) ==
    \/ signPc[r] = "file" /\ Stored(FilePath(r, Due(r)), Due(r).content)
    \/ /\ signPc[r] = "sidecar"
       /\ Stored(SidecarPath(r, Due(r)), SidecarFor(r, Due(r)))
    \/ /\ signPc[r] = "manifest"
       /\ Stored(ManifestFile(signDay[r]), Manifest(r, listed[r]))

(* Fault: a sidecar that could not be put is logged, the loop goes on. *)
SigningSkips(r) ==
    /\ signPc[r] = "sidecar"
    /\ FileDone(r)
    /\ UNCHANGED <<ledgerVars, signDay>>

(* A Put returned an error, although the store may have taken the object;  *)
(* or the process died.                                                    *)
SigningFails(r) ==
    /\ signPc[r] \in Signing
    /\ UNCHANGED store \/ StoreDue(r)
    /\ ToStep(r, "failed")
    /\ UNCHANGED <<today, signDay, through, listed>>

SignNext(r) ==
    \/ StartSigning(r)
    \/ RefuseSigning(r)
    \/ PutFile(r)
    \/ PutSidecar(r)
    \/ PutSignedManifest(r)
    \/ SigningFails(r)
=============================================================================
