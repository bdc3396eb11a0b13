------------------------------- MODULE Courier -------------------------------
(***************************************************************************)
(* A collector run as the ledger sees it: handleRun and deliverEvidence    *)
(* (collector/cmd/collector/run.go) and CloudCourier.Deliver               *)
(* (collector/internal/courier/cloud.go).                                  *)
(*                                                                         *)
(* Every POST /run of the serve command and every run command is a process *)
(* of its own; nothing keeps two of them apart.  A run extracts, takes the *)
(* date, then puts evidence and sidecar by evidence, the trace log, and    *)
(* the signed manifest last.  It gives up at the first Put that fails, and *)
(* its process may die at any point; what it has put stays.                *)
(***************************************************************************)
EXTENDS Ledger

VARIABLES
    runPc,      \* where each run is
    runDay,     \* the date in its PathPrefix
    produced,   \* the evidence its extraction returned
    todo,       \* the evidence not yet uploaded
    current,    \* the evidence whose sidecar is due
    checksums,  \* manifest.EvidenceFiles so far
    disturbed,  \* history: the runs that have stored something in the
                \* directory of this one since it began to deliver
    published   \* history: the runs whose manifest the store has taken

history == <<disturbed, published>>
courierVars == <<runPc, runDay, produced, todo, current, checksums, history>>

(* Still going, about to put something, at the end. *)
Uploading == {"evidence", "sidecar", "log", "manifest"}
RunOver == {"delivered", "nothing", "failed"}
RunPc == {"idle", "extracting"} \cup Uploading \cup RunOver

CourierInit ==
    /\ runPc = [r \in Run |-> "idle"]
    /\ runDay = [r \in Run |-> 1]
    /\ produced = [r \in Run |-> {}]
    /\ todo = [r \in Run |-> {}]
    /\ current = [r \in Run |-> None]
    /\ checksums = [r \in Run |-> {}]
    /\ disturbed = [r \in Run |-> {}]
    /\ published = {}

Goto(r, label) == runPc' = [runPc EXCEPT ![r] = label]

StartRun(r) ==
    /\ runPc[r] = "idle"
    /\ Goto(r, "extracting")
    /\ UNCHANGED <<ledgerVars, runDay, produced, todo, current, checksums,
                   history>>

(* Extract failed, or every integration was skipped: nothing is delivered, *)
(* and the second is no error.                                             *)
ExtractNothing(r) ==
    /\ runPc[r] = "extracting"
    /\ \E end \in {"failed", "nothing"} : Goto(r, end)
    /\ UNCHANGED <<ledgerVars, runDay, produced, todo, current, checksums,
                   history>>

(* ParseOutputURL takes the date when the extraction is over. *)
BeginDelivery(r) ==
    /\ runPc[r] = "extracting"
    /\ \E evidence \in (SUBSET Evid) \ {{}} :
         /\ produced' = [produced EXCEPT ![r] = evidence]
         /\ todo' = [todo EXCEPT ![r] = evidence]
    /\ runDay' = [runDay EXCEPT ![r] = today]
    /\ Goto(r, "evidence")
    /\ UNCHANGED <<ledgerVars, current, checksums, history>>

(* The store takes an object of run r. *)
Put(r, path, content) ==
    /\ Stored(path, content)
    /\ disturbed' = [q \in Run |->
         IF /\ q # r
            /\ runDay[q] = runDay[r]
            /\ produced[q] # {}
         THEN disturbed[q] \cup {r} ELSE disturbed[q]]
    /\ published' = IF path.kind = "manifest" THEN published \cup {r}
                    ELSE published

PutEvidence(r, e) ==
    /\ runPc[r] = "evidence"
    /\ e \in todo[r]
    /\ Put(r, EvidenceFile(runDay[r], e), Evidence(r, e))
    /\ current' = [current EXCEPT ![r] = e]
    /\ Goto(r, "sidecar")
    /\ UNCHANGED <<today, runDay, produced, todo, checksums>>

(* Fault: the hash of the sidecar is listed for the evidence as well. *)
PutProvenanceSidecarTwice(r) ==
    LET e == current[r]
        d == runDay[r]
    IN  /\ runPc[r] = "sidecar"
        /\ Put(r, ProvenanceFile(d, e), Provenance(r, e))
        /\ checksums' = [checksums EXCEPT ![r] = @ \cup
             {FileChecksum(EvidenceFile(d, e), Provenance(r, e)),
              FileChecksum(ProvenanceFile(d, e), Provenance(r, e))}]
        /\ todo' = [todo EXCEPT ![r] = @ \ {e}]
        /\ current' = [current EXCEPT ![r] = None]
        /\ Goto(r, IF todo[r] \subseteq {e} THEN "log" ELSE "evidence")
        /\ UNCHANGED <<today, runDay, produced>>

(* Fault: the sidecar is not listed. *)
PutProvenanceUnlisted(r) ==
    LET e == current[r]
        d == runDay[r]
    IN  /\ runPc[r] = "sidecar"
        /\ Put(r, ProvenanceFile(d, e), Provenance(r, e))
        /\ checksums' = [checksums EXCEPT ![r] = @ \cup
             {FileChecksum(EvidenceFile(d, e), Evidence(r, e))}]
        /\ todo' = [todo EXCEPT ![r] = @ \ {e}]
        /\ current' = [current EXCEPT ![r] = None]
        /\ Goto(r, IF todo[r] \subseteq {e} THEN "log" ELSE "evidence")
        /\ UNCHANGED <<today, runDay, produced>>

(* Fault: the loop does not notice its last evidence. *)
PutProvenanceForever(r) ==
    LET e == current[r]
        d == runDay[r]
    IN  /\ runPc[r] = "sidecar"
        /\ Put(r, ProvenanceFile(d, e), Provenance(r, e))
        /\ todo' = [todo EXCEPT ![r] = @ \ {e}]
        /\ current' = [current EXCEPT ![r] = None]
        /\ Goto(r, "evidence")
        /\ UNCHANGED <<today, runDay, produced, checksums>>

(* The manifest lists both files once the sidecar is up. *)
PutProvenance(r) ==
    LET e == current[r]
        d == runDay[r]
    IN  /\ runPc[r] = "sidecar"
        /\ Put(r, ProvenanceFile(d, e), Provenance(r, e))
        /\ checksums' = [checksums EXCEPT ![r] = @ \cup
             {FileChecksum(EvidenceFile(d, e), Evidence(r, e)),
              FileChecksum(ProvenanceFile(d, e), Provenance(r, e))}]
        /\ todo' = [todo EXCEPT ![r] = @ \ {e}]
        /\ current' = [current EXCEPT ![r] = None]
        /\ Goto(r, IF todo[r] \subseteq {e} THEN "log" ELSE "evidence")
        /\ UNCHANGED <<today, runDay, produced>>

PutLog(r) ==
    LET d == runDay[r]
    IN  /\ runPc[r] = "log"
        /\ Put(r, LogFile(d), TraceLog(r))
        /\ checksums' = [checksums EXCEPT ![r] = @ \cup
             {FileChecksum(LogFile(d), TraceLog(r))}]
        /\ Goto(r, "manifest")
        /\ UNCHANGED <<today, runDay, produced, todo, current>>

(* Fault: a log that was not uploaded is listed all the same. *)
SkipLogListed(r) ==
    /\ runPc[r] = "log"
    /\ checksums' = [checksums EXCEPT ![r] = @ \cup
         {FileChecksum(LogFile(runDay[r]), TraceLog(r))}]
    /\ Goto(r, "manifest")
    /\ UNCHANGED <<ledgerVars, runDay, produced, todo, current, history>>

(* No global handler, or its buffer could not be compressed. *)
SkipLog(r) ==
    /\ runPc[r] = "log"
    /\ Goto(r, "manifest")
    /\ UNCHANGED <<ledgerVars, runDay, produced, todo, current, checksums,
                   history>>

PutManifest(r) ==
    /\ runPc[r] = "manifest"
    /\ Put(r, ManifestFile(runDay[r]), Manifest(r, checksums[r]))
    /\ Goto(r, "delivered")
    /\ UNCHANGED <<today, runDay, produced, todo, current, checksums>>

(* The store takes the object that is due. *)
PutDue(r) ==
    LET d == runDay[r]
        e == current[r]
    IN  \/ /\ runPc[r] = "evidence"
           /\ \E f \in todo[r] : Put(r, EvidenceFile(d, f), Evidence(r, f))
        \/ runPc[r] = "sidecar" /\ Put(r, ProvenanceFile(d, e), Provenance(r, e))
        \/ runPc[r] = "log" /\ Put(r, LogFile(d), TraceLog(r))
        \/ /\ runPc[r] = "manifest"
           /\ Put(r, ManifestFile(d), Manifest(r, checksums[r]))

(* A Put returned an error, although the store may have taken the object.  *)
PutFails(r) ==
    /\ runPc[r] \in Uploading
    /\ UNCHANGED <<store, history>> \/ PutDue(r)
    /\ Goto(r, "failed")
    /\ UNCHANGED <<today, runDay, produced, todo, current, checksums>>

CrashRun(r) ==
    /\ runPc[r] \in {"extracting"} \cup Uploading
    /\ Goto(r, "failed")
    /\ UNCHANGED <<ledgerVars, runDay, produced, todo, current, checksums,
                   history>>

Deliver(r) ==
    \/ \E e \in Evid : PutEvidence(r, e)
    \/ PutProvenance(r)
    \/ PutLog(r)
    \/ SkipLog(r)
    \/ PutManifest(r)

CourierNext(r) ==
    \/ StartRun(r)
    \/ ExtractNothing(r)
    \/ BeginDelivery(r)
    \/ Deliver(r)
    \/ PutFails(r)
    \/ CrashRun(r)
=============================================================================
