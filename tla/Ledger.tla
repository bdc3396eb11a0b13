------------------------------- MODULE Ledger -------------------------------
(***************************************************************************)
(* The attestation ledger: the object store that the collector and the     *)
(* assessor share, the artifacts they put in it, and their hashes and      *)
(* signatures (core/pkg/objstore, core/pkg/crypto, core/pkg/types).        *)
(*                                                                         *)
(* A store maps keys to objects, one Put or Get is atomic, and a Put       *)
(* replaces what was there: the bucket's current version is all that any   *)
(* reader of this repository asks for.  A day's directory                  *)
(* deploy-{id}/{date} holds everything of one day.                         *)
(*                                                                         *)
(* Cryptography is symbolic: a hash is as good as what was hashed, and a   *)
(* signature holds the key and the hash of the artifact without it.        *)
(***************************************************************************)
EXTENDS Naturals

CONSTANTS
    Run,            \* collector runs, by run ID
    Evid,           \* evidence file names: {control}/{evidence}_{provider}_{source}
    MaxDay,         \* how often the UTC date may change in a behaviour, plus 1
    None            \* no evidence: the id of a key that is not about evidence

ASSUME MaxDayAssumption == MaxDay \in Nat \ {0}
ASSUME NoneAssumption == None \notin Evid

Day == 1..MaxDay

(* The keys of a day's directory. *)
File(d, kind, e) == [day |-> d, kind |-> kind, id |-> e]
EvidenceFile(d, e) == File(d, "evidence", e)
ProvenanceFile(d, e) == File(d, "provenance", e)
LogFile(d) == File(d, "log", None)
ManifestFile(d) == File(d, "manifest", None)
LedgerFile(d) == File(d, "ledger", None)
VerdictFile(d) == File(d, "verdict", None)
ResultsFile(d) == File(d, "results", None)

(* An evidence x has the files x.json ("evidence") and x.prov.json         *)
(* ("provenance").  jula-sign-evidence takes files of any name, x.csv too, *)
(* and hangs .prov.json on the whole name.                                 *)
SidecarKind == {"provenance", "evidence_prov", "csv_prov", "provenance_prov",
                "csv_prov_prov"}
Kind == {"evidence", "csv", "log", "manifest", "ledger", "verdict", "results"}
          \cup SidecarKind
Path == [day : Day, kind : Kind, id : Evid \cup {None}]

-----------------------------------------------------------------------------
(* Hashes and signatures. *)

Hash(content) == <<"sha256", content>>

NoSignature == <<>>
Unsigned(artifact) == [artifact EXCEPT !.signature = NoSignature]
Sign(artifact, key) ==
    [artifact EXCEPT !.signature = <<key, Hash(Unsigned(artifact))>>]

(* An empty signature is an error, any other one is compared with what the *)
(* holder of the key would have signed.                                    *)
Verifies(artifact, key) ==
    /\ artifact.signature # NoSignature
    /\ artifact.signature = <<key, Hash(Unsigned(artifact))>>

-----------------------------------------------------------------------------
(* The artifacts of the collector. *)

CollectorKey == "key A"
AssessorKey == "key C"

(* What run r collected for e; the finding in it carries the run ID. *)
Raw(r, e) == [run |-> r, id |-> e]
Evidence(r, e) ==
    [run |-> r, id |-> e, raw |-> Raw(r, e), payloadHash |-> Hash(Raw(r, e))]

(* The timestamp tells the provenance of two runs apart. *)
Provenance(r, e) ==
    Sign([id |-> e, payloadHash |-> Evidence(r, e).payloadHash,
          timestamp |-> r, signature |-> NoSignature], CollectorKey)

TraceLog(r) == [log |-> r]

FileChecksum(path, content) == [path |-> path, sha256 |-> Hash(content)]

Manifest(r, files) ==
    Sign([run |-> r, files |-> files, signature |-> NoSignature], CollectorKey)

-----------------------------------------------------------------------------
VARIABLES
    store,      \* the bucket: the object of each key there is
    today       \* the UTC date

ledgerVars == <<store, today>>

LedgerInit ==
    /\ store = [p \in {} |-> None]
    /\ today = 1

(* The map m with the entry for key set. *)
WithEntry(m, key, value) ==
    [k \in DOMAIN m \cup {key} |-> IF k = key THEN value ELSE m[k]]

Exists(path) == path \in DOMAIN store

Stored(path, content) == store' = WithEntry(store, path, content)

Midnight ==
    /\ today < MaxDay
    /\ today' = today + 1
    /\ UNCHANGED store
=============================================================================
