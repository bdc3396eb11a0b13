------------------------------- MODULE MCByo -------------------------------
EXTENDS ByoPipeline, TLC

CONSTANTS r1, r2, r3, e1, a1, p1

OneFile == {e1}
OneAssessment == {a1}
OneProcess == {p1}
AllInOne == [a \in Assessment |-> p1]
NoControl == {}

TwoSignings == {r1, r2}
OneSigning == {r3}

Json(r) == [kind |-> "evidence", id |-> e1, content |-> Evidence(r, e1)]
Sidecar(r) == [kind |-> "provenance", id |-> e1, content |-> Provenance(r, e1)]
Csv(r) == [kind |-> "csv", id |-> e1, content |-> [table |-> r]]

(* The sidecar that an earlier signing of the table left beside it. *)
OldSidecar(r) ==
    [kind |-> "csv_prov", id |-> e1, content |->
        Sign([id |-> e1, payloadHash |-> Hash([table |-> r]), timestamp |-> "before",
              signature |-> NoSignature], CollectorKey)]

(* A directory that was signed in place before; an evidence file with the  *)
(* sidecar of the collector that made it; a wrapped evidence file alone.   *)
Directories ==
    [r \in Run |-> CASE r = r1 -> <<Csv(r), OldSidecar(r), Json(r)>>
                     [] r = r2 -> <<Json(r), Sidecar(r)>>
                     [] r = r3 -> <<Json(r)>>]
SchemaOff == [r \in Run |-> r # r3]
=============================================================================
