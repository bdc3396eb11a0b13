---------------------------- MODULE MCExtraction ----------------------------
(* Two vendors, one of them with two endpoints; the first endpoints of the *)
(* two vendors produce the same (evidence ID, source ID).                  *)
EXTENDS Extraction

CONSTANTS github, aws, j1, j2, j3, k1, k2

MCIntegration == {github, aws}
MCJob == {j1, j2, j3}
MCJobsOf == [i \in MCIntegration |-> IF i = github THEN {j1, j2} ELSE {j3}]
MCKey == {k1, k2}
MCKeyOf == [j \in MCJob |-> IF j = j2 THEN k2 ELSE k1]

(* One page, two array pages, and a tolerated 404. *)
ArrayPages == {<<"array", "array">>, <<"object">>, <<"null">>}

(* A cursor in the body makes every page an object. *)
ObjectPages == {<<"object", "object">>, <<"object">>}
=============================================================================
