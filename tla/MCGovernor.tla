----------------------------- MODULE MCGovernor -----------------------------
EXTENDS Governor

BothTiers == {Primary, Fallback}
(* JULA_FALLBACK_TIMEOUT_SEC is 0. *)
PrimaryOnly == {Primary}
OwnModels == <<"model 1", "model 2">>
(* The fallback endpoint knows the primary's model, or only its own. *)
BothServe == <<{"model 1"}, {"model 1", "model 2"}>>
OneServes == <<{"model 1"}, {"model 2"}>>

(* AC-1 and AC.1 have one file name. *)
SharedFile == [c \in Control |-> "core_ac_1.rego"]

ShortCatalogs == {<<"AC-1">>, <<"AC.1", "AC.1">>}

(* A requirement, and a manual control that the AI files under a platform  *)
(* of its own choice.                                                      *)
Requirement(p) == [provider |-> p, status |-> "", noField |-> FALSE, void |-> FALSE]
ManualElsewhere == [Requirement("aws") EXCEPT !.noField = TRUE]
TwoExtractions == {Requirement("gcp"), ManualElsewhere}
=============================================================================
