----------------------------- MODULE Attestation -----------------------------
(***************************************************************************)
(* What collector, ledger and assessor promise together.                   *)
(*                                                                         *)
(* A run publishes its evidence at one moment and as a whole, at most      *)
(* once; an assessment attests, at most once and for good, to what one run *)
(* has published, never to part of it and never to a mixture of runs.      *)
(***************************************************************************)
CONSTANTS
    Run,
    Assessment,
    Collection      \* Collection[r]: what run r may publish

VARIABLES
    published,      \* what each run that has published did publish
    attested        \* what each assessment that has attested attests to

vars == <<published, attested>>

With(m, key, value) ==
    [k \in DOMAIN m \cup {key} |-> IF k = key THEN value ELSE m[k]]

Init ==
    /\ published = [r \in {} |-> {}]
    /\ attested = [a \in {} |-> {}]

Publish(r) ==
    /\ r \notin DOMAIN published
    /\ \E evidence \in Collection[r] :
         published' = With(published, r, evidence)
    /\ UNCHANGED attested

Attest(a) ==
    /\ a \notin DOMAIN attested
    /\ \E r \in DOMAIN published :
         attested' = With(attested, a, [run |-> r, evidence |-> published[r]])
    /\ UNCHANGED published

Next == (\E r \in Run : Publish(r)) \/ (\E a \in Assessment : Attest(a))

Spec == Init /\ [][Next]_vars
=============================================================================
