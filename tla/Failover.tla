------------------------------ MODULE Failover ------------------------------
(***************************************************************************)
(* One call of the governor's AI client, ProcessWithRetriesAndFailover     *)
(* (governor/internal/aiutil/aiutil.go): the tiers Primary and Fallback in *)
(* this order, MaxRetries attempts each.                                   *)
(*                                                                         *)
(* A pause is a step of its own, how long it lasts is left out.  A body    *)
(* that cannot be read or parsed comes with the status of its response, so *)
(* it is neither a setup error nor transient, even if that status is 200.  *)
(***************************************************************************)
EXTENDS Integers, FiniteSets, Sequences

CONSTANTS
    Configured,     \* the tiers that have an endpoint
    MaxRetries,     \* JULA_MAX_RETRIES_PER_TIER
    Limited,        \* the tiers with a timeout: JULA_*_TIMEOUT_SEC above 0
    ModelOf,        \* JULA_PRIMARY_MODEL, JULA_FALLBACK_MODEL
    Serves          \* the models that each endpoint knows

Tier == 1..2
Primary == 1
Fallback == 2

ASSUME FailoverAssumption ==
    /\ Configured \subseteq Tier
    /\ Limited \subseteq Tier
    /\ MaxRetries \in Int
    /\ DOMAIN ModelOf = Tier
    /\ DOMAIN Serves = Tier

Outcome == {"ok", "setup", "transient", "other"}

VARIABLES
    call,       \* where the call is
    tier,       \* the tier that is asked
    attempt,    \* its attempt
    requests    \* the requests of this call that have been answered

callVars == <<call, tier, attempt, requests>>

CallState == {"idle", "asking", "pausing", "throttled", "answered", "failed",
              "aborted"}
CallOver == {"answered", "failed", "aborted"}

CallInit ==
    /\ call = "idle"
    /\ tier = Primary
    /\ attempt = 1
    /\ requests = <<>>

-----------------------------------------------------------------------------
(* The tiers below t that the loop over configs does not skip. *)
TiersBelow(t) == {u \in Configured : u > t /\ MaxRetries >= 1}

(* On to the first of them, or "all AI engine tiers failed". *)
TryTierBelow(t) ==
    IF TiersBelow(t) = {}
    THEN /\ call' = "failed"
         /\ UNCHANGED <<tier, attempt>>
    ELSE /\ call' = "asking"
         /\ tier' = CHOOSE u \in TiersBelow(t) : \A v \in TiersBelow(t) : u <= v
         /\ attempt' = 1

BeginCall ==
    /\ call = "idle"
    /\ requests' = <<>>
    /\ TryTierBelow(0)

EndCall ==
    /\ call' = "idle"
    /\ tier' = Primary
    /\ attempt' = 1
    /\ requests' = <<>>

(* Every caller puts the model of the primary tier into the request.       *)
CallAIEndpoint(outcome) ==
    /\ call = "asking"
    /\ requests' = Append(requests, [tier |-> tier, outcome |-> outcome,
                                     model |-> ModelOf[Primary]])

(* Quota may be used up (X-RateLimit-Remaining: 0): then a sleep first.    *)
Succeed ==
    /\ CallAIEndpoint("ok")
    /\ ModelOf[Primary] \in Serves[tier]
    /\ call' \in {"answered", "throttled"}
    /\ UNCHANGED <<tier, attempt>>

ThrottleOver ==
    /\ call = "throttled"
    /\ call' = "answered"
    /\ UNCHANGED <<tier, attempt, requests>>

(* 400 or 401: log.Fatalf. *)
SetupError ==
    /\ CallAIEndpoint("setup")
    /\ call' = "aborted"
    /\ UNCHANGED <<tier, attempt>>

(* Fault: one attempt too many. *)
TransientOnceMore ==
    /\ CallAIEndpoint("transient")
    /\ IF attempt <= MaxRetries
       THEN /\ call' = "pausing"
            /\ UNCHANGED <<tier, attempt>>
       ELSE TryTierBelow(tier)

(* 429, 503, 408, a timeout or no connection. *)
Transient ==
    /\ CallAIEndpoint("transient")
    /\ IF attempt < MaxRetries
       THEN /\ call' = "pausing"
            /\ UNCHANGED <<tier, attempt>>
       ELSE TryTierBelow(tier)

PauseOver ==
    /\ call = "pausing"
    /\ call' = "asking"
    /\ attempt' = attempt + 1
    /\ UNCHANGED <<tier, requests>>

(* Fault: only a transient failure falls back. *)
OtherFailureEndsCall ==
    /\ CallAIEndpoint("other")
    /\ call' = "failed"
    /\ UNCHANGED <<tier, attempt>>

(* Any other status, or an answer that cannot be read. *)
OtherFailure ==
    /\ CallAIEndpoint("other")
    /\ TryTierBelow(tier)

CallStep ==
    \/ Succeed
    \/ ThrottleOver
    \/ SetupError
    \/ Transient
    \/ PauseOver
    \/ OtherFailure

CallTypeOK ==
    /\ call \in CallState
    /\ tier \in Tier
    /\ attempt \in Nat \ {0}
    /\ attempt <= MaxRetries \/ attempt = 1
    /\ requests \in Seq([tier : Configured, outcome : Outcome,
                         model : {ModelOf[Primary]}])

-----------------------------------------------------------------------------
(* A tier is asked again only after a transient failure of it, and left    *)
(* only after its last attempt or a failure that retrying does not mend.   *)
AttemptsAt(t, n) == Cardinality({i \in 1..n : requests[i].tier = t})

GivenUp(n) ==
    \/ requests[n].outcome = "other"
    \/ /\ requests[n].outcome = "transient"
       /\ AttemptsAt(requests[n].tier, n) = MaxRetries

(* No tier gets more than MaxRetries requests of a call, the fallback gets *)
(* none before the primary is given up, and "all AI engine tiers failed"   *)
(* is only said when every configured tier was asked and given up.         *)
CallFollowsPolicy ==
    LET last == Len(requests)
    IN  /\ \A n \in 1..last - 1 :
             IF requests[n + 1].tier = requests[n].tier
             THEN requests[n].outcome = "transient" /\ ~GivenUp(n)
             ELSE requests[n + 1].tier > requests[n].tier /\ GivenUp(n)
        /\ call = "failed" /\ MaxRetries >= 1 =>
             \A t \in Configured :
                 \E n \in 1..last : requests[n].tier = t /\ GivenUp(n)
        /\ call = "answered" => requests[last].outcome = "ok"

(* The endpoint of a tier is asked for the model configured for that tier. *)
EachTierAskedForItsModel ==
    \A n \in 1..Len(requests) : requests[n].model = ModelOf[requests[n].tier]
=============================================================================
