--------------------------- MODULE GovernorProofs ---------------------------
(* Proofs about the governor, for any controls, catalogs, answers of the   *)
(* AI, configured tiers and numbers of attempts and commands.              *)
EXTENDS Governor, FiniteSetTheorems, SequenceTheorems, TLAPS

USE DEF Tier, Primary

-----------------------------------------------------------------------------
(* One call: the inductive invariant behind CallFollowsPolicy. *)

Request == [tier : Configured, outcome : Outcome, model : {ModelOf[Primary]}]

(* The request after the n-th one was in order. *)
Follows(n) ==
    IF requests[n + 1].tier = requests[n].tier
    THEN requests[n].outcome = "transient" /\ ~GivenUp(n)
    ELSE requests[n + 1].tier > requests[n].tier /\ GivenUp(n)

TierGivenUp(t) ==
    \E n \in 1..Len(requests) : requests[n].tier = t /\ GivenUp(n)

(* The last request was to this tier, and may be repeated. *)
LastMayRepeat ==
    /\ requests # <<>>
    /\ requests[Len(requests)].tier = tier
    /\ requests[Len(requests)].outcome = "transient"

LastGivenUp ==
    requests # <<>> =>
        requests[Len(requests)].tier < tier /\ GivenUp(Len(requests))

(* What is known while the tiers are gone through. *)
Asking ==
    call \in {"asking", "pausing"} =>
        /\ tier \in Configured
        /\ attempt \in 1..MaxRetries
        /\ \A n \in 1..Len(requests) : requests[n].tier <= tier
        /\ \A t \in Configured : t < tier => TierGivenUp(t)

Attempts ==
    /\ call = "asking" =>
         /\ AttemptsAt(tier, Len(requests)) = attempt - 1
         /\ IF attempt = 1 THEN LastGivenUp ELSE LastMayRepeat
    /\ call = "pausing" =>
         /\ AttemptsAt(tier, Len(requests)) = attempt
         /\ attempt < MaxRetries
         /\ LastMayRepeat

CallHistory ==
    /\ call = "idle" => requests = <<>>
    /\ \A n \in 1..Len(requests) - 1 : Follows(n)
    /\ Asking
    /\ Attempts
    /\ call = "failed" /\ MaxRetries >= 1 => \A t \in Configured : TierGivenUp(t)
    /\ call \in {"answered", "throttled"} =>
         requests # <<>> /\ requests[Len(requests)].outcome = "ok"

CallInv == CallTypeOK /\ CallHistory

(* There is a first among the tiers that are left. *)
LEMMA FirstTier ==
    ASSUME NEW S \in SUBSET (1..2), S # {}
    PROVE  LET u == CHOOSE u \in S : \A v \in S : u <= v
           IN  u \in S /\ \A v \in S : u <= v
  <1>1. \E u \in S : \A v \in S : u <= v
    <2>1. CASE 1 \in S
      BY <2>1
    <2>2. CASE 1 \notin S
      <3>1. \A v \in S : v \in 1..2 /\ v # 1
        BY <2>2
      <3>2. \A v \in S : v = 2
        BY <3>1
      <3>3. PICK v \in S : TRUE
        OBVIOUS
      <3>4. 2 \in S
        BY <3>2, <3>3
      <3>5. \A w \in S : 2 <= w
        BY <3>2
      <3> QED
        BY <3>4, <3>5
    <2> QED
      BY <2>1, <2>2
  <1> QED
    BY <1>1

(* A request more changes nothing about the earlier ones. *)
LEMMA EarlierRequests ==
    ASSUME CallTypeOK, NEW q \in Request, requests' = Append(requests, q),
           NEW N \in Nat, Len(requests) = N
    PROVE  /\ requests' \in Seq(Request)
           /\ requests' # <<>>
           /\ Len(requests') = N + 1
           /\ requests'[N + 1] = q
           /\ \A n \in 1..N : /\ requests'[n] = requests[n]
                              /\ requests[n] \in Request
                              /\ GivenUp(n)' <=> GivenUp(n)
           /\ \A t : AttemptsAt(t, N) \in Nat
           /\ \A t : AttemptsAt(t, N + 1)' = AttemptsAt(t, N) + (IF q.tier = t THEN 1 ELSE 0)
  <1>1. requests \in Seq(Request)
    BY DEF CallTypeOK, Request
  <1>2. /\ requests' \in Seq(Request) /\ requests' # <<>>
        /\ Len(requests') = N + 1
        /\ requests'[N + 1] = q
        /\ \A n \in 1..N : requests'[n] = requests[n]
    BY <1>1, AppendProperties
  <1>3. \A n \in 1..N : requests[n] \in Request
    BY <1>1
  <1>4. ASSUME NEW t, NEW n \in 1..N
        PROVE  AttemptsAt(t, n)' = AttemptsAt(t, n)
    <2>1. {i \in 1..n : requests'[i].tier = t} = {i \in 1..n : requests[i].tier = t}
      BY <1>2
    <2> QED
      BY <2>1 DEF AttemptsAt
  <1>5. ASSUME NEW n \in 1..N PROVE GivenUp(n)' <=> GivenUp(n)
    <2>1. requests'[n] = requests[n]
      BY <1>2
    <2>2. AttemptsAt(requests[n].tier, n)' = AttemptsAt(requests[n].tier, n)
      <3>1. {i \in 1..n : requests'[i].tier = requests'[n].tier}
              = {i \in 1..n : requests[i].tier = requests[n].tier}
        BY <1>2
      <3> QED
        BY <3>1 DEF AttemptsAt
    <2> QED
      BY <2>1, <2>2 DEF GivenUp
  <1>6. ASSUME NEW t
        PROVE  /\ AttemptsAt(t, N) \in Nat
               /\ AttemptsAt(t, N + 1)' = AttemptsAt(t, N) + (IF q.tier = t THEN 1 ELSE 0)
    <2> DEFINE old == {i \in 1..N : requests[i].tier = t}
               new == {i \in 1..N + 1 : requests'[i].tier = t}
    <2>1. IsFiniteSet(old) /\ Cardinality(old) \in Nat
      <3>1. IsFiniteSet(1..N)
        BY FS_Interval
      <3> QED
        BY <3>1, FS_Subset, FS_CardinalityType
    <2>2. CASE q.tier = t
      <3>1. new = old \cup {N + 1} /\ N + 1 \notin old
        BY <1>2, <2>2
      <3> HIDE DEF old, new
      <3>2. Cardinality(new) = Cardinality(old) + 1
        BY <2>1, <3>1, FS_AddElement
      <3> QED
        BY <2>1, <2>2, <3>2 DEF AttemptsAt, old, new
    <2>3. CASE q.tier # t
      <3>1. new = old
        BY <1>2, <2>3
      <3>2. AttemptsAt(t, N + 1)' = Cardinality(new) /\ AttemptsAt(t, N) = Cardinality(old)
        BY DEF AttemptsAt
      <3> HIDE DEF old, new
      <3> QED
        BY <2>1, <2>3, <3>1, <3>2
    <2> QED
      BY <2>2, <2>3
  <1> QED
    BY <1>2, <1>3, <1>5, <1>6

(* What every answered request leaves behind, whatever the outcome. *)
LEMMA RequestAnswered ==
    ASSUME CallInv, NEW outcome \in Outcome, CallAIEndpoint(outcome),
           NEW N \in Nat, Len(requests) = N, NEW u, tier = u
    PROVE  /\ requests' \in Seq(Request)
           /\ requests' # <<>>
           /\ Len(requests') = N + 1
           /\ requests'[N + 1].tier = u
           /\ requests'[N + 1].outcome = outcome
           /\ u \in Configured /\ attempt \in 1..MaxRetries
           /\ AttemptsAt(u, N + 1)' = attempt
           /\ \A n \in 1..N : Follows(n)'
           /\ \A n \in 1..N + 1 : requests'[n].tier <= u
           /\ \A t \in Configured : t < u => TierGivenUp(t)'
  <1> DEFINE q == [tier |-> u, outcome |-> outcome, model |-> ModelOf[Primary]]
  <1>1. call = "asking" /\ requests' = Append(requests, q)
    BY DEF CallAIEndpoint
  <1>2. u \in Configured /\ attempt \in 1..MaxRetries
    BY <1>1 DEF CallInv, CallHistory, Asking
  <1>3. q \in Request /\ q.tier = u /\ q.outcome = outcome
    BY <1>2 DEF Request
  <1> HIDE DEF q
  <1>4. /\ requests' \in Seq(Request) /\ requests' # <<>>
        /\ Len(requests') = N + 1 /\ requests'[N + 1] = q
        /\ \A n \in 1..N : /\ requests'[n] = requests[n] /\ requests[n] \in Request
                           /\ GivenUp(n)' <=> GivenUp(n)
        /\ AttemptsAt(u, N) \in Nat
        /\ AttemptsAt(u, N + 1)' = AttemptsAt(u, N) + 1
    BY <1>1, <1>3, EarlierRequests DEF CallInv
  <1>5. AttemptsAt(u, N) = attempt - 1
    BY <1>1 DEF CallInv, CallHistory, Attempts
  <1>6. AttemptsAt(u, N + 1)' = attempt
    BY <1>2, <1>4, <1>5, FailoverAssumption
  <1>7. ASSUME NEW n \in 1..N PROVE Follows(n)'
    <2>1. CASE n # N
      <3>1. Follows(n) /\ n + 1 \in 1..N
        BY <2>1 DEF CallInv, CallHistory
      <3>2. requests'[n] = requests[n] /\ requests'[n + 1] = requests[n + 1]
        BY <1>4, <3>1
      <3>3. GivenUp(n)' <=> GivenUp(n)
        BY <1>4
      <3> QED
        BY <3>1, <3>2, <3>3 DEF Follows
    <2>2. CASE n = N
      <3>0. requests # <<>> /\ requests'[n] = requests[n] /\ (GivenUp(n)' <=> GivenUp(n))
        BY <1>4, <2>2
      <3>1. CASE attempt = 1
        <4>1. requests[n].tier < u /\ GivenUp(n)
          BY <1>1, <2>2, <3>0, <3>1 DEF CallInv, CallHistory, Attempts, LastGivenUp
        <4>2. requests[n].tier \in 1..2 /\ u \in 1..2
          BY <1>2, <1>4, FailoverAssumption DEF Request
        <4> QED
          BY <1>3, <1>4, <2>2, <3>0, <4>1, <4>2 DEF Follows
      <3>2. CASE attempt # 1
        <4>1. requests[n].tier = u /\ requests[n].outcome = "transient"
          BY <1>1, <2>2, <3>2 DEF CallInv, CallHistory, Attempts, LastMayRepeat
        <4>2. ~GivenUp(n)
          BY <1>2, <1>5, <2>2, <4>1, FailoverAssumption DEF GivenUp
        <4> QED
          BY <1>3, <1>4, <2>2, <3>0, <4>1, <4>2 DEF Follows
      <3> QED
        BY <3>1, <3>2
    <2> QED
      BY <2>1, <2>2
  <1>8. \A n \in 1..N + 1 : requests'[n].tier <= u
    <2>1. \A n \in 1..N : requests[n].tier <= u
      BY <1>1 DEF CallInv, CallHistory, Asking
    <2>2. u <= u
      BY <1>2, FailoverAssumption
    <2> QED
      BY <1>3, <1>4, <2>1, <2>2
  <1>9. ASSUME NEW t \in Configured, t < u PROVE TierGivenUp(t)'
    <2>1. PICK n \in 1..N : requests[n].tier = t /\ GivenUp(n)
      BY <1>1, <1>9 DEF CallInv, CallHistory, Asking, TierGivenUp
    <2> QED
      BY <1>4, <2>1 DEF TierGivenUp
  <1> QED
    BY <1>2, <1>3, <1>4, <1>6, <1>7, <1>8, <1>9

(* On to the next tier after one was given up, or to the end of the call.  *)
LEMMA TierLeft ==
    ASSUME CallInv, NEW outcome \in Outcome, CallAIEndpoint(outcome),
           TryTierBelow(tier), NEW N \in Nat, Len(requests) = N, GivenUp(N + 1)'
    PROVE  CallInv'
  <1>0. PICK u : tier = u
    OBVIOUS
  <1>1. /\ requests' \in Seq(Request) /\ requests' # <<>> /\ Len(requests') = N + 1
        /\ requests'[N + 1].tier = u
        /\ u \in Configured /\ attempt \in 1..MaxRetries
        /\ \A n \in 1..N : Follows(n)'
        /\ \A n \in 1..N + 1 : requests'[n].tier <= u
        /\ \A t \in Configured : t < u => TierGivenUp(t)'
    BY <1>0, RequestAnswered
  <1>2. TierGivenUp(u)'
    BY <1>1 DEF TierGivenUp
  <1>3. Configured \subseteq 1..2 /\ MaxRetries \in Int
    BY FailoverAssumption
  <1>4. \A t \in Configured : t <= u => TierGivenUp(t)'
    BY <1>1, <1>2, <1>3
  <1>5. CASE TiersBelow(u) = {}
    <2>1. call' = "failed" /\ tier' = tier /\ attempt' = attempt
      BY <1>0, <1>5 DEF TryTierBelow
    <2>2. \A t \in Configured : t <= u
      BY <1>1, <1>3, <1>5 DEF TiersBelow
    <2>3. CallTypeOK'
      BY <1>0, <1>1, <1>3, <2>1 DEF CallTypeOK, CallState, Request
    <2> QED
      BY <1>1, <1>4, <2>1, <2>2, <2>3 DEF CallInv, CallHistory, Asking, Attempts
  <1>6. CASE TiersBelow(u) # {}
    <2>0. TiersBelow(u) \in SUBSET (1..2)
      BY <1>3 DEF TiersBelow
    <2>1. PICK w \in TiersBelow(u) : /\ tier' = w /\ attempt' = 1 /\ call' = "asking"
                                     /\ \A v \in TiersBelow(u) : w <= v
      BY <1>0, <1>6, <2>0, FirstTier DEF TryTierBelow
    <2>2. w \in Configured /\ w > u /\ MaxRetries >= 1
      BY <2>1 DEF TiersBelow
    <2>3. ASSUME NEW t \in Configured, t < w PROVE t <= u
      <3>1. t \notin TiersBelow(u)
        BY <1>3, <2>1, <2>2, <2>3
      <3> QED
        BY <1>1, <1>3, <2>2, <3>1 DEF TiersBelow
    <2>4. \A n \in 1..N + 1 : requests'[n].tier \in 1..2 /\ requests'[n].tier < w
      <3>1. \A n \in 1..N + 1 : requests'[n] \in Request
        BY <1>1
      <3>2. \A n \in 1..N + 1 : requests'[n].tier \in 1..2
        BY <1>3, <3>1 DEF Request
      <3> QED
        BY <1>1, <1>3, <2>2, <3>2
    <2>5. AttemptsAt(tier, Len(requests))' = 0
      <3>1. {i \in 1..N + 1 : requests'[i].tier = w} = {}
        BY <1>3, <2>2, <2>4
      <3> QED
        BY <1>1, <2>1, <3>1, FS_EmptySet DEF AttemptsAt
    <2>6. CallTypeOK'
      BY <1>1, <1>3, <2>1, <2>2 DEF CallTypeOK, CallState, Request
    <2>7. Asking'
      BY <1>1, <1>3, <1>4, <2>1, <2>2, <2>3, <2>4 DEF Asking
    <2>8. LastGivenUp'
      <3>1. Len(requests') \in 1..N + 1
        BY <1>1
      <3>2. requests'[Len(requests')].tier < tier'
        BY <2>1, <2>4, <3>1
      <3> QED
        BY <1>1, <3>2 DEF LastGivenUp
    <2>9. Attempts'
      BY <2>1, <2>5, <2>8 DEF Attempts
    <2> QED
      BY <1>1, <2>1, <2>6, <2>7, <2>9 DEF CallInv, CallHistory
  <1> QED
    BY <1>5, <1>6

(* The first tier is the first that is configured. *)
LEMMA CallBegins == ASSUME CallInv, BeginCall PROVE CallInv'
  <1>0. Configured \subseteq 1..2 /\ MaxRetries \in Int
    BY FailoverAssumption
  <1>1. requests' = <<>> /\ <<>> \in Seq(Request) /\ Len(requests') = 0
    BY DEF BeginCall
  <1>2. call = "idle" /\ TryTierBelow(0)
    BY DEF BeginCall
  <1>3. CASE TiersBelow(0) = {}
    <2>1. call' = "failed" /\ UNCHANGED <<tier, attempt>>
      BY <1>2, <1>3 DEF TryTierBelow
    <2>2. MaxRetries >= 1 => Configured = {}
      BY <1>0, <1>3 DEF TiersBelow
    <2>3. CallTypeOK'
      BY <1>1, <2>1 DEF CallInv, CallTypeOK, CallState, Request
    <2> QED
      BY <1>1, <2>1, <2>2, <2>3 DEF CallInv, CallHistory, Asking, Attempts
  <1>4. CASE TiersBelow(0) # {}
    <2>0. TiersBelow(0) \in SUBSET (1..2)
      BY <1>0 DEF TiersBelow
    <2>1. PICK w \in TiersBelow(0) : /\ tier' = w /\ attempt' = 1 /\ call' = "asking"
                                     /\ \A v \in TiersBelow(0) : w <= v
      BY <1>2, <1>4, <2>0, FirstTier DEF TryTierBelow
    <2>2. w \in Configured /\ MaxRetries >= 1
      BY <2>1 DEF TiersBelow
    <2>3. \A t \in Configured : ~(t < w)
      BY <1>0, <2>1, <2>2 DEF TiersBelow
    <2>4. AttemptsAt(tier, Len(requests))' = 0
      <3>1. {i \in 1..0 : requests'[i].tier = w} = {}
        OBVIOUS
      <3> QED
        BY <1>1, <2>1, <3>1, FS_EmptySet DEF AttemptsAt
    <2> QED
      BY <1>0, <1>1, <2>1, <2>2, <2>3, <2>4
      DEF CallInv, CallTypeOK, CallState, CallHistory, Asking, Attempts,
          LastGivenUp, Request
  <1> QED
    BY <1>3, <1>4

(* Every step of a call keeps its invariant. *)
LEMMA CallStepKeeps == ASSUME CallInv, CallStep PROVE CallInv'
  <1>0. PICK N, u : N \in Nat /\ Len(requests) = N /\ tier = u
    <2>1. requests \in Seq(Request)
      BY DEF CallInv, CallTypeOK, Request
    <2> QED
      BY <2>1
  <1>1. ASSUME NEW outcome \in Outcome, CallAIEndpoint(outcome), UNCHANGED <<tier, attempt>>,
               call' \in CallState
        PROVE  /\ CallTypeOK'
               /\ \A n \in 1..Len(requests') - 1 : Follows(n)'
               /\ requests' # <<>>
               /\ requests'[Len(requests')].outcome = outcome
    <2>1. /\ requests' \in Seq(Request) /\ Len(requests') = N + 1
          /\ requests' # <<>>
          /\ requests'[N + 1].outcome = outcome
          /\ \A n \in 1..N : Follows(n)'
      BY <1>0, <1>1, RequestAnswered
    <2> QED
      BY <1>0, <1>1, <2>1 DEF CallInv, CallTypeOK, Request
  <1>2. CASE Succeed
    BY <1>1, <1>2 DEF Succeed, Outcome, CallState, CallInv, CallHistory, Asking, Attempts
  <1>3. CASE SetupError
    BY <1>1, <1>3 DEF SetupError, Outcome, CallState, CallInv, CallHistory, Asking, Attempts
  <1>4. CASE Transient
    <2>1. /\ Len(requests') = N + 1
          /\ requests'[N + 1].tier = u /\ requests'[N + 1].outcome = "transient"
          /\ u \in Configured /\ attempt \in 1..MaxRetries
          /\ AttemptsAt(u, N + 1)' = attempt
          /\ \A n \in 1..N + 1 : requests'[n].tier <= u
          /\ \A t \in Configured : t < u => TierGivenUp(t)'
      BY <1>0, <1>4, RequestAnswered DEF Transient, Outcome
    <2>2. CASE attempt < MaxRetries
      <3>1. call' = "pausing" /\ tier' = u /\ attempt' = attempt
        BY <1>0, <1>4, <2>2 DEF Transient
      <3>2. /\ CallTypeOK' /\ \A n \in 1..Len(requests') - 1 : Follows(n)'
            /\ requests' # <<>>
        BY <1>0, <1>1, <1>4, <3>1 DEF Transient, Outcome, CallState
      <3>3. Asking'
        BY <2>1, <3>1 DEF Asking
      <3>4. Attempts'
        <4>1. AttemptsAt(tier, Len(requests))' = attempt
          BY <2>1, <3>1 DEF AttemptsAt
        <4> QED
          BY <2>1, <2>2, <3>1, <3>2, <4>1 DEF Attempts, LastMayRepeat
      <3> QED
        BY <3>1, <3>2, <3>3, <3>4 DEF CallInv, CallHistory
    <2>3. CASE ~(attempt < MaxRetries)
      <3>1. attempt = MaxRetries
        BY <2>1, <2>3, FailoverAssumption
      <3>2. GivenUp(N + 1)'
        <4>1. AttemptsAt(requests[N + 1].tier, N + 1)' = MaxRetries
          BY <2>1, <3>1 DEF AttemptsAt
        <4> QED
          BY <2>1, <4>1 DEF GivenUp
      <3> QED
        BY <1>0, <1>4, <2>3, <3>2, TierLeft DEF Transient, Outcome
    <2> QED
      BY <2>2, <2>3
  <1>5. CASE OtherFailure
    <2>1. requests'[N + 1].outcome = "other"
      BY <1>0, <1>5, RequestAnswered DEF OtherFailure, Outcome
    <2>2. GivenUp(N + 1)'
      BY <2>1 DEF GivenUp
    <2> QED
      BY <1>0, <1>5, <2>2, TierLeft DEF OtherFailure, Outcome
  <1>6. CASE ThrottleOver
    BY <1>6 DEF ThrottleOver, CallInv, CallTypeOK, CallState, CallHistory, Asking,
                Attempts, Follows, GivenUp, AttemptsAt
  <1>7. CASE PauseOver
    <2>1. /\ call = "pausing" /\ call' = "asking" /\ attempt' = attempt + 1
          /\ UNCHANGED <<tier, requests>>
      BY <1>7 DEF PauseOver
    <2>2. /\ attempt \in 1..MaxRetries /\ attempt < MaxRetries
          /\ AttemptsAt(tier, Len(requests)) = attempt
          /\ LastMayRepeat
      BY <2>1 DEF CallInv, CallHistory, Asking, Attempts
    <2>3. attempt + 1 \in 1..MaxRetries /\ attempt + 1 # 1
      BY <2>2, FailoverAssumption
    <2>4. CallTypeOK'
      BY <2>1, <2>3, FailoverAssumption DEF CallInv, CallTypeOK, CallState
    <2>5. \A n : GivenUp(n)' <=> GivenUp(n)
      BY <2>1 DEF GivenUp, AttemptsAt
    <2>6. Asking'
      BY <2>1, <2>3, <2>5 DEF CallInv, CallHistory, Asking, TierGivenUp
    <2>7. Attempts'
      <3>1. AttemptsAt(tier, Len(requests))' = attempt
        BY <2>1, <2>2 DEF AttemptsAt
      <3>2. attempt' - 1 = attempt
        BY <2>1, <2>2
      <3> QED
        BY <2>1, <2>2, <2>3, <3>1, <3>2 DEF Attempts, LastMayRepeat
    <2>8. \A n \in 1..Len(requests') - 1 : Follows(n)'
      BY <2>1, <2>5 DEF CallInv, CallHistory, Follows
    <2> QED
      BY <2>1, <2>4, <2>6, <2>7, <2>8 DEF CallInv, CallHistory
  <1> QED
    BY <1>2, <1>3, <1>4, <1>5, <1>6, <1>7 DEF CallStep

(* A call that is over is forgotten. *)
LEMMA CallEnds == ASSUME EndCall PROVE CallInv'
  BY FailoverAssumption
  DEF EndCall, CallInv, CallTypeOK, CallState, CallHistory, Asking, Attempts

(* A step of something else leaves it alone. *)
LEMMA CallUntouched == ASSUME CallInv, UNCHANGED callVars PROVE CallInv'
  <1>1. UNCHANGED <<call, tier, attempt, requests>>
    BY DEF callVars
  <1>2. \A t, n : AttemptsAt(t, n)' = AttemptsAt(t, n)
    BY <1>1 DEF AttemptsAt
  <1>3. \A n : GivenUp(n)' <=> GivenUp(n)
    BY <1>1 DEF GivenUp, AttemptsAt
  <1>4. AttemptsAt(tier, Len(requests))' = AttemptsAt(tier, Len(requests))
    BY <1>1 DEF AttemptsAt
  <1>5. \A n : (Follows(n)' <=> Follows(n)) /\ (TierGivenUp(n)' <=> TierGivenUp(n))
    BY <1>1, <1>3 DEF Follows, TierGivenUp
  <1>6. (LastMayRepeat' <=> LastMayRepeat) /\ (LastGivenUp' <=> LastGivenUp)
    <2>1. LastMayRepeat' <=> LastMayRepeat
      BY <1>1 DEF LastMayRepeat
    <2>2. GivenUp(Len(requests))' <=> GivenUp(Len(requests))
      BY <1>1 DEF GivenUp, AttemptsAt
    <2> QED
      BY <1>1, <2>1, <2>2 DEF LastGivenUp
  <1>7. Asking' /\ Attempts'
    BY <1>1, <1>4, <1>5, <1>6 DEF CallInv, CallHistory, Asking, Attempts
  <1>8. CallTypeOK'
    BY <1>1 DEF CallInv, CallTypeOK
  <1> QED
    BY <1>1, <1>5, <1>7, <1>8 DEF CallInv, CallHistory

(* Whatever the commands do, a call begins, goes on or ends. *)
LEMMA CallMoves ==
    [Next]_vars => BeginCall \/ CallStep \/ EndCall \/ UNCHANGED callVars
  BY DEF Next, StartCommand, StartImport, StartBuild, StartTranslate, Edit, ProcessEnds,
         CommandStep, Aborted, ImportStep, LoadIdempotencyState, LoadCatalogEntries,
         BeginDownload, CatalogDownloaded,
         ImportRefused, CatalogRefused, SkipEntry, AskForRequirement, RecordRequirement,
         TriageFails, ImportDone, ImportExits, BuildStep, ReadHeader, BuildRefused,
         SkipRow, AskForPolicy, PolicyFails, OpenPolicyFile, SavePolicy, WriteFails,
         BuildDone, BuildExits,
         TranslateStep, AskForTranslator, OpenTranslator, SaveTranslator,
         TranslateExits, vars

(* The policy of retries and failover, from the invariant. *)
LEMMA PolicyFollowed == CallInv => CallFollowsPolicy
  <1> SUFFICES ASSUME CallInv PROVE CallFollowsPolicy
    OBVIOUS
  <1>1. \A n \in 1..Len(requests) - 1 : Follows(n)
    BY DEF CallInv, CallHistory
  <1>2. call = "failed" /\ MaxRetries >= 1 =>
          \A t \in Configured : \E n \in 1..Len(requests) : requests[n].tier = t /\ GivenUp(n)
    BY DEF CallInv, CallHistory, TierGivenUp
  <1>3. call = "answered" => requests[Len(requests)].outcome = "ok"
    BY DEF CallInv, CallHistory
  <1> QED
    BY <1>1, <1>2, <1>3 DEF CallFollowsPolicy, Follows

-----------------------------------------------------------------------------
(* The commands: what is reset, and what is known while a call is made. *)

(* Where a command may be behind its start. *)
Steps == {"catalog", "downloading", "rows", "asking", "saving", "done"}

Session ==
    /\ command = "none" => step = "start"
    /\ command # "none" => runs >= 1
    /\ command # "import" =>
         /\ provider = NoProvider /\ catalog = <<>> /\ next = 1
         /\ processed = {} /\ missed = {}
    /\ command # "build" => row = 1 /\ begun = {} /\ generated = {}
    /\ header = "absent" => lines = <<>>

(* An import that reads its catalog has made sure of the file. *)
FileThere == command = "import" /\ step # "start" => header # "absent"

AskedFor ==
    /\ At("import", "asking") => next <= Len(catalog) /\ ~Skippable
    /\ At("import", "done") => next > Len(catalog)
    /\ At("build", "asking") \/ At("build", "saving") =>
         row <= Len(lines) /\ Approved(row)
    /\ At("build", "saving") => row \in begun

(* The rows are of imports that were started. *)
RowsDated == \A i \in DOMAIN lines : IsRow(i) => lines[i].run <= runs

Basis ==
    /\ TypeOK
    /\ CallHistory
    /\ Session
    /\ FileThere
    /\ AskedFor
    /\ RowsDated

(* A row has fields that a garbled line lacks. *)
LEMMA RowNotGarbled == ASSUME NEW x \in Row PROVE x # Garbled
  <1>1. "control" \in DOMAIN x
    BY DEF Row
  <1>2. "control" \notin DOMAIN Garbled
    BY DEF Garbled
  <1> QED
    BY <1>1, <1>2

(* A line that is not garbled is a row. *)
LEMMA LineTyped ==
    ASSUME lines \in Seq(Line), NEW i \in DOMAIN lines, IsRow(i)
    PROVE  lines[i] \in Row
  <1>1. lines[i] \in Line
    OBVIOUS
  <1> QED
    BY <1>1 DEF IsRow, Line

(* What a line adds to the file, also behind one without its end. *)
LEMMA Glued ==
    ASSUME lines \in Seq(Line), cut \in BOOLEAN, cut => lines # <<>>, NEW x \in Line
    PROVE  /\ Glue(x) \in Seq(Line)
           /\ Glue(x) # <<>>
           /\ Len(Glue(x)) >= Len(lines)
           /\ \A i \in DOMAIN Glue(x) : \/ Glue(x)[i] \in {x, Garbled}
                                        \/ i \in DOMAIN lines /\ Glue(x)[i] = lines[i]
           /\ ~cut => Glue(x) = Append(lines, x)
           /\ cut => Len(lines) \in DOMAIN Glue(x) /\ Glue(x)[Len(lines)] = Garbled
  <1>0. Garbled \in Line
    BY DEF Line
  <1>1. CASE ~cut
    <2>1. Glue(x) = Append(lines, x)
      BY <1>1 DEF Glue
    <2> QED
      BY <1>1, <2>1
  <1>2. CASE cut
    <2>0. Len(lines) \in Nat \ {0}
      BY <1>2
    <2>1. /\ Front(lines) \in Seq(Line)
          /\ Len(Front(lines)) = Len(lines) - 1
          /\ \A i \in 1..Len(lines) - 1 : Front(lines)[i] = lines[i]
      <3>1. \A i \in 1..Len(lines) - 1 : lines[i] \in Line
        BY <2>0
      <3>2. PICK n \in Nat : n = Len(lines) - 1
        BY <2>0
      <3>3. \A i \in 1..n : lines[i] \in Line
        BY <3>1, <3>2
      <3>4. /\ SubSeq(lines, 1, n) \in Seq(Line)
            /\ Len(SubSeq(lines, 1, n)) = IF 1 <= n THEN n - 1 + 1 ELSE 0
            /\ \A i \in 1..n - 1 + 1 : SubSeq(lines, 1, n)[i] = lines[1 + i - 1]
        BY <3>3, SubSeqProperties
      <3>5. Len(SubSeq(lines, 1, n)) = n
        BY <3>4
      <3>6. \A i \in 1..n : SubSeq(lines, 1, n)[i] = lines[i]
        BY <3>4
      <3> QED
        BY <3>2, <3>4, <3>5, <3>6 DEF Front
    <2>2. Glue(x) = Append(Front(lines), Garbled)
      BY <1>2 DEF Glue
    <2> HIDE DEF Garbled
    <2>3. /\ Append(Front(lines), Garbled) \in Seq(Line)
          /\ Len(Append(Front(lines), Garbled)) = Len(lines)
          /\ \A i \in 1..Len(lines) - 1 : Append(Front(lines), Garbled)[i] = lines[i]
          /\ Append(Front(lines), Garbled)[Len(lines)] = Garbled
      BY <1>0, <2>0, <2>1, AppendProperties
    <2> QED
      BY <1>2, <2>0, <2>2, <2>3
  <1> QED
    BY <1>1, <1>2

(* What writing a row can do to the file. *)
LEMMA RowWritten ==
    ASSUME lines \in Seq(Line), cut \in BOOLEAN, cut => lines # <<>>,
           NEW r \in Row, WriteRow(r)
    PROVE  /\ lines' \in Seq(Line) /\ cut' \in BOOLEAN /\ (cut' => lines' # <<>>)
           /\ header' = header
           /\ Len(lines') >= Len(lines)
           /\ \A i \in DOMAIN lines' : \/ lines'[i] \in {r, Garbled}
                                       \/ i \in DOMAIN lines /\ lines'[i] = lines[i]
           /\ Readable' => lines' = lines \/ lines' = Append(lines, r)
           /\ Readable' /\ lines' # lines /\ ~cut' => lines' = Append(lines, r)
  <1>0. r \in Line /\ Garbled \in Line
    BY DEF Line
  <1>1. ASSUME NEW x \in {r, Garbled}, lines' = Glue(x)
        PROVE  /\ lines' \in Seq(Line) /\ lines' # <<>>
               /\ Len(lines') >= Len(lines)
               /\ \A i \in DOMAIN lines' : \/ lines'[i] \in {r, Garbled}
                                           \/ i \in DOMAIN lines /\ lines'[i] = lines[i]
               /\ Readable' => lines' = Append(lines, r)
    <2>1. /\ lines' \in Seq(Line) /\ lines' # <<>>
          /\ Len(lines') >= Len(lines)
          /\ \A i \in DOMAIN lines' : \/ lines'[i] \in {x, Garbled}
                                      \/ i \in DOMAIN lines /\ lines'[i] = lines[i]
          /\ ~cut => lines' = Append(lines, x)
          /\ cut => Len(lines) \in DOMAIN lines' /\ lines'[Len(lines)] = Garbled
      BY <1>0, <1>1, Glued
    <2>2. ASSUME Readable' PROVE lines' = Append(lines, r)
      <3>1. ~cut
        BY <2>1, <2>2 DEF Readable, IsRow
      <3>2. lines' = Append(lines, x)
        BY <2>1, <3>1
      <3>3. Len(lines) + 1 \in DOMAIN lines' /\ lines'[Len(lines) + 1] = x
        <4>1. x \in Line
          BY <1>0, <1>1
        <4> QED
          BY <3>2, <4>1, AppendProperties
      <3>4. x # Garbled
        BY <2>2, <3>3 DEF Readable, IsRow
      <3> QED
        BY <1>1, <3>2, <3>4
    <2> QED
      BY <1>1, <2>1, <2>2
  <1>2. header' = header
    BY DEF WriteRow
  <1>3. \/ \E x \in {r, Garbled} : lines' = Glue(x) /\ cut' \in BOOLEAN
        \/ UNCHANGED <<lines, cut>>
    BY DEF WriteRow
  <1>4. CASE \E x \in {r, Garbled} : lines' = Glue(x) /\ cut' \in BOOLEAN
    BY <1>1, <1>2, <1>4
  <1>5. CASE UNCHANGED <<lines, cut>>
    <2>1. \A i \in DOMAIN lines : lines'[i] = lines[i] /\ i \in DOMAIN lines'
      BY <1>5
    <2> QED
      BY <1>2, <1>5, <2>1
  <1> QED
    BY <1>3, <1>4, <1>5

(* The row an import writes for what the AI answered. *)
LEMMA RowTyped ==
    ASSUME TypeOK, Session, AskedFor, NEW x \in Extractions, At("import", "asking")
    PROVE  /\ RowFor(x) \in Row
           /\ RowFor(x).control = Entry /\ RowFor(x).run = runs
           /\ RowFor(x).asked = provider
           /\ next \in DOMAIN catalog
  <1>1. next \in 1..Len(catalog) /\ catalog \in Seq(Control)
    BY ImportAssumption DEF TypeOK, ImportTypeOK, AskedFor
  <1>2. Entry \in Control /\ next \in DOMAIN catalog
    BY <1>1 DEF Entry
  <1>3. provider \in Provider
    BY ImportAssumption DEF TypeOK, ImportTypeOK, AskedFor, Skippable
  <1>4. runs \in 1..MaxRuns
    BY MaxRunsAssumption DEF TypeOK, RequirementsTypeOK, Session, At
  <1>5. /\ x.provider \in Provider /\ x.status \in {"", "APPROVED", "MANUAL_AUDIT"}
    BY ExtractionsAssumption DEF Extraction
  <1> QED
    BY <1>2, <1>3, <1>4, <1>5 DEF RowFor, Row, Status

(* Two lines say the same but for the status. *)
SameRow(a, b) ==
    /\ a.control = b.control
    /\ a.provider = b.provider
    /\ a.run = b.run
    /\ a.asked = b.asked

(* People make no rows, they decide on them or remove what is none. *)
LEMMA Edited ==
    ASSUME lines \in Seq(Line), cut \in BOOLEAN, cut => lines # <<>>,
           NEW i \in DOMAIN lines, Decide(i) \/ Repair(i)
    PROVE  /\ lines' \in Seq(Line) /\ cut' \in BOOLEAN /\ (cut' => lines' # <<>>)
           /\ UNCHANGED <<header, command, step, runs>>
           /\ command = "none"
           /\ \A k \in DOMAIN lines' : IsRow(k)' =>
                \E m \in DOMAIN lines : IsRow(m) /\ SameRow(lines'[k], lines[m])
  <1>0. Len(lines) \in Nat /\ DOMAIN lines = 1..Len(lines) /\ i \in 1..Len(lines)
    OBVIOUS
  <1>1. CASE Decide(i)
    <2> DEFINE s == IF lines[i].status = "PENDING" THEN "APPROVED" ELSE "PENDING"
               r == [lines[i] EXCEPT !.status = s]
    <2>1. /\ IsRow(i) /\ lines' = [lines EXCEPT ![i] = r]
          /\ UNCHANGED <<header, cut, command, step, runs>> /\ command = "none"
      BY <1>1 DEF Decide, commandVars
    <2>2. lines[i] \in Row
      BY <2>1, LineTyped
    <2>3. r \in Row /\ SameRow(r, lines[i])
      BY <2>2 DEF Row, Status, SameRow
    <2> HIDE DEF r
    <2>4. r \in Line
      BY <2>3 DEF Line
    <2>5. /\ lines' \in Seq(Line) /\ Len(lines') = Len(lines)
          /\ \A k \in 1..Len(lines) : lines'[k] = IF k = i THEN r ELSE lines[k]
      BY <1>0, <2>1, <2>4, ExceptSeq
    <2>6. ASSUME NEW k \in DOMAIN lines', IsRow(k)'
          PROVE  \E m \in DOMAIN lines : IsRow(m) /\ SameRow(lines'[k], lines[m])
      <3>1. k \in DOMAIN lines
        BY <1>0, <2>5, <2>6
      <3>2. CASE k = i
        BY <1>0, <2>1, <2>3, <2>5, <3>2
      <3>3. CASE k # i
        BY <1>0, <2>5, <2>6, <3>1, <3>3 DEF IsRow, SameRow
      <3> QED
        BY <3>2, <3>3
    <2> QED
      BY <2>1, <2>5, <2>6
  <1>2. CASE Repair(i)
    <2> DEFINE s == SubSeq(lines, 1, i - 1)
               t == SubSeq(lines, i + 1, Len(lines))
    <2>1. /\ lines' = s \o t /\ cut' = FALSE
          /\ UNCHANGED <<header, command, step, runs>> /\ command = "none"
      BY <1>2 DEF Repair, RemoveAt, commandVars
    <2>2. \A k \in 1..Len(lines) : lines[k] \in Line
      BY <1>0
    <2>3. /\ s \in Seq(Line) /\ Len(s) = i - 1
          /\ \A k \in 1..i - 1 : s[k] = lines[k]
      <3>1. PICK n \in Nat : n = i - 1
        BY <1>0
      <3>2. \A k \in 1..n : lines[k] \in Line
        BY <1>0, <2>2, <3>1
      <3>3. /\ SubSeq(lines, 1, n) \in Seq(Line)
            /\ Len(SubSeq(lines, 1, n)) = IF 1 <= n THEN n - 1 + 1 ELSE 0
            /\ \A k \in 1..n - 1 + 1 : SubSeq(lines, 1, n)[k] = lines[1 + k - 1]
        BY <3>2, SubSeqProperties
      <3>4. Len(SubSeq(lines, 1, n)) = n
        BY <3>3
      <3>5. \A k \in 1..n : SubSeq(lines, 1, n)[k] = lines[k]
        BY <3>3
      <3> QED
        BY <3>1, <3>3, <3>4, <3>5
    <2>4. /\ t \in Seq(Line) /\ Len(t) = Len(lines) - i
          /\ \A k \in 1..Len(lines) - i : t[k] = lines[i + k]
      <3>0. Len(lines) \in Nat /\ i + 1 \in Nat
        BY <1>0
      <3>1. PICK n \in Nat, m \in Nat : n = Len(lines) /\ m = i + 1
        BY <3>0
      <3>2. \A k \in m..n : lines[k] \in Line
        BY <1>0, <2>2, <3>1
      <3>3. /\ SubSeq(lines, m, n) \in Seq(Line)
            /\ Len(SubSeq(lines, m, n)) = IF m <= n THEN n - m + 1 ELSE 0
            /\ \A k \in 1..n - m + 1 : SubSeq(lines, m, n)[k] = lines[m + k - 1]
        BY <3>2, SubSeqProperties
      <3>4. Len(SubSeq(lines, m, n)) = n - i
        BY <1>0, <3>1, <3>3
      <3>5. \A k \in 1..n - i : k \in 1..n - m + 1 /\ m + k - 1 = i + k
        BY <1>0, <3>1
      <3>6. \A k \in 1..n - i : SubSeq(lines, m, n)[k] = lines[i + k]
        BY <3>3, <3>5
      <3> QED
        BY <3>1, <3>3, <3>4, <3>6
    <2> HIDE DEF s, t
    <2>5. lines' \in Seq(Line)
      BY <2>1, <2>3, <2>4
    <2>6. \A k \in DOMAIN lines' : \E m \in DOMAIN lines : lines'[k] = lines[m]
      <3>1. /\ Len(s \o t) = Len(s) + Len(t)
            /\ \A k \in 1..Len(s) + Len(t) : (s \o t)[k] =
                  IF k <= Len(s) THEN s[k] ELSE t[k - Len(s)]
        BY <2>3, <2>4, ConcatProperties
      <3> SUFFICES ASSUME NEW k \in 1..Len(lines) - 1
                   PROVE  \E m \in DOMAIN lines : lines'[k] = lines[m]
        <4>1. Len(lines') = Len(lines) - 1
          BY <1>0, <2>1, <2>3, <2>4, <3>1
        <4>2. DOMAIN lines' = 1..Len(lines')
          BY <2>5
        <4> QED
          BY <4>1, <4>2
      <3>2. CASE k <= i - 1
        BY <1>0, <2>1, <2>3, <2>4, <3>1, <3>2
      <3>3. CASE ~(k <= i - 1)
        <4>1. lines'[k] = t[k - (i - 1)]
          BY <1>0, <2>1, <2>3, <2>4, <3>1, <3>3
        <4>2. k - (i - 1) \in 1..Len(lines) - i /\ i + (k - (i - 1)) = k + 1
          BY <1>0, <3>3
        <4>3. lines'[k] = lines[k + 1] /\ k + 1 \in DOMAIN lines
          BY <1>0, <2>4, <4>1, <4>2
        <4> QED
          BY <4>3
      <3> QED
        BY <3>2, <3>3
    <2>7. ASSUME NEW k \in DOMAIN lines', IsRow(k)'
          PROVE  \E m \in DOMAIN lines : IsRow(m) /\ SameRow(lines'[k], lines[m])
      <3>1. PICK m \in DOMAIN lines : lines'[k] = lines[m]
        BY <2>6
      <3> QED
        BY <2>7, <3>1 DEF IsRow, SameRow
    <2> QED
      BY <2>1, <2>5, <2>7
  <1> QED
    BY <1>1, <1>2

Reset ==
    /\ Start("import")
    /\ header' = "absent"
    /\ lines' = <<>>
    /\ cut' = FALSE

(* The steps that write requirements.csv. *)
LEMMA FileMoves ==
    [Next]_vars =>
        \/ UNCHANGED fileVars
        \/ Reset
        \/ LoadIdempotencyState
        \/ \E x \in Extractions : RecordRequirement(x)
        \/ \E i \in DOMAIN lines : Decide(i) \/ Repair(i)
  BY DEF Next, StartCommand, StartImport, StartBuild, StartTranslate, Edit, ProcessEnds,
         CommandStep, Aborted, ImportStep, LoadCatalogEntries, BeginDownload,
         CatalogDownloaded,
         ImportRefused, CatalogRefused, SkipEntry, AskForRequirement,
         TriageFails, ImportDone, ImportExits, BuildStep, ReadHeader, BuildRefused,
         SkipRow, AskForPolicy, PolicyFails, OpenPolicyFile, SavePolicy, WriteFails,
         ToNextRow, BuildDone, BuildExits,
         TranslateStep, AskForTranslator, OpenTranslator, SaveTranslator,
         TranslateExits, Reset, vars

(* A command is started, goes on, or ends. *)
LEMMA CommandMoves ==
    [Next]_vars =>
        \/ \E c \in {"import", "build", "translate"} : Start(c)
        \/ command # "none" /\ \E s \in Steps : Goto(s)
        \/ command # "none" /\ End
        \/ UNCHANGED commandVars
  <1> DEFINE Moves == \/ command # "none" /\ \E s \in Steps : Goto(s)
                      \/ command # "none" /\ End
  <1>1. ImportStep => Moves
    BY DEF ImportStep, LoadIdempotencyState, LoadCatalogEntries, BeginDownload,
           CatalogDownloaded, ImportRefused,
           CatalogRefused, SkipEntry, Triaging, AskForRequirement, RecordRequirement,
           TriageFails, ToNext, ImportDone, ImportExits, At, Steps
  <1>2. BuildStep => Moves
    BY DEF BuildStep, ReadHeader, BuildRefused, SkipRow, AskForPolicy, PolicyFails,
           OpenPolicyFile, SavePolicy, WriteFails, ToNextRow, BuildDone, BuildExits,
           At, Steps
  <1>3. TranslateStep => Moves
    BY DEF TranslateStep, AskForTranslator, OpenTranslator, SaveTranslator,
           TranslateExits, At, Steps
  <1>4. ProcessEnds => Moves
    BY DEF ProcessEnds
  <1>5. StartCommand => \E c \in {"import", "build", "translate"} : Start(c)
    BY DEF StartCommand, StartImport, StartBuild, StartTranslate
  <1>6. Edit => UNCHANGED commandVars
    BY DEF Edit, Decide, Repair
  <1> QED
    BY <1>1, <1>2, <1>3, <1>4, <1>5, <1>6 DEF Next, CommandStep, Aborted, vars

(* The command, its step and their number. *)
LEMMA CommandsTyped ==
    ASSUME TypeOK, Session, [Next]_vars
    PROVE  /\ command' \in {"none", "import", "build", "translate"}
           /\ step' \in {"start"} \cup Steps
           /\ runs' \in 0..MaxRuns
           /\ runs <= runs'
           /\ command' = "none" => step' = "start"
           /\ command' # "none" => runs' >= 1
  <1>1. /\ command \in {"none", "import", "build", "translate"}
        /\ step \in {"start"} \cup Steps
        /\ runs \in 0..MaxRuns
    BY DEF TypeOK, RequirementsTypeOK, Steps
  <1> QED
    BY <1>1, CommandMoves, MaxRunsAssumption
    DEF Session, Steps, Start, Goto, End, commandVars

(* The file, and whose rows are in it. *)
LEMMA FilesTyped ==
    ASSUME Basis, [Next]_vars
    PROVE  /\ header' \in {"absent", "empty", "present"}
           /\ lines' \in Seq(Line)
           /\ cut' \in BOOLEAN
           /\ cut' => lines' # <<>>
           /\ header' = "absent" => lines' = <<>>
           /\ RowsDated'
  <1>0. /\ header \in {"absent", "empty", "present"} /\ lines \in Seq(Line)
        /\ cut \in BOOLEAN /\ (cut => lines # <<>>) /\ RowsDated
        /\ (header = "absent" => lines = <<>>)
        /\ runs \in Nat /\ runs' \in Nat /\ runs <= runs'
    <2>1. runs' \in 0..MaxRuns /\ runs <= runs'
      BY CommandsTyped DEF Basis
    <2> QED
      BY <2>1, MaxRunsAssumption DEF Basis, TypeOK, RequirementsTypeOK, Session
  <1>1. \A i \in DOMAIN lines : IsRow(i) => lines[i].run \in Nat /\ lines[i].run <= runs
    <2>1. \A i \in DOMAIN lines : IsRow(i) => lines[i] \in Row
      BY <1>0, LineTyped
    <2> QED
      BY <1>0, <2>1, MaxRunsAssumption DEF RowsDated, Row
  <1>2. CASE UNCHANGED fileVars
    <2>1. UNCHANGED <<header, lines, cut>>
      BY <1>2 DEF fileVars
    <2> QED
      BY <1>0, <1>1, <2>1 DEF RowsDated, IsRow
  <1>3. CASE Reset
    <2>1. header' = "absent" /\ lines' = <<>> /\ cut' = FALSE
      BY <1>3 DEF Reset
    <2>2. <<>> \in Seq(Line) /\ DOMAIN lines' = {}
      BY <2>1
    <2> QED
      BY <2>1, <2>2 DEF RowsDated
  <1>4. CASE LoadIdempotencyState
    <2>1. UNCHANGED <<lines, cut>> /\ header' \in {header, "empty", "present"}
      BY <1>4 DEF LoadIdempotencyState
    <2> QED
      BY <1>0, <1>1, <2>1 DEF RowsDated, IsRow
  <1>5. ASSUME NEW x \in Extractions, RecordRequirement(x)
        PROVE  /\ header' \in {"absent", "empty", "present"} /\ lines' \in Seq(Line)
               /\ cut' \in BOOLEAN /\ (cut' => lines' # <<>>)
               /\ (header' = "absent" => lines' = <<>>)
               /\ RowsDated'
    <2>1. At("import", "asking") /\ WriteRow(RowFor(x))
      BY <1>5 DEF RecordRequirement
    <2>2. RowFor(x) \in Row /\ RowFor(x).run = runs
      BY <2>1, RowTyped DEF Basis
    <2> DEFINE r == RowFor(x)
    <2> HIDE DEF r
    <2>3. /\ lines' \in Seq(Line) /\ cut' \in BOOLEAN /\ (cut' => lines' # <<>>)
          /\ header' = header
          /\ \A i \in DOMAIN lines' : \/ lines'[i] \in {r, Garbled}
                                      \/ i \in DOMAIN lines /\ lines'[i] = lines[i]
      BY <1>0, <2>1, <2>2, RowWritten DEF r
    <2>4. RowsDated'
      BY <1>0, <1>1, <2>2, <2>3 DEF RowsDated, IsRow, r
    <2>5. header # "absent"
      BY <2>1 DEF Basis, FileThere, At
    <2> QED
      BY <1>0, <2>3, <2>4, <2>5
  <1>6. ASSUME NEW i \in DOMAIN lines, Decide(i) \/ Repair(i)
        PROVE  /\ header' \in {"absent", "empty", "present"} /\ lines' \in Seq(Line)
               /\ cut' \in BOOLEAN /\ (cut' => lines' # <<>>)
               /\ (header' = "absent" => lines' = <<>>)
               /\ RowsDated'
    <2>1. /\ lines' \in Seq(Line) /\ cut' \in BOOLEAN /\ (cut' => lines' # <<>>)
          /\ header' = header
          /\ \A k \in DOMAIN lines' : IsRow(k)' =>
               \E m \in DOMAIN lines : IsRow(m) /\ SameRow(lines'[k], lines[m])
      BY <1>0, <1>6, Edited
    <2>2. header # "absent"
      BY <1>0, <1>6
    <2>3. RowsDated'
      BY <1>0, <1>1, <2>1 DEF RowsDated, SameRow
    <2> QED
      BY <1>0, <2>1, <2>2, <2>3
  <1> QED
    BY <1>2, <1>3, <1>4, <1>5, <1>6, FileMoves

(* The steps that move an import. *)
LEMMA ImportMoves ==
    [Next]_vars =>
        \/ \E p \in Active \cup {NoProvider}, c \in Catalogs, reset \in BOOLEAN :
              StartImport(p, c, reset)
        \/ LoadIdempotencyState
        \/ /\ command = "import"
           /\ \/ step = "rows" /\ next <= Len(catalog)
              \/ step = "asking"
           /\ \E hasRow \in BOOLEAN : ToNext("rows", hasRow)
        \/ End /\ ForgetImport
        \/ UNCHANGED importVars /\ (command = "import" => command' = "import")
  <1> DEFINE On == /\ command = "import"
                   /\ (step = "rows" /\ next <= Len(catalog)) \/ step = "asking"
                   /\ \E hasRow \in BOOLEAN : ToNext("rows", hasRow)
             Rest == UNCHANGED importVars /\ (command = "import" => command' = "import")
  <1>1. ImportStep => LoadIdempotencyState \/ On \/ (End /\ ForgetImport) \/ Rest
    <2>1. SkipEntry => On
      BY DEF SkipEntry, Triaging, At
    <2>2. ASSUME NEW x \in Extractions, RecordRequirement(x) PROVE On
      <3>1. ToNext("rows", lines' # lines /\ ~cut')
        BY <2>2 DEF RecordRequirement
      <3>2. \E hasRow \in BOOLEAN : ToNext("rows", hasRow)
        <4> DEFINE b == lines' # lines /\ ~cut'
        <4>1. b \in BOOLEAN /\ ToNext("rows", b)
          BY <3>1
        <4> HIDE DEF b
        <4>2. ToNext("rows", IF b THEN TRUE ELSE FALSE)
          BY <4>1 DEF ToNext
        <4> QED
          BY <4>2
      <3> QED
        BY <2>2, <3>2 DEF RecordRequirement, At
    <2>3. TriageFails => On
      BY DEF TriageFails, At
    <2>4. AskForRequirement => Rest
      BY DEF AskForRequirement, Triaging, At, Goto
    <2> QED
      BY <2>1, <2>2, <2>3, <2>4
      DEF ImportStep, LoadCatalogEntries, BeginDownload, CatalogDownloaded,
          ImportRefused, CatalogRefused,
          ImportDone, ImportExits, At, Goto, importVars, triageVars
  <1>2. BuildStep => command = "build"
    BY DEF BuildStep, ReadHeader, BuildRefused, SkipRow, AskForPolicy, PolicyFails,
           OpenPolicyFile, SavePolicy, WriteFails, BuildDone, BuildExits, At
  <1>3. TranslateStep => command = "translate"
    BY DEF TranslateStep, AskForTranslator, OpenTranslator, SaveTranslator,
           TranslateExits, At
  <1>4. StartBuild \/ StartTranslate => command = "none"
    BY DEF StartBuild, StartTranslate, Start
  <1> QED
    BY <1>1, <1>2, <1>3, <1>4
    DEF Next, StartCommand, Edit, Decide, Repair, CommandStep, Aborted, ProcessEnds,
        vars, commandVars

(* The variables of an import keep their types, and are reset after it.    *)
LEMMA ImportTyped ==
    ASSUME Basis, [Next]_vars
    PROVE  /\ ImportTypeOK'
           /\ command' # "import" =>
                /\ provider' = NoProvider /\ catalog' = <<>> /\ next' = 1
                /\ processed' = {} /\ missed' = {}
  <1>0. /\ provider \in Active \cup {NoProvider} /\ catalog \in Catalogs \cup {<<>>}
        /\ next \in 1..Len(catalog) + 1 /\ processed \subseteq Control \X Provider
        /\ missed \subseteq 1..Len(catalog)
        /\ command # "import" =>
             /\ provider = NoProvider /\ catalog = <<>> /\ next = 1
             /\ processed = {} /\ missed = {}
    BY DEF Basis, TypeOK, ImportTypeOK, Session
  <1>1. \A c \in Catalogs \cup {<<>>} : Len(c) \in Nat
    BY ImportAssumption
  <1>2. ASSUME NEW p \in Active \cup {NoProvider}, NEW c \in Catalogs, NEW reset \in BOOLEAN,
               StartImport(p, c, reset)
        PROVE  ImportTypeOK' /\ command' = "import"
    BY <1>0, <1>1, <1>2 DEF StartImport, Start, ImportTypeOK
  <1>3. CASE LoadIdempotencyState
    <2>1. /\ UNCHANGED <<provider, catalog, next, missed>> /\ command' = "import"
          /\ processed' = {} \/ (processed' = Recorded /\ Readable)
      BY <1>3 DEF LoadIdempotencyState, triageVars, At, Goto
    <2>2. Readable => Recorded \subseteq Control \X Provider
      <3>1. lines \in Seq(Line)
        BY DEF Basis, TypeOK, RequirementsTypeOK
      <3>2. Readable => \A i \in DOMAIN lines : lines[i] \in Row
        BY <3>1, LineTyped DEF Readable
      <3> QED
        BY <3>2 DEF Recorded, Row
    <2> QED
      BY <1>0, <2>1, <2>2 DEF ImportTypeOK
  <1>4. ASSUME command = "import",
               \/ step = "rows" /\ next <= Len(catalog)
               \/ step = "asking",
               NEW hasRow \in BOOLEAN, ToNext("rows", hasRow)
        PROVE  ImportTypeOK' /\ command' = "import"
    <2>1. next <= Len(catalog)
      BY <1>4 DEF Basis, AskedFor, At
    <2>2. next \in 1..Len(catalog) /\ next + 1 \in 1..Len(catalog) + 1
      BY <1>0, <1>1, <2>1
    <2> QED
      BY <1>0, <1>4, <2>2 DEF ToNext, Goto, ImportTypeOK
  <1>5. CASE End /\ ForgetImport
    BY <1>5 DEF End, ForgetImport, ImportTypeOK
  <1>6. CASE UNCHANGED importVars /\ (command = "import" => command' = "import")
    BY <1>0, <1>6 DEF importVars, ImportTypeOK
  <1> QED
    BY <1>2, <1>3, <1>4, <1>5, <1>6, ImportMoves

(* The steps that move a build. *)
LEMMA BuildMoves ==
    [Next]_vars =>
        \/ /\ command = "build" /\ command' = "build" /\ step' = "rows"
           /\ \/ step = "rows" /\ row <= Len(lines)
              \/ step \in {"asking", "saving"}
           /\ row' = row + 1 /\ lines' = lines
           /\ \/ SavePolicy
              \/ WriteFails
              \/ step # "saving" /\ UNCHANGED <<policies, begun, generated>>
           /\ translators' = translators
        \/ OpenPolicyFile
        \/ command' = "none" /\ ForgetBuild /\ UNCHANGED <<policies, translators>>
        \/ OpenTranslator \/ SaveTranslator
        \/ /\ UNCHANGED buildVars
           /\ command = "build" => /\ command' = "build" /\ lines' = lines
                                   /\ step' = "saving" <=> step = "saving"
           /\ command # "build" => command' # "build" \/ step' = "start"
  <1> DEFINE On == /\ command = "build" /\ command' = "build" /\ step' = "rows"
                   /\ \/ step = "rows" /\ row <= Len(lines)
                      \/ step \in {"asking", "saving"}
                   /\ row' = row + 1 /\ lines' = lines
                   /\ \/ SavePolicy
                      \/ WriteFails
                      \/ step # "saving" /\ UNCHANGED <<policies, begun, generated>>
                   /\ translators' = translators
             Over == command' = "none" /\ ForgetBuild /\ UNCHANGED <<policies, translators>>
             Rest == /\ UNCHANGED buildVars
                     /\ command = "build" => /\ command' = "build" /\ lines' = lines
                                             /\ step' = "saving" <=> step = "saving"
                     /\ command # "build" => command' # "build" \/ step' = "start"
  <1>1. BuildStep => On \/ OpenPolicyFile \/ Over \/ Rest
    <2>1. SkipRow \/ PolicyFails \/ SavePolicy \/ WriteFails => On
      BY DEF SkipRow, PolicyFails, SavePolicy, WriteFails, ToNextRow, At, Goto, fileVars
    <2>2. ReadHeader \/ AskForPolicy \/ BuildDone => Rest
      BY DEF ReadHeader, AskForPolicy, BuildDone, At, Goto, fileVars
    <2>3. BuildRefused \/ BuildExits => Over
      BY DEF BuildRefused, BuildExits, End
    <2> QED
      BY <2>1, <2>2, <2>3 DEF BuildStep
  <1>2. ImportStep => command = "import" /\ command' # "build"
    BY DEF ImportStep, LoadIdempotencyState, LoadCatalogEntries, BeginDownload,
           CatalogDownloaded, ImportRefused, CatalogRefused, SkipEntry, Triaging,
           AskForRequirement, RecordRequirement, TriageFails, ToNext,
           ImportDone, ImportExits, At, Goto, End
  <1>3. TranslateStep => OpenTranslator \/ SaveTranslator \/ Rest
    BY DEF TranslateStep, AskForTranslator, TranslateExits, At, Goto, End
  <1>4. StartCommand => Rest
    BY DEF StartCommand, StartImport, StartBuild, StartTranslate, Start
  <1>5. Edit => Rest
    BY DEF Edit, Decide, Repair, commandVars
  <1>6. ProcessEnds => Over
    BY DEF ProcessEnds, End
  <1>7. UNCHANGED <<fileVars, commandVars, buildVars>> => Rest
    BY DEF fileVars, commandVars
  <1>8. ImportStep /\ UNCHANGED buildVars => Rest
    BY <1>2
  <1> HIDE DEF On, Over, Rest
  <1>9. [Next]_vars => On \/ OpenPolicyFile \/ Over \/ OpenTranslator \/ SaveTranslator \/ Rest
    BY <1>1, <1>3, <1>4, <1>5, <1>6, <1>7, <1>8 DEF Next, CommandStep, Aborted, vars
  <1> QED
    BY <1>9 DEF On, Over, Rest

(* What is written to the file of a policy is in it, and in no other. *)
LEMMA Held ==
    ASSUME NEW p, Holds(p)
    PROVE  /\ DOMAIN policies' = DOMAIN policies \cup {PolicyFile}
           /\ policies'[PolicyFile] = p
           /\ \A g \in DOMAIN policies : g # PolicyFile => policies'[g] = policies[g]
  BY DEF Holds

(* The file of the row that is built is that of a control. *)
LEMMA PolicyFileTyped ==
    ASSUME Basis, command = "build", step \in {"asking", "saving"}
    PROVE  /\ row \in 1..Len(lines) /\ Len(lines) \in Nat
           /\ Approved(row)
           /\ lines[row] \in Row
           /\ PolicyFile \in {FileOf[c] : c \in Control}
  <1>1. row \in 1..Len(lines) + 1 /\ lines \in Seq(Line)
    BY DEF Basis, TypeOK, BuildTypeOK, RequirementsTypeOK
  <1>2. row <= Len(lines) /\ Approved(row)
    BY DEF Basis, AskedFor, At
  <1>3. Len(lines) \in Nat /\ DOMAIN lines = 1..Len(lines)
    BY <1>1
  <1>4. row \in 1..Len(lines) /\ row \in DOMAIN lines
    BY <1>1, <1>2, <1>3
  <1>5. lines[row] \in Row
    BY <1>1, <1>2, <1>4, LineTyped DEF Approved
  <1>6. lines[row].control \in Control
    BY <1>5 DEF Row
  <1> QED
    BY <1>2, <1>3, <1>4, <1>5, <1>6 DEF PolicyFile

(* The variables of a build keep their types, and are reset after it.      *)
LEMMA BuildTyped ==
    ASSUME Basis, [Next]_vars
    PROVE  /\ BuildTypeOK'
           /\ command' # "build" => row' = 1 /\ begun' = {} /\ generated' = {}
  <1>0. /\ DOMAIN policies \subseteq {FileOf[c] : c \in Control}
        /\ \A f \in DOMAIN policies : policies[f] \in Row \cup {Torn}
        /\ translators \in {"absent", "torn", "whole"}
        /\ row \in 1..Len(lines) + 1
        /\ begun \subseteq DOMAIN lines /\ generated \subseteq begun
        /\ command # "build" => row = 1 /\ begun = {} /\ generated = {}
        /\ lines \in Seq(Line) /\ lines' \in Seq(Line)
    BY FilesTyped DEF Basis, TypeOK, BuildTypeOK, RequirementsTypeOK, Session
  <1>1. Len(lines) \in Nat /\ Len(lines') \in Nat /\ DOMAIN lines = 1..Len(lines)
    BY <1>0
  <1>2. ASSUME command = "build", step \in {"asking", "saving"},
               NEW p \in Row \cup {Torn}, Holds(p)
        PROVE  /\ DOMAIN policies' \subseteq {FileOf[c] : c \in Control}
               /\ \A f \in DOMAIN policies' : policies'[f] \in Row \cup {Torn}
    BY <1>0, <1>2, Held, PolicyFileTyped
  <1>3. ASSUME command = "build", command' = "build",
               \/ step = "rows" /\ row <= Len(lines)
               \/ step \in {"asking", "saving"},
               row' = row + 1, lines' = lines,
               \/ SavePolicy
               \/ WriteFails
               \/ UNCHANGED <<policies, begun, generated>>,
               translators' = translators
        PROVE  BuildTypeOK'
    <2>1. row \in 1..Len(lines)
      BY <1>0, <1>1, <1>3, PolicyFileTyped
    <2>2. row' \in 1..Len(lines') + 1
      BY <1>1, <1>3, <2>1
    <2>3. CASE UNCHANGED <<policies, begun, generated>>
      BY <1>0, <1>3, <2>2, <2>3 DEF BuildTypeOK
    <2>4. CASE SavePolicy \/ WriteFails
      <3>1. /\ step = "saving" /\ begun' = begun
            /\ generated' \in {generated, generated \cup {row}}
            /\ Holds(lines[row]) \/ UNCHANGED policies
        BY <2>4 DEF SavePolicy, WriteFails, At
      <3>2. lines[row] \in Row
        BY <1>3, <3>1, PolicyFileTyped
      <3>3. row \in begun
        BY <1>3, <3>1 DEF Basis, AskedFor, At
      <3>4. /\ DOMAIN policies' \subseteq {FileOf[c] : c \in Control}
            /\ \A f \in DOMAIN policies' : policies'[f] \in Row \cup {Torn}
        BY <1>0, <1>2, <1>3, <3>1, <3>2
      <3> QED
        BY <1>0, <1>3, <2>2, <3>1, <3>3, <3>4 DEF BuildTypeOK
    <2> QED
      BY <1>3, <2>3, <2>4
  <1>4. ASSUME OpenPolicyFile PROVE BuildTypeOK' /\ command' = "build"
    <2>1. /\ command = "build" /\ step = "asking" /\ command' = "build"
          /\ Holds(Torn) /\ begun' = begun \cup {row}
          /\ UNCHANGED <<lines, translators, row, generated>>
      BY <1>4 DEF OpenPolicyFile, At, Goto, fileVars
    <2>2. row \in DOMAIN lines
      BY <1>1, <2>1, PolicyFileTyped
    <2>3. /\ DOMAIN policies' \subseteq {FileOf[c] : c \in Control}
          /\ \A f \in DOMAIN policies' : policies'[f] \in Row \cup {Torn}
      BY <1>2, <2>1
    <2> QED
      BY <1>0, <2>1, <2>2, <2>3 DEF BuildTypeOK
  <1>5. CASE command' = "none" /\ ForgetBuild /\ UNCHANGED <<policies, translators>>
    <2>1. row' = 1 /\ begun' = {} /\ generated' = {} /\ 1 \in 1..Len(lines') + 1
      BY <1>1, <1>5 DEF ForgetBuild
    <2> QED
      BY <1>0, <1>5, <2>1 DEF BuildTypeOK
  <1>6. CASE OpenTranslator \/ SaveTranslator
    <2>1. /\ command = "translate" /\ command' = "translate"
          /\ translators' \in {"torn", "whole"}
          /\ UNCHANGED <<policies, row, begun, generated>> /\ lines' = lines
      BY <1>6 DEF OpenTranslator, SaveTranslator, At, Goto, fileVars
    <2> QED
      BY <1>0, <2>1 DEF BuildTypeOK
  <1>7. CASE /\ UNCHANGED buildVars
             /\ command = "build" => command' = "build" /\ lines' = lines
    <2>1. UNCHANGED <<policies, translators, row, begun, generated>>
      BY <1>7 DEF buildVars
    <2>2. row' \in 1..Len(lines') + 1 /\ begun' \subseteq DOMAIN lines'
      <3>1. CASE command = "build"
        BY <1>0, <1>7, <2>1, <3>1
      <3>2. CASE command # "build"
        <4>1. 1 \in 1..Len(lines') + 1
          BY <1>1
        <4> QED
          BY <1>0, <2>1, <3>2, <4>1
      <3> QED
        BY <3>1, <3>2
    <2> QED
      BY <1>0, <1>7, <2>1, <2>2 DEF BuildTypeOK
  <1> QED
    BY <1>3, <1>4, <1>5, <1>6, <1>7, BuildMoves

(* Behind its start an import only writes rows.  Its catalog, its provider *)
(* and what it found in the file at its start stay.                        *)
LEMMA ImportGoesOn ==
    ASSUME Session, [Next]_vars, command' = "import", step' # "start",
           ~LoadIdempotencyState
    PROVE  /\ command = "import" /\ step # "start"
           /\ UNCHANGED <<header, provider, catalog, processed, runs>>
           /\ step' = "done" => step = "done" \/ ImportDone
           /\ \/ \E x \in Extractions : RecordRequirement(x)
              \/ UNCHANGED <<lines, cut>> /\ (SkipEntry \/ TriageFails)
              \/ UNCHANGED <<lines, cut, next, missed>>
  <1>1. ~StartCommand /\ ~ProcessEnds
    BY DEF StartCommand, StartImport, StartBuild, StartTranslate, Start, ProcessEnds, End
  <1>2. ~Edit
    BY DEF Edit, Decide, Repair, commandVars, Session
  <1>3. ~BuildStep /\ ~TranslateStep
    BY DEF BuildStep, ReadHeader, BuildRefused, SkipRow, AskForPolicy, PolicyFails,
           OpenPolicyFile, SavePolicy, WriteFails, ToNextRow, BuildDone, BuildExits,
           TranslateStep, AskForTranslator,
           OpenTranslator, SaveTranslator, TranslateExits, At, Goto, End
  <1>4. ~ImportRefused /\ ~CatalogRefused /\ ~ImportExits
    BY DEF ImportRefused, CatalogRefused, ImportExits, End
  <1>5. CASE CallStep /\ UNCHANGED <<fileVars, commandVars, importVars, buildVars>>
    BY <1>5 DEF fileVars, commandVars, importVars
  <1>6. CASE UNCHANGED vars
    BY <1>6 DEF vars, fileVars, commandVars, importVars
  <1>7. CASE ImportStep
    <2>1. ASSUME NEW x \in Extractions, RecordRequirement(x)
          PROVE  /\ command = "import" /\ step # "start"
                 /\ UNCHANGED <<header, provider, catalog, processed, runs>>
                 /\ step' = "done" => step = "done" \/ ImportDone
      BY <2>1 DEF RecordRequirement, WriteRow, ToNext, At, Goto
    <2>2. CASE SkipEntry \/ TriageFails
      BY <2>2 DEF SkipEntry, TriageFails, Triaging, ToNext, At, Goto, fileVars
    <2>3. CASE \/ LoadCatalogEntries \/ BeginDownload \/ CatalogDownloaded
               \/ AskForRequirement \/ ImportDone
      BY <2>3 DEF LoadCatalogEntries, BeginDownload, CatalogDownloaded,
                  AskForRequirement, Triaging, ImportDone, At, Goto,
                  fileVars, triageVars, importVars
    <2> QED
      BY <1>4, <1>7, <2>1, <2>2, <2>3 DEF ImportStep
  <1> QED
    BY <1>1, <1>2, <1>3, <1>5, <1>6, <1>7 DEF Next, CommandStep, Aborted

(* The steps with which a command asks, or waits for the answer. *)
LEMMA AskingMoves ==
    ASSUME Session, [Next]_vars, step' = "asking"
    PROVE  \/ AskForRequirement \/ AskForPolicy \/ AskForTranslator
           \/ step = "asking" /\ UNCHANGED <<fileVars, commandVars, importVars, buildVars>>
  <1>1. ~StartCommand /\ ~ProcessEnds
    BY DEF StartCommand, StartImport, StartBuild, StartTranslate, Start, ProcessEnds, End
  <1>2. ~Edit
    BY DEF Edit, Decide, Repair, commandVars, Session
  <1>3. BuildStep => AskForPolicy
    BY DEF BuildStep, ReadHeader, BuildRefused, SkipRow, PolicyFails,
           OpenPolicyFile, SavePolicy, WriteFails, ToNextRow, BuildDone, BuildExits,
           Goto, End
  <1>4. TranslateStep => AskForTranslator
    BY DEF TranslateStep, OpenTranslator, SaveTranslator, TranslateExits, Goto, End
  <1>5. ImportStep => AskForRequirement
    BY DEF ImportStep, LoadIdempotencyState, LoadCatalogEntries, BeginDownload,
           CatalogDownloaded, ImportRefused,
           CatalogRefused, SkipEntry, RecordRequirement, TriageFails, ToNext,
           ImportDone, ImportExits, Goto, End
  <1>6. CASE UNCHANGED <<fileVars, commandVars, importVars, buildVars>>
    BY <1>6 DEF commandVars
  <1> QED
    BY <1>1, <1>2, <1>3, <1>4, <1>5, <1>6 DEF Next, CommandStep, Aborted, vars

(* The steps with which a command opens a file, or has opened it. *)
LEMMA SavingMoves ==
    ASSUME Session, [Next]_vars, step' = "saving"
    PROVE  \/ OpenPolicyFile \/ OpenTranslator
           \/ step = "saving" /\ UNCHANGED <<fileVars, commandVars, importVars, buildVars>>
  <1>1. ~StartCommand /\ ~ProcessEnds
    BY DEF StartCommand, StartImport, StartBuild, StartTranslate, Start, ProcessEnds, End
  <1>2. ~Edit
    BY DEF Edit, Decide, Repair, commandVars, Session
  <1>3. BuildStep => OpenPolicyFile
    BY DEF BuildStep, ReadHeader, BuildRefused, SkipRow, AskForPolicy, PolicyFails,
           SavePolicy, WriteFails, ToNextRow, BuildDone, BuildExits, Goto, End
  <1>4. TranslateStep => OpenTranslator
    BY DEF TranslateStep, AskForTranslator, SaveTranslator, TranslateExits, Goto, End
  <1>5. ~ImportStep
    BY DEF ImportStep, LoadIdempotencyState, LoadCatalogEntries, BeginDownload,
           CatalogDownloaded, ImportRefused, CatalogRefused, SkipEntry,
           AskForRequirement, RecordRequirement, TriageFails, ToNext,
           ImportDone, ImportExits, Goto, End
  <1>6. CASE UNCHANGED <<fileVars, commandVars, importVars, buildVars>>
    BY <1>6 DEF commandVars
  <1> QED
    BY <1>1, <1>2, <1>3, <1>4, <1>5, <1>6 DEF Next, CommandStep, Aborted, vars

(* A call is made exactly while its command waits for it. *)
LEMMA CallInStep ==
    ASSUME Basis, [Next]_vars
    PROVE  call' # "idle" <=> step' = "asking"
  <1>0. call # "idle" <=> step = "asking"
    BY DEF Basis, TypeOK
  <1>1. CASE step' = "asking"
    <2>1. BeginCall => call' # "idle"
      BY DEF BeginCall, TryTierBelow
    <2>2. CASE AskForRequirement \/ AskForPolicy \/ AskForTranslator
      BY <1>1, <2>1, <2>2 DEF AskForRequirement, AskForPolicy, AskForTranslator
    <2>3. CASE step = "asking" /\ UNCHANGED <<fileVars, commandVars, importVars, buildVars>>
      <3>1. CallStep => call' # "idle"
        BY DEF CallStep, Succeed, ThrottleOver, SetupError, Transient, PauseOver,
               OtherFailure, TryTierBelow
      <3>2. ~CallStep => call' = call
        <4>1. UNCHANGED <<command, step, runs, lines, header, cut>>
          BY <2>3 DEF commandVars, fileVars
        <4>2. ~StartCommand /\ ~ProcessEnds /\ ~Edit
          BY <2>3, <4>1 DEF StartCommand, StartImport, StartBuild, StartTranslate, Start,
             ProcessEnds, End, Edit, Decide, Repair, Basis, Session
        <4>3. ~ImportStep
          BY <2>3, <4>1 DEF ImportStep, LoadIdempotencyState, LoadCatalogEntries,
                            BeginDownload, CatalogDownloaded,
             ImportRefused, CatalogRefused, SkipEntry, Triaging, AskForRequirement,
             RecordRequirement, TriageFails, ToNext, ImportDone, ImportExits, At, Goto, End
        <4>4. ~BuildStep
          BY <2>3, <4>1 DEF BuildStep, ReadHeader, BuildRefused, SkipRow, AskForPolicy,
             PolicyFails, OpenPolicyFile, SavePolicy, WriteFails, ToNextRow, BuildDone,
             BuildExits, At, Goto, End
        <4>5. ~TranslateStep
          BY <2>3, <4>1 DEF TranslateStep, AskForTranslator, OpenTranslator, SaveTranslator,
             TranslateExits, At, Goto, End
        <4> QED
          BY <4>2, <4>3, <4>4, <4>5 DEF Next, CommandStep, Aborted, vars, callVars
      <3> QED
        BY <1>0, <1>1, <2>3, <3>1, <3>2
    <2> QED
      BY <1>1, <2>2, <2>3, AskingMoves DEF Basis
  <1>2. CASE step' # "asking"
    <2>1. EndCall => call' = "idle"
      BY DEF EndCall
    <2>2. CASE CallStep /\ UNCHANGED <<fileVars, commandVars, importVars, buildVars>>
      <3>1. call # "idle"
        BY <2>2 DEF CallStep, Succeed, ThrottleOver, SetupError, Transient, PauseOver,
                    OtherFailure, CallAIEndpoint
      <3> QED
        BY <1>0, <1>2, <2>2, <3>1 DEF commandVars
    <2>3. CASE StartCommand \/ Edit
      BY <1>0, <2>3 DEF StartCommand, StartImport, StartBuild, StartTranslate, Start,
                        Edit, Decide, Repair, Basis, Session, callVars, commandVars
    <2>4. CASE ImportStep
      BY <1>0, <1>2, <2>1, <2>4
      DEF ImportStep, LoadIdempotencyState, LoadCatalogEntries, BeginDownload,
          CatalogDownloaded, ImportRefused,
          CatalogRefused, SkipEntry, Triaging, AskForRequirement, RecordRequirement,
          TriageFails, ImportDone, ImportExits, At, Goto, callVars
    <2>5. CASE BuildStep
      BY <1>0, <1>2, <2>1, <2>5
      DEF BuildStep, ReadHeader, BuildRefused, SkipRow, AskForPolicy, PolicyFails,
          OpenPolicyFile, SavePolicy, WriteFails, BuildDone, BuildExits, At, Goto, callVars
    <2>6. CASE TranslateStep
      BY <1>0, <1>2, <2>1, <2>6
      DEF TranslateStep, AskForTranslator, OpenTranslator, SaveTranslator,
          TranslateExits, At, Goto, callVars
    <2>7. CASE ProcessEnds
      BY <1>2, <2>1, <2>7 DEF ProcessEnds
    <2>8. CASE UNCHANGED vars
      BY <1>0, <1>2, <2>8 DEF vars, callVars, commandVars
    <2> QED
      BY <1>2, <2>2, <2>3, <2>4, <2>5, <2>6, <2>7, <2>8 DEF Next, CommandStep, Aborted
  <1> QED
    BY <1>1, <1>2

(* What a command asks for is still to be asked for, until it is recorded. *)
LEMMA AskedKept ==
    ASSUME Basis, [Next]_vars
    PROVE  FileThere' /\ AskedFor'
  <1>0. Session
    BY DEF Basis
  <1>1. FileThere'
    <2> SUFFICES ASSUME command' = "import", step' # "start" PROVE header' # "absent"
      BY DEF FileThere
    <2>1. CASE LoadIdempotencyState
      BY <2>1 DEF LoadIdempotencyState
    <2>2. CASE ~LoadIdempotencyState
      BY <1>0, <2>2, ImportGoesOn DEF Basis, FileThere
    <2> QED
      BY <2>1, <2>2
  <1>2. ASSUME command' = "import", step' = "asking"
        PROVE  next' <= Len(catalog') /\ ~Skippable'
    <2>1. CASE AskForRequirement
      <3>1. UNCHANGED <<next, catalog, provider, processed>>
        BY <2>1 DEF AskForRequirement, importVars
      <3> QED
        BY <2>1, <3>1 DEF AskForRequirement, Triaging, Skippable, Entry
    <2>2. ~AskForPolicy /\ ~AskForTranslator
      BY <1>2 DEF AskForPolicy, AskForTranslator, At, Goto
    <2>3. CASE step = "asking" /\ UNCHANGED <<fileVars, commandVars, importVars, buildVars>>
      <3>1. UNCHANGED <<next, catalog, provider, processed, command, step>>
        BY <2>3 DEF importVars, commandVars
      <3> QED
        BY <1>2, <2>3, <3>1 DEF Basis, AskedFor, At, Skippable, Entry
    <2> QED
      BY <1>0, <1>2, <2>1, <2>2, <2>3, AskingMoves
  <1>3. ASSUME command' = "import", step' = "done" PROVE next' > Len(catalog')
    <2>1. ~LoadIdempotencyState
      BY <1>3 DEF LoadIdempotencyState, Goto
    <2>2. /\ command = "import" /\ UNCHANGED catalog
          /\ step = "done" \/ ImportDone
          /\ \/ \E x \in Extractions : RecordRequirement(x)
             \/ UNCHANGED <<lines, cut>> /\ (SkipEntry \/ TriageFails)
             \/ UNCHANGED <<lines, cut, next, missed>>
      BY <1>0, <1>3, <2>1, ImportGoesOn
    <2>3. (\A x \in Extractions : ~RecordRequirement(x)) /\ ~SkipEntry /\ ~TriageFails
      BY <1>3 DEF RecordRequirement, SkipEntry, TriageFails, ToNext, Goto
    <2>4. UNCHANGED next
      BY <2>2, <2>3
    <2> QED
      BY <2>2, <2>4 DEF ImportDone, Basis, AskedFor, At
  <1>4. ASSUME command' = "build", step' = "asking"
        PROVE  row' <= Len(lines') /\ Approved(row)'
    <2>1. CASE AskForPolicy
      <3>1. UNCHANGED <<lines, row>>
        BY <2>1 DEF AskForPolicy, fileVars, buildVars
      <3> QED
        BY <2>1, <3>1 DEF AskForPolicy, Approved, IsRow
    <2>2. ~AskForRequirement /\ ~AskForTranslator
      BY <1>4 DEF AskForRequirement, AskForTranslator, Triaging, At, Goto
    <2>3. CASE step = "asking" /\ UNCHANGED <<fileVars, commandVars, importVars, buildVars>>
      <3>1. UNCHANGED <<lines, row, command, step>>
        BY <2>3 DEF fileVars, buildVars, commandVars
      <3> QED
        BY <1>4, <2>3, <3>1 DEF Basis, AskedFor, At, Approved, IsRow
    <2> QED
      BY <1>0, <1>4, <2>1, <2>2, <2>3, AskingMoves
  <1>5. ASSUME command' = "build", step' = "saving"
        PROVE  row' <= Len(lines') /\ Approved(row)' /\ row' \in begun'
    <2>1. CASE OpenPolicyFile
      <3>1. /\ UNCHANGED <<lines, row>> /\ At("build", "asking")
            /\ begun' = begun \cup {row}
        BY <2>1 DEF OpenPolicyFile, fileVars
      <3> QED
        BY <3>1 DEF Basis, AskedFor, Approved, IsRow
    <2>2. ~OpenTranslator
      BY <1>5 DEF OpenTranslator, At, Goto
    <2>3. CASE step = "saving" /\ UNCHANGED <<fileVars, commandVars, importVars, buildVars>>
      <3>1. UNCHANGED <<lines, row, begun, command, step>>
        BY <2>3 DEF fileVars, buildVars, commandVars
      <3> QED
        BY <1>5, <2>3, <3>1 DEF Basis, AskedFor, At, Approved, IsRow
    <2> QED
      BY <1>0, <1>5, <2>1, <2>2, <2>3, SavingMoves
  <1> QED
    BY <1>1, <1>2, <1>3, <1>4, <1>5 DEF AskedFor, At

(* All of this is kept by every step. *)
LEMMA BasisKept == Basis /\ [Next]_vars => Basis'
  <1> SUFFICES ASSUME Basis, [Next]_vars PROVE Basis'
    OBVIOUS
  <1>1. CallInv'
    <2>1. CallInv
      BY DEF Basis, TypeOK, CallInv
    <2> QED
      BY <2>1, CallMoves, CallBegins, CallStepKeeps, CallEnds, CallUntouched
  <1>2. RequirementsTypeOK'
    BY FilesTyped, CommandsTyped DEF Basis, RequirementsTypeOK, Steps
  <1>3. Session'
    BY FilesTyped, CommandsTyped, ImportTyped, BuildTyped DEF Basis, Session
  <1>4. TypeOK'
    BY <1>1, <1>2, ImportTyped, BuildTyped, CallInStep DEF TypeOK, CallInv
  <1> QED
    BY <1>1, <1>3, <1>4, FilesTyped, AskedKept DEF Basis, CallInv

(* It holds of a governor without a file, and without a command. *)
LEMMA BasisInitially == Init => Basis
  <1> SUFFICES ASSUME Init PROVE Basis
    OBVIOUS
  <1>1. /\ header = "absent" /\ lines = <<>> /\ cut = FALSE
        /\ command = "none" /\ step = "start" /\ runs = 0
    BY DEF Init, RequirementsInit
  <1>2. call = "idle" /\ tier = 1 /\ attempt = 1 /\ requests = <<>>
    BY DEF Init, CallInit
  <1>3. /\ provider = NoProvider /\ catalog = <<>> /\ next = 1
        /\ processed = {} /\ missed = {}
    BY DEF Init, ImportInit
  <1>4. /\ policies = [f \in {} |-> Garbled] /\ translators = "absent" /\ row = 1
        /\ begun = {} /\ generated = {}
    BY DEF Init, BuildInit
  <1>5. RequirementsTypeOK
    <2>1. 0 \in 0..MaxRuns
      BY MaxRunsAssumption
    <2>2. lines \in Seq(Line)
      BY <1>1
    <2> QED
      BY <1>1, <2>1, <2>2 DEF RequirementsTypeOK
  <1>6. CallInv
    BY <1>2, FailoverAssumption
    DEF CallInv, CallTypeOK, CallState, CallHistory, Asking, Attempts
  <1>7. ImportTypeOK
    BY <1>3 DEF ImportTypeOK
  <1>8. BuildTypeOK
    <2>1. DOMAIN policies = {}
      BY <1>4
    <2>2. row \in 1..Len(lines) + 1
      BY <1>1, <1>4
    <2> QED
      BY <1>4, <2>1, <2>2 DEF BuildTypeOK
  <1>9. TypeOK
    BY <1>1, <1>2, <1>5, <1>6, <1>7, <1>8 DEF TypeOK, CallInv
  <1>10. Session /\ FileThere /\ AskedFor /\ RowsDated
    BY <1>1, <1>3, <1>4 DEF Session, FileThere, AskedFor, RowsDated, At
  <1> QED
    BY <1>6, <1>9, <1>10 DEF Basis, CallInv

(* Basis is an invariant of the governor. *)
LEMMA BasisAlways == Spec => []Basis
  BY BasisInitially, BasisKept, PTL DEF Spec

(* Every variable of the governor keeps its type, whatever the endpoints   *)
(* and the AI answer and whenever a command is killed.                     *)
THEOREM GovernorTypeCorrect == Spec => []TypeOK
  <1>1. Basis => TypeOK
    BY DEF Basis
  <1> QED
    BY <1>1, BasisAlways, PTL

(* Tiers are asked in their order, each at most MaxRetries times, and      *)
(* again only after a transient failure.                                   *)
THEOREM CallFollowsPolicyAlways == Spec => []CallFollowsPolicy
  <1>1. Basis => CallFollowsPolicy
    <2>1. Basis => CallInv
      BY DEF Basis, TypeOK, CallInv
    <2> QED
      BY <2>1, PolicyFollowed
  <1> QED
    BY <1>1, BasisAlways, PTL

-----------------------------------------------------------------------------
(* What TriagedOnce rests on: an import knows every row that is not its    *)
(* own by the time it asks for anything.                                   *)
RowsKnown ==
    command = "import" /\ step # "start" /\ header = "present" =>
        \A i \in DOMAIN lines :
            IsRow(i) => \/ lines[i].run = runs
                        \/ <<lines[i].control, lines[i].provider>> \in processed

(* A step that writes a row finds the others known. *)
LEMMA TriagedOnceKept ==
    ASSUME Basis, TriagedOnce, RowsKnown, [Next]_vars
    PROVE  TriagedOnce'
  <1>0. /\ lines \in Seq(Line) /\ cut \in BOOLEAN /\ (cut => lines # <<>>)
        /\ (header = "absent" => lines = <<>>)
    BY DEF Basis, TypeOK, RequirementsTypeOK, Session
  <1>1. CASE UNCHANGED fileVars
    <2>1. header' = header /\ lines' = lines
      BY <1>1 DEF fileVars
    <2> QED
      BY <2>1 DEF TriagedOnce
  <1>2. CASE Reset
    BY <1>2 DEF Reset, TriagedOnce
  <1>3. CASE LoadIdempotencyState
    <2>1. /\ UNCHANGED lines
          /\ header' = header \/ (header = "absent" /\ lines = <<>>)
      BY <1>0, <1>3 DEF LoadIdempotencyState
    <2>2. CASE header' = header
      BY <2>1, <2>2 DEF TriagedOnce
    <2>3. CASE lines = <<>>
      BY <2>1, <2>3 DEF TriagedOnce
    <2> QED
      BY <2>1, <2>2, <2>3
  <1>4. ASSUME NEW x \in Extractions, RecordRequirement(x) PROVE TriagedOnce'
    <2>1. At("import", "asking") /\ WriteRow(RowFor(x))
      BY <1>4 DEF RecordRequirement
    <2>2. PICK r \in Row : r = RowFor(x)
      BY <2>1, RowTyped DEF Basis
    <2>3. r.control = Entry /\ r.run = runs /\ r.asked = provider
      BY <2>1, <2>2, RowTyped DEF Basis
    <2>4. /\ header' = header
          /\ \A i \in DOMAIN lines' : \/ lines'[i] \in {r, Garbled}
                                      \/ i \in DOMAIN lines /\ lines'[i] = lines[i]
      BY <1>0, <2>1, <2>2, RowWritten
    <2>5. <<Entry, provider>> \notin processed
      BY <2>1 DEF Basis, AskedFor, Skippable
    <2> SUFFICES ASSUME header = "present",
                        NEW i \in DOMAIN lines', NEW j \in DOMAIN lines',
                        Automated(lines'[i]), Automated(lines'[j]),
                        lines'[i].control = lines'[j].control,
                        lines'[i].provider = lines'[j].provider
                 PROVE  lines'[i].run = lines'[j].run
      BY <2>4 DEF TriagedOnce, Automated
    <2>6. ASSUME NEW k \in DOMAIN lines, Automated(lines[k]), Automated(r),
                 lines[k].control = r.control, lines[k].provider = r.provider
          PROVE  lines[k].run = runs
      BY <2>1, <2>3, <2>5, <2>6 DEF RowsKnown, At, Automated, IsRow
    <2>7. \A k \in DOMAIN lines' : Automated(lines'[k]) =>
            \/ lines'[k] = r
            \/ k \in DOMAIN lines /\ lines'[k] = lines[k]
      BY <2>4 DEF Automated
    <2>8. CASE lines'[i] = r /\ lines'[j] = r
      BY <2>8
    <2>9. CASE lines'[i] = r /\ j \in DOMAIN lines /\ lines'[j] = lines[j]
      BY <2>3, <2>6, <2>9
    <2>10. CASE lines'[j] = r /\ i \in DOMAIN lines /\ lines'[i] = lines[i]
      BY <2>3, <2>6, <2>10
    <2>11. CASE /\ i \in DOMAIN lines /\ lines'[i] = lines[i]
                /\ j \in DOMAIN lines /\ lines'[j] = lines[j]
      BY <2>11 DEF TriagedOnce
    <2> QED
      BY <2>7, <2>8, <2>9, <2>10, <2>11
  <1>5. ASSUME NEW k \in DOMAIN lines, Decide(k) \/ Repair(k) PROVE TriagedOnce'
    <2>1. /\ header' = header
          /\ \A i \in DOMAIN lines' : IsRow(i)' =>
               \E m \in DOMAIN lines : IsRow(m) /\ SameRow(lines'[i], lines[m])
      BY <1>0, <1>5, Edited
    <2> SUFFICES ASSUME header = "present",
                        NEW i \in DOMAIN lines', NEW j \in DOMAIN lines',
                        Automated(lines'[i]), Automated(lines'[j]),
                        lines'[i].control = lines'[j].control,
                        lines'[i].provider = lines'[j].provider
                 PROVE  lines'[i].run = lines'[j].run
      BY <2>1 DEF TriagedOnce, Automated
    <2>2. PICK m \in DOMAIN lines : IsRow(m) /\ SameRow(lines'[i], lines[m])
      BY <2>1 DEF Automated, IsRow
    <2>3. PICK n \in DOMAIN lines : IsRow(n) /\ SameRow(lines'[j], lines[n])
      BY <2>1 DEF Automated, IsRow
    <2> QED
      BY <2>2, <2>3 DEF TriagedOnce, Automated, IsRow, SameRow
  <1> QED
    BY <1>1, <1>2, <1>3, <1>4, <1>5, FileMoves

(* Loading the state makes every row known, and a row that is written is   *)
(* the import's own.                                                       *)
LEMMA RowsKnownKept ==
    ASSUME Basis, RowsKnown, [Next]_vars
    PROVE  RowsKnown'
  <1>0. /\ lines \in Seq(Line) /\ cut \in BOOLEAN /\ (cut => lines # <<>>)
        /\ (header = "absent" => lines = <<>>)
    BY DEF Basis, TypeOK, RequirementsTypeOK, Session
  <1> SUFFICES ASSUME command' = "import", step' # "start", header' = "present",
                      NEW i \in DOMAIN lines', IsRow(i)'
               PROVE  \/ lines'[i].run = runs'
                      \/ <<lines'[i].control, lines'[i].provider>> \in processed'
    BY DEF RowsKnown
  <1>1. CASE LoadIdempotencyState
    <2>1. UNCHANGED lines
      BY <1>1 DEF LoadIdempotencyState
    <2>2. header = "present" /\ processed' = Recorded
      BY <1>0, <1>1, <2>1 DEF LoadIdempotencyState
    <2> QED
      BY <2>1, <2>2 DEF Recorded
  <1>2. CASE ~LoadIdempotencyState
    <2>1. /\ command = "import" /\ step # "start"
          /\ UNCHANGED <<header, processed, runs>>
          /\ (\E x \in Extractions : RecordRequirement(x)) \/ UNCHANGED lines
      BY <1>2, ImportGoesOn DEF Basis
    <2>2. CASE UNCHANGED lines
      BY <2>1, <2>2 DEF RowsKnown, IsRow
    <2>3. ASSUME NEW x \in Extractions, RecordRequirement(x)
          PROVE  \/ lines'[i].run = runs'
                 \/ <<lines'[i].control, lines'[i].provider>> \in processed'
      <3>1. At("import", "asking") /\ WriteRow(RowFor(x))
        BY <2>3 DEF RecordRequirement
      <3>2. PICK r \in Row : r = RowFor(x) /\ r.run = runs
        BY <3>1, RowTyped DEF Basis
      <3>3. lines'[i] = r \/ (i \in DOMAIN lines /\ lines'[i] = lines[i])
        BY <1>0, <3>1, <3>2, RowWritten DEF IsRow
      <3> QED
        BY <2>1, <3>2, <3>3 DEF RowsKnown, IsRow
    <2> QED
      BY <2>1, <2>2, <2>3
  <1> QED
    BY <1>1, <1>2

(* No control is asked for twice, however many imports there are and       *)
(* wherever they are killed, as long as the file has its header.           *)
THEOREM TriagedOnceAlways == Spec => []TriagedOnce
  <1> DEFINE Inv == Basis /\ TriagedOnce /\ RowsKnown
  <1>1. Init => Inv
    <2>1. Init => TriagedOnce /\ RowsKnown
      BY DEF Init, RequirementsInit, TriagedOnce, RowsKnown
    <2> QED
      BY <2>1, BasisInitially
  <1>2. Inv /\ [Next]_vars => Inv'
    BY BasisKept, TriagedOnceKept, RowsKnownKept
  <1>3. Inv => TriagedOnce
    OBVIOUS
  <1> QED
    BY <1>1, <1>2, <1>3, PTL DEF Spec

-----------------------------------------------------------------------------
(* What CompletedImportCovers rests on: in a file that can be read, what   *)
(* an import takes for processed is there, and so is a row for each entry  *)
(* it is past, but those it has missed.                                    *)
RowIn(ls, c, p) ==
    \E i \in DOMAIN ls : ls[i].control = c /\ p \in {ls[i].provider, ls[i].asked}

EntriesCovered ==
    command = "import" /\ step # "start" /\ Readable =>
        /\ \A k \in processed : RowIn(lines, k[1], k[2])
        /\ provider # NoProvider =>
             \A n \in 1..next - 1 : n \in missed \/ RowIn(lines, catalog[n], provider)

ImportAtStart == At("import", "start") => next = 1

(* An import starts with the first entry of its catalog. *)
LEMMA ImportAtStartKept ==
    ASSUME Session, ImportAtStart, [Next]_vars
    PROVE  ImportAtStart'
  <1> SUFFICES ASSUME command' = "import", step' = "start" PROVE next' = 1
    BY DEF ImportAtStart, At
  <1>1. \A s \in Steps : ~Goto(s)
    BY DEF Steps, Goto
  <1>2. ~End
    BY DEF End
  <1>3. (\E c \in {"import", "build", "translate"} : Start(c)) \/ UNCHANGED commandVars
    BY <1>1, <1>2, CommandMoves
  <1>4. command = "none" \/ At("import", "start")
    BY <1>3 DEF Start, commandVars, At
  <1>5. next = 1
    BY <1>4 DEF Session, ImportAtStart
  <1>6. ASSUME NEW p, NEW c, NEW reset, StartImport(p, c, reset) PROVE next' = next
    BY <1>6 DEF StartImport
  <1>7. ~LoadIdempotencyState
    BY DEF LoadIdempotencyState, Goto
  <1>8. \A hasRow \in BOOLEAN : ~ToNext("rows", hasRow)
    BY DEF ToNext, Goto
  <1>9. UNCHANGED importVars => next' = next
    BY DEF importVars
  <1> QED
    BY <1>2, <1>5, <1>6, <1>7, <1>8, <1>9, ImportMoves

(* An entry is passed with a row, or among the missed. *)
LEMMA EntriesCoveredKept ==
    ASSUME Basis, ImportAtStart, EntriesCovered, [Next]_vars
    PROVE  EntriesCovered'
  <1>0. /\ lines \in Seq(Line) /\ cut \in BOOLEAN /\ (cut => lines # <<>>)
        /\ catalog \in Seq(Control) /\ next \in 1..Len(catalog) + 1
    <2>1. /\ lines \in Seq(Line) /\ cut \in BOOLEAN /\ (cut => lines # <<>>)
          /\ catalog \in Catalogs \cup {<<>>} /\ next \in 1..Len(catalog) + 1
      BY DEF Basis, TypeOK, RequirementsTypeOK, ImportTypeOK
    <2>2. <<>> \in Seq(Control) /\ \A c \in Catalogs : c \in Seq(Control)
      BY ImportAssumption
    <2> QED
      BY <2>1, <2>2
  <1> SUFFICES ASSUME command' = "import", step' # "start", Readable'
               PROVE  /\ \A k \in processed' : RowIn(lines', k[1], k[2])
                      /\ provider' # NoProvider =>
                           \A n \in 1..next' - 1 :
                             n \in missed' \/ RowIn(lines', catalog'[n], provider')
    BY DEF EntriesCovered
  <1>1. CASE LoadIdempotencyState
    <2>1. /\ UNCHANGED <<lines, next>> /\ next = 1
          /\ processed' = {} \/ processed' = Recorded
      BY <1>1 DEF LoadIdempotencyState, triageVars, ImportAtStart
    <2>2. \A k \in processed' : RowIn(lines', k[1], k[2])
      BY <2>1 DEF Recorded, RowIn
    <2> QED
      BY <2>1, <2>2
  <1>2. CASE ~LoadIdempotencyState
    <2>1. /\ command = "import" /\ step # "start"
          /\ UNCHANGED <<provider, catalog, processed>>
          /\ \/ \E x \in Extractions : RecordRequirement(x)
             \/ UNCHANGED <<lines, cut>> /\ (SkipEntry \/ TriageFails)
             \/ UNCHANGED <<lines, cut, next, missed>>
      BY <1>2, ImportGoesOn DEF Basis
    <2>2. CASE UNCHANGED <<lines, cut, next, missed>>
      <3>1. Readable
        BY <2>2 DEF Readable, IsRow
      <3>2. \A c, p : RowIn(lines', c, p) <=> RowIn(lines, c, p)
        BY <2>2 DEF RowIn
      <3> QED
        BY <2>1, <2>2, <3>1, <3>2 DEF EntriesCovered
    <2>3. CASE UNCHANGED <<lines, cut>> /\ (SkipEntry \/ TriageFails)
      <3>1. Readable
        BY <2>3 DEF Readable, IsRow
      <3>2. \A c, p : RowIn(lines', c, p) <=> RowIn(lines, c, p)
        BY <2>3 DEF RowIn
      <3>3. \A n \in 1..next' - 1 : n = next \/ n \in 1..next - 1
        BY <1>0, <2>3 DEF SkipEntry, TriageFails, ToNext
      <3>4. CASE SkipEntry
        <4>1. missed' = missed /\ Skippable
          BY <3>4 DEF SkipEntry, ToNext
        <4>2. provider # NoProvider => RowIn(lines, catalog[next], provider)
          <5>1. provider # NoProvider => <<Entry, provider>> \in processed
            BY <4>1 DEF Skippable
          <5> QED
            BY <2>1, <3>1, <5>1 DEF EntriesCovered, Entry
        <4> QED
          BY <2>1, <3>1, <3>2, <3>3, <4>1, <4>2 DEF EntriesCovered
      <3>5. CASE TriageFails
        <4>1. missed' = missed \cup {next}
          BY <3>5 DEF TriageFails, ToNext
        <4> QED
          BY <2>1, <3>1, <3>2, <3>3, <4>1 DEF EntriesCovered
      <3> QED
        BY <2>3, <3>4, <3>5
    <2>4. ASSUME NEW x \in Extractions, RecordRequirement(x)
          PROVE  /\ \A k \in processed' : RowIn(lines', k[1], k[2])
                 /\ provider' # NoProvider =>
                      \A n \in 1..next' - 1 :
                        n \in missed' \/ RowIn(lines', catalog'[n], provider')
      <3>1. /\ At("import", "asking") /\ WriteRow(RowFor(x)) /\ next' = next + 1
            /\ missed' = IF lines' # lines /\ ~cut' THEN missed ELSE missed \cup {next}
        BY <2>4 DEF RecordRequirement, ToNext
      <3>2. PICK r \in Row : r = RowFor(x) /\ r.control = Entry /\ r.asked = provider
        BY <3>1, RowTyped DEF Basis
      <3>3. /\ lines' = lines \/ lines' = Append(lines, r)
            /\ lines' # lines /\ ~cut' => lines' = Append(lines, r)
        BY <1>0, <3>1, <3>2, RowWritten
      <3>4. /\ \A i \in DOMAIN lines : i \in DOMAIN lines' /\ lines'[i] = lines[i]
            /\ lines' # lines /\ ~cut' => RowIn(lines', Entry, provider)
        <4>1. CASE lines' = lines
          BY <4>1
        <4>2. CASE lines' = Append(lines, r)
          <5>1. r \in Line
            BY DEF Line
          <5>2. /\ Len(lines') = Len(lines) + 1 /\ lines' \in Seq(Line)
                /\ \A i \in 1..Len(lines) : lines'[i] = lines[i]
                /\ lines'[Len(lines) + 1] = r
            BY <1>0, <4>2, <5>1, AppendProperties
          <5>3. /\ DOMAIN lines = 1..Len(lines) /\ DOMAIN lines' = 1..Len(lines) + 1
                /\ Len(lines) \in Nat
            BY <1>0, <5>2
          <5>4. \E i \in DOMAIN lines' :
                   lines'[i].control = Entry /\ lines'[i].asked = provider
            BY <3>2, <5>2, <5>3
          <5> QED
            BY <5>2, <5>3, <5>4 DEF RowIn
        <4> QED
          BY <3>3, <4>1, <4>2
      <3>5. Readable
        BY <3>4 DEF Readable, IsRow
      <3>6. \A c, p : RowIn(lines, c, p) => RowIn(lines', c, p)
        BY <3>4 DEF RowIn
      <3>7. \A n \in 1..next' - 1 : n = next \/ n \in 1..next - 1
        BY <1>0, <3>1
      <3>8. next \in missed' \/ RowIn(lines', catalog[next], provider)
        BY <3>1, <3>4 DEF Entry
      <3> QED
        BY <2>1, <3>1, <3>5, <3>6, <3>7, <3>8 DEF EntriesCovered
    <2> QED
      BY <2>1, <2>2, <2>3, <2>4
  <1> QED
    BY <1>1, <1>2

(* An import that is done has left a row for every control it was given,   *)
(* also when other imports died on the way.                                *)
THEOREM CompletedImportCoversAlways == Spec => []CompletedImportCovers
  <1> DEFINE Inv == Basis /\ ImportAtStart /\ EntriesCovered
  <1>1. Init => Inv
    <2>1. Init => ImportAtStart /\ EntriesCovered
      BY DEF Init, RequirementsInit, ImportAtStart, EntriesCovered, At
    <2> QED
      BY <2>1, BasisInitially
  <1>2. Inv /\ [Next]_vars => Inv'
    <2>1. Basis => Session
      BY DEF Basis
    <2> QED
      BY <2>1, BasisKept, ImportAtStartKept, EntriesCoveredKept
  <1>3. Inv => CompletedImportCovers
    <2> SUFFICES ASSUME Inv, At("import", "done"), provider # NoProvider, Readable,
                        NEW n \in DOMAIN catalog \ missed
                 PROVE  \E i \in DOMAIN lines :
                            /\ lines[i].control = catalog[n]
                            /\ provider \in {lines[i].provider, lines[i].asked}
      BY DEF CompletedImportCovers
    <2>1. catalog \in Seq(Control) /\ next \in 1..Len(catalog) + 1 /\ next > Len(catalog)
      BY ImportAssumption DEF Basis, TypeOK, ImportTypeOK, AskedFor
    <2>2. n \in 1..next - 1
      BY <2>1
    <2> QED
      BY <2>2 DEF EntriesCovered, At, RowIn
  <1> QED
    BY <1>1, <1>2, <1>3, PTL DEF Spec

-----------------------------------------------------------------------------
(* What CompletedBuildIsLastApproved rests on: it holds at every row of a  *)
(* build, which only goes down the file.                                   *)
Files == {FileOf[c] : c \in Control}

LastOf(f) ==
    LET mine == LinesOf(f, begun)
    IN  mine # {} =>
          /\ f \in DOMAIN policies
          /\ \E last \in mine : /\ \A i \in mine : i <= last
                                /\ policies[f] \in {lines[last], Torn}
                                /\ last \in generated => policies[f] = lines[last]

RowsBuilt ==
    command = "build" =>
        /\ \A i \in begun : i <= row /\ Approved(i)
        /\ row \in begun <=> step = "saving"
        /\ \A f \in Files : LastOf(f)

(* The row whose file is opened is behind all that were before, so it is   *)
(* the last of its file; a write puts its policy there, if anything.       *)
LEMMA FileIsOfRow ==
    ASSUME Basis, RowsBuilt, command = "build", step \in {"asking", "saving"},
           lines' = lines, begun' = begun \cup {row},
           NEW p \in {lines[row], Torn}, Holds(p),
           \/ p = lines[row] /\ generated' \in {generated, generated \cup {row}}
           \/ row \notin generated /\ generated' = generated
    PROVE  /\ \A i \in begun' : i <= row /\ Approved(i)'
           /\ \A f \in Files : LastOf(f)'
  <1>0. /\ row \in Nat /\ begun \subseteq Nat /\ generated \subseteq begun
        /\ Approved(row)
    <2>1. /\ lines \in Seq(Line) /\ begun \subseteq DOMAIN lines
          /\ generated \subseteq begun
      BY DEF Basis, TypeOK, BuildTypeOK, RequirementsTypeOK
    <2> QED
      BY <2>1, PolicyFileTyped
  <1> DEFINE g == PolicyFile
  <1>1. /\ DOMAIN policies' = DOMAIN policies \cup {g}
        /\ policies'[g] = p
        /\ \A f \in DOMAIN policies : f # g => policies'[f] = policies[f]
    BY Held
  <1>2. \A i : (Approved(i)' <=> Approved(i)) /\ (IsRow(i)' <=> IsRow(i))
    BY DEF Approved, IsRow
  <1>3. \A i \in begun : i <= row /\ Approved(i)
    BY DEF RowsBuilt
  <1>4. \A i \in begun' : i <= row /\ Approved(i)'
    BY <1>0, <1>2, <1>3
  <1>5. ASSUME NEW f \in Files PROVE LastOf(f)'
    <2> DEFINE old == LinesOf(f, begun)
               new == {i \in begun \cup {row} : IsRow(i) /\ FileOf[lines[i].control] = f}
    <2>1. LastOf(f)' <=>
            (new # {} =>
               /\ f \in DOMAIN policies'
               /\ \E last \in new :
                    /\ \A i \in new : i <= last
                    /\ policies'[f] \in {lines[last], Torn}
                    /\ last \in generated' => policies'[f] = lines[last])
      <3>1. LinesOf(f, begun)' = new
        BY DEF LinesOf, IsRow
      <3> HIDE DEF new
      <3> QED
        BY <3>1 DEF LastOf
    <2>2. CASE f = g
      <3>1. row \in new
        BY <1>0, <2>2 DEF Approved, PolicyFile
      <3>2. \A i \in new : i <= row
        <4> SUFFICES ASSUME NEW i \in new PROVE i <= row
          OBVIOUS
        <4>1. i \in begun \/ i = row
          OBVIOUS
        <4>2. row \in Nat /\ \A j \in begun : j <= row
          BY <1>0, <1>3
        <4> HIDE DEF new
        <4> QED
          BY <4>1, <4>2
      <3>3. row \in generated' => policies'[f] = lines[row]
        BY <1>1, <2>2
      <3>4. f \in DOMAIN policies' /\ policies'[f] \in {lines[row], Torn}
        BY <1>1, <2>2
      <3> HIDE DEF new
      <3> QED
        BY <2>1, <3>1, <3>2, <3>3, <3>4
    <2>3. CASE f # g
      <3>1. new = old /\ row \notin new
        BY <2>3 DEF LinesOf, PolicyFile
      <3>2. LastOf(f)
        BY DEF RowsBuilt
      <3>3. old # {} =>
              /\ f \in DOMAIN policies
              /\ \E last \in old : /\ \A i \in old : i <= last
                                   /\ policies[f] \in {lines[last], Torn}
                                   /\ last \in generated => policies[f] = lines[last]
        BY <3>2 DEF LastOf
      <3>4. \A last \in new : last \in generated' => last \in generated
        BY <3>1
      <3> HIDE DEF old, new
      <3>5. ASSUME new # {}
            PROVE  /\ f \in DOMAIN policies'
                   /\ \E last \in new :
                        /\ \A i \in new : i <= last
                        /\ policies'[f] \in {lines[last], Torn}
                        /\ last \in generated' => policies'[f] = lines[last]
        <4>1. PICK last \in old : /\ \A i \in old : i <= last
                                  /\ policies[f] \in {lines[last], Torn}
                                  /\ last \in generated => policies[f] = lines[last]
          BY <3>1, <3>3, <3>5
        <4>2. f \in DOMAIN policies' /\ policies'[f] = policies[f]
          BY <1>1, <2>3, <3>1, <3>3, <3>5
        <4> QED
          BY <3>1, <3>4, <4>1, <4>2
      <3> QED
        BY <2>1, <3>5
    <2> QED
      BY <2>2, <2>3
  <1> QED
    BY <1>4, <1>5

(* What was built stays as long as the file, the lines and the policies do. *)
LEMMA NothingBuilt ==
    ASSUME RowsBuilt, command = "build", UNCHANGED <<lines, policies, begun, generated>>
    PROVE  /\ \A i \in begun' : i <= row /\ Approved(i)'
           /\ \A f \in Files : LastOf(f)'
  <1>1. \A i : Approved(i)' <=> Approved(i)
    BY DEF Approved, IsRow
  <1>2. \A f : LastOf(f)' <=> LastOf(f)
    BY DEF LastOf, LinesOf, IsRow, Torn
  <1> QED
    BY <1>1, <1>2 DEF RowsBuilt

(* A build only adds to what it has built, and nobody edits the file while *)
(* it runs.                                                                *)
LEMMA RowsBuiltKept ==
    ASSUME Basis, RowsBuilt, [Next]_vars
    PROVE  RowsBuilt'
  <1> SUFFICES ASSUME command' = "build"
               PROVE  /\ \A i \in begun' : i <= row' /\ Approved(i)'
                      /\ row' \in begun' <=> step' = "saving"
                      /\ \A f \in Files : LastOf(f)'
    BY DEF RowsBuilt, Files
  <1>0. row \in Nat /\ begun \subseteq Nat
    <2>1. lines \in Seq(Line) /\ row \in 1..Len(lines) + 1 /\ begun \subseteq DOMAIN lines
      BY DEF Basis, TypeOK, RequirementsTypeOK, BuildTypeOK
    <2>2. Len(lines) \in Nat /\ DOMAIN lines = 1..Len(lines)
      BY <2>1
    <2> QED
      BY <2>1, <2>2
  <1>1. CASE /\ command = "build" /\ step' = "rows"
             /\ row' = row + 1 /\ lines' = lines
             /\ \/ SavePolicy
                \/ WriteFails
                \/ UNCHANGED <<policies, begun, generated>>
    <2>1. /\ begun' = begun
          /\ \A i \in begun' : i <= row /\ Approved(i)'
          /\ \A f \in Files : LastOf(f)'
      <3>1. CASE UNCHANGED <<policies, begun, generated>>
        BY <1>1, <3>1, NothingBuilt
      <3>2. CASE SavePolicy \/ WriteFails
        <4>1. /\ step = "saving" /\ begun' = begun
              /\ \/ Holds(lines[row]) /\ generated' \in {generated, generated \cup {row}}
                 \/ UNCHANGED <<policies, generated>>
          BY <3>2 DEF SavePolicy, WriteFails, At
        <4>2. begun' = begun \cup {row}
          BY <1>1, <4>1 DEF RowsBuilt
        <4>3. CASE Holds(lines[row]) /\ generated' \in {generated, generated \cup {row}}
          BY <1>1, <4>1, <4>2, <4>3, FileIsOfRow
        <4>4. CASE UNCHANGED <<policies, generated>>
          BY <1>1, <4>1, <4>4, NothingBuilt
        <4> QED
          BY <4>1, <4>3, <4>4
      <3> QED
        BY <1>1, <3>1, <3>2
    <2>2. \A i \in begun : i <= row
      BY <1>1 DEF RowsBuilt
    <2>3. row + 1 \notin begun /\ \A i \in begun : i <= row + 1
      BY <1>0, <2>2
    <2> QED
      BY <1>1, <2>1, <2>3
  <1>2. CASE OpenPolicyFile
    <2>1. /\ command = "build" /\ step = "asking" /\ step' = "saving"
          /\ Holds(Torn) /\ begun' = begun \cup {row}
          /\ UNCHANGED <<lines, row, generated>>
      BY <1>2 DEF OpenPolicyFile, At, Goto, fileVars
    <2>2. row \notin generated
      BY <2>1 DEF RowsBuilt, Basis, TypeOK, BuildTypeOK
    <2>3. /\ \A i \in begun' : i <= row /\ Approved(i)'
          /\ \A f \in Files : LastOf(f)'
      BY <2>1, <2>2, FileIsOfRow
    <2> QED
      BY <2>1, <2>3
  <1>3. CASE /\ UNCHANGED buildVars
             /\ command = "build" => /\ lines' = lines
                                     /\ step' = "saving" <=> step = "saving"
             /\ command # "build" => command' # "build" \/ step' = "start"
    <2>1. UNCHANGED <<policies, row, begun, generated>>
      BY <1>3 DEF buildVars
    <2>2. CASE command = "build"
      BY <1>3, <2>1, <2>2, NothingBuilt DEF RowsBuilt
    <2>3. CASE command # "build"
      <3>1. begun' = {} /\ step' = "start"
        BY <1>3, <2>1, <2>3 DEF Basis, Session
      <3> QED
        BY <3>1 DEF LastOf, LinesOf
    <2> QED
      BY <2>2, <2>3
  <1>4. ~OpenTranslator /\ ~SaveTranslator
    BY DEF OpenTranslator, SaveTranslator, At, Goto
  <1> QED
    BY <1>1, <1>2, <1>3, <1>4, BuildMoves

(* A build that is done leaves in each file it opened the policy of the    *)
(* last requirement it opened it for, if it was saved, and none of an      *)
(* earlier one.                                                            *)
THEOREM CompletedBuildIsLastApprovedAlways == Spec => []CompletedBuildIsLastApproved
  <1> DEFINE Inv == Basis /\ RowsBuilt
  <1>1. Init => Inv
    <2>1. Init => RowsBuilt
      BY DEF Init, RequirementsInit, RowsBuilt
    <2> QED
      BY <2>1, BasisInitially
  <1>2. Inv /\ [Next]_vars => Inv'
    BY BasisKept, RowsBuiltKept
  <1>3. Inv => CompletedBuildIsLastApproved
    <2> SUFFICES ASSUME RowsBuilt, command = "build"
                 PROVE  CompletedBuildIsLastApproved
      BY DEF CompletedBuildIsLastApproved, At
    <2>1. \A f : \A i \in LinesOf(f, begun) : Approved(i)
      BY DEF RowsBuilt, LinesOf
    <2>2. ASSUME NEW f \in {FileOf[c] : c \in Control}
          PROVE  LinesOf(f, begun) # {} =>
                   /\ f \in DOMAIN policies
                   /\ \E last \in LinesOf(f, begun) :
                        /\ \A i \in LinesOf(f, begun) : i <= last
                        /\ policies[f] \in {lines[last], Torn}
                        /\ last \in generated => policies[f] = lines[last]
      <3>1. LastOf(f)
        BY DEF RowsBuilt, Files
      <3> QED
        BY <3>1 DEF LastOf
    <2> QED
      BY <2>1, <2>2 DEF CompletedBuildIsLastApproved
  <1> QED
    BY <1>1, <1>2, <1>3, PTL DEF Spec
=============================================================================
