----------------------------- MODULE TokenCache -----------------------------
(***************************************************************************)
(* The token caches: gcsStore.resolveToken and the credentials of the S3   *)
(* store (core/pkg/objstore), and SignAzureIdentity of the collector.      *)
(* Each holds its mutex while it asks the token service, so the goroutines *)
(* that call it queue up behind the one that asks.                         *)
(*                                                                         *)
(* A sync.Mutex wakes the goroutine that has waited longest, but does not  *)
(* give it the lock: one that calls just then may take it first.  The      *)
(* starvation mode of the mutex ends this only when a goroutine that was   *)
(* woken has lost, and a caller that is spinning keeps Unlock from waking  *)
(* any; so here a caller may overtake at every unlock.  Time is in ticks;  *)
(* what takes no time in the code takes no tick.                           *)
(***************************************************************************)
EXTENDS Integers, Sequences

CONSTANTS
    Callers,        \* how many goroutines there are
    Margin,         \* a token is renewed this long before its expiry
    FetchTimeout,   \* the timeout of the store's HTTP client
    JobTimeout,     \* the timeout of a collector job
    Lifetimes,      \* for how long a token may be issued
    MaxOvertaken,   \* bound on how many may overtake one goroutine
    MaxTime         \* bound on the time of a behaviour

ASSUME TokenCacheAssumption ==
    /\ Callers \in Nat
    /\ Margin \in Nat
    /\ FetchTimeout \in Nat
    /\ JobTimeout \in Nat
    /\ Lifetimes \subseteq Nat \ {0}
    /\ MaxOvertaken \in Nat
    /\ MaxTime \in Nat

Kind == {"gcs", "ecs", "azure"}
(* A caller in resolveToken: when it called, how many were there, how many *)
(* have overtaken it, and when the context of its job ends.                *)
Waiting == [arrived : Nat, ahead : Nat, overtaken : Nat, due : Nat]

None == [end |-> 0, life |-> 0, began |-> 0, arrived |-> -1]
Token == [end : Nat, life : Nat, began : Nat, arrived : Nat]

VARIABLES
    kind,       \* which cache this is
    now,        \* the time
    queue,      \* the callers in resolveToken; the first one has the mutex,
                \*   or gets it next
    fetch,      \* whether it is free, or what that one does
    began,      \* since when
    coming,     \* the token that is under way to it
    cache,      \* the token in the cache
    served      \* history: the token just handed out from the cache, if any

vars == <<kind, now, queue, fetch, began, coming, cache, served>>

Init ==
    /\ kind \in Kind
    /\ now = 0
    /\ queue = <<>>
    /\ fetch = "free"
    /\ began = 0
    /\ coming = None
    /\ cache = None
    /\ served = None

-----------------------------------------------------------------------------
(* How long the code takes the cached token for good: the GCS and Azure    *)
(* caches count from when the answer arrived, AWS states the expiry.       *)
Until == IF kind = "ecs" THEN cache.end ELSE cache.arrived + cache.life

(* Fault: without the margin. *)
FreshToTheEnd ==
    /\ cache # None
    /\ now <= Until

(* Fault: the margin is taken off when the token is stored, and again. *)
FreshLessTwice ==
    /\ cache # None
    /\ now + 2 * Margin < Until

Fresh ==
    /\ cache # None
    /\ IF kind = "ecs" THEN now + Margin <= Until ELSE now + Margin < Until

(* Fault: the Azure request has a timeout of its own instead of the        *)
(* context of the job.                                                     *)
FetchDueFromStart == began + (IF kind = "azure" THEN JobTimeout ELSE FetchTimeout)

(* When the request to the token service is given up. *)
FetchDue ==
    IF kind = "azure" THEN Head(queue).due ELSE began + FetchTimeout

(* The collector's caller brings the context of its job, which has some of *)
(* its time left; the stores' callers bring none that is looked at.        *)
Rests == IF kind = "azure" THEN 0..JobTimeout ELSE {0}

Caller(before, rest) ==
    [arrived |-> now, ahead |-> before, overtaken |-> 0, due |-> now + rest]

(* Lock: the caller queues up. *)
Call(rest) ==
    /\ Len(queue) < Callers
    /\ queue' = Append(queue, Caller(Len(queue), rest))
    /\ served' = None
    /\ UNCHANGED <<kind, now, fetch, began, coming, cache>>

(* Lock: the caller finds the mutex free, before those that wait for it.   *)
Overtake(rest) ==
    /\ queue # <<>>
    /\ fetch = "free"
    /\ Len(queue) < Callers
    /\ \A i \in DOMAIN queue : queue[i].overtaken < MaxOvertaken
    /\ queue' = <<Caller(0, rest)>> \o
                  [i \in DOMAIN queue |-> [queue[i] EXCEPT !.overtaken = @ + 1]]
    /\ served' = None
    /\ UNCHANGED <<kind, now, fetch, began, coming, cache>>

Unlock ==
    /\ queue' = Tail(queue)
    /\ fetch' = "free"
    /\ coming' = None
    /\ UNCHANGED <<kind, now, began>>

(* Whoever gets the mutex looks into the cache first, and holds it for no  *)
(* time when the token there is good.                                      *)
TakeCached ==
    /\ queue # <<>>
    /\ fetch = "free"
    /\ Fresh
    /\ served' = cache
    /\ Unlock
    /\ UNCHANGED cache

AskTokenService ==
    /\ queue # <<>>
    /\ fetch = "free"
    /\ ~Fresh
    /\ fetch' = "asking"
    /\ began' = now
    /\ served' = None
    /\ UNCHANGED <<kind, now, queue, coming, cache>>

(* The token service issues a token; its answer may take a while. *)
Issue(life) ==
    /\ queue # <<>>
    /\ fetch = "asking"
    /\ fetch' = "coming"
    /\ coming' = [end |-> now + life, life |-> life, began |-> began,
                  arrived |-> now]
    /\ served' = None
    /\ UNCHANGED <<kind, now, queue, began, cache>>

TokenArrives ==
    /\ queue # <<>>
    /\ fetch = "coming"
    /\ now < FetchDue
    /\ cache' = [coming EXCEPT !.arrived = now]
    /\ Unlock
    /\ served' = None

(* The service refuses, its answer is no token, or time is up.  The cache  *)
(* keeps what it has, and the next caller asks again.                      *)
FetchFails ==
    /\ queue # <<>>
    /\ fetch \in {"asking", "coming"}
    /\ Unlock
    /\ served' = None
    /\ UNCHANGED cache

(* A free mutex is taken at once, and a request ends in time.              *)
Tick ==
    /\ now < MaxTime
    /\ queue # <<>> => fetch # "free" /\ now < FetchDue
    /\ now' = now + 1
    /\ served' = None
    /\ UNCHANGED <<kind, queue, fetch, began, coming, cache>>

Next ==
    \/ \E rest \in Rests : Call(rest) \/ Overtake(rest)
    \/ TakeCached
    \/ AskTokenService
    \/ \E life \in Lifetimes : Issue(life)
    \/ TokenArrives
    \/ FetchFails
    \/ Tick

Spec == Init /\ [][Next]_vars

-----------------------------------------------------------------------------
(* A token from the cache has Margin left when it is handed out, less the  *)
(* time its own answer took: with the five minutes of the stores it is     *)
(* always good, with the minute of Azure if the answer took less.          *)
CachedTokenGood ==
    served # None =>
        now + Margin <= served.end + (served.arrived - served.began)

(* The token service is not asked for a new token before the last one is   *)
(* within Margin of its end, however many goroutines call at once.         *)
FetchesSpread ==
    fetch # "free" /\ cache # None => began + Margin >= cache.end

(* A goroutine waits for no more requests to the token service than there  *)
(* are goroutines that were before it or have overtaken it, and its own,   *)
(* each of them within its timeout.  In the collector those that were      *)
(* before it are done when a job's time has passed, and only one that      *)
(* overtakes can make it wait for as long again; its own context may have  *)
(* ended long before.                                                      *)
WaitBounded ==
    \A i \in DOMAIN queue :
        LET w == queue[i]
        IN  now - w.arrived <=
                IF kind = "azure" THEN (w.overtaken + 1) * JobTimeout
                ELSE (w.ahead + w.overtaken + 1) * FetchTimeout
=============================================================================
