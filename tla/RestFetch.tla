------------------------------ MODULE RestFetch ------------------------------
(***************************************************************************)
(* One call of Engine.Execute, the universal REST engine of the collector  *)
(* (collector/internal/providers/universal_rest/engine.go): what a job of  *)
(* Extraction does between "executing" and "recording".                    *)
(*                                                                         *)
(* Execute checks the configuration, then fetches one page, or follows the *)
(* next URLs of a paginated endpoint.  Every page is fetched by            *)
(* fetchSingle, which signs and sends a request up to MaxRetries + 1 times *)
(* and waits in between.  The vendor answers as it likes, or not at all.   *)
(*                                                                         *)
(* Time is counted in seconds from the start of the call and only passes   *)
(* where the code waits: for the vendor, for a signer, between attempts.   *)
(* The context ends by its deadline; one that is cancelled earlier is one  *)
(* with an earlier deadline.                                               *)
(***************************************************************************)
EXTENDS Integers, Sequences

CONSTANTS
    Url,            \* the pages of the vendor
    Start,          \* the resolved URL of the endpoint
    None,
    MaxPages,       \* pagination.max_pages, or the 100 of the engine
    MaxRetries,
    BaseBackoff,
    JobTimeout,     \* when the context of the job is done
    ClientTimeout,  \* http.Client.Timeout of the engine
    Latencies,      \* how long an answer and its body may take
    RetryAfters,    \* the numbers of seconds a 429 may ask for
    SignerTimes     \* how long a signer may take, whatever the context says

ASSUME UrlAssumption == Start \in Url /\ None \notin Url
ASSUME LimitsAssumption ==
    /\ MaxPages \in Nat \ {0}
    /\ MaxRetries \in Nat
ASSUME TimesAssumption ==
    /\ {BaseBackoff, JobTimeout, ClientTimeout} \subseteq Nat
    /\ Latencies \cup SignerTimes \subseteq Nat
    /\ RetryAfters \subseteq Int

VARIABLES
    endpoint,   \* the configuration and its environment, fixed by Init
    pc,         \* where the call is
    url,        \* currentURL
    attempt,    \* of the page at url
    backoff,    \* currentBackoff
    pages,      \* the findings so far: where each came from and led to
    outcome,    \* what the call returned
    now,        \* seconds since it began
    open,       \* response bodies not closed
    notBefore,  \* history: the end of the pause the vendor asked for
    requests,   \* history: requests sent to the vendor
    signing     \* history: seconds spent in signers

fetchVars == <<url, attempt, backoff>>
history == <<notBefore, requests, signing>>
vars == <<endpoint, pc, fetchVars, pages, outcome, now, open, history>>

(* "signer" stands for the six cloud and HMAC schemes, "header" and "body" *)
(* for the two places next_url_field can name.                             *)
Endpoint == [auth : {"none", "bearer", "oauth2", "signer"},
             credentials : BOOLEAN,
             pagination : {"none", "header", "body"},
             allow404 : BOOLEAN]

Page == [url : Url, next : Url \cup {None}, body : {"data", "null"}]

Later(a, b) == IF a > b THEN a ELSE b
Sooner(a, b) == IF a < b THEN a ELSE b

(* A request that hangs ends with the client's timeout or the context.     *)
HangsUntil == Later(now, Sooner(now + ClientTimeout, JobTimeout))

-----------------------------------------------------------------------------
Init ==
    /\ endpoint \in Endpoint
    /\ pc = "configuring"
    /\ url = Start
    /\ attempt = 0
    /\ backoff = BaseBackoff
    /\ pages = <<>>
    /\ outcome = "none"
    /\ now = 0
    /\ open = 0
    /\ notBefore = 0
    /\ requests = 0
    /\ signing = 0

Returns(kind) == pc' = "returned" /\ outcome' = kind

(* A URL that does not parse, a header with an unset variable or an oauth2 *)
(* flow without its settings fails; a bearer token that is not in the      *)
(* environment skips.                                                      *)
Configure ==
    /\ pc = "configuring"
    /\ \/ Returns("error")
       \/ /\ endpoint.auth = "bearer" /\ ~endpoint.credentials
          /\ Returns("skip")
       \/ /\ endpoint.auth # "bearer" \/ endpoint.credentials
          /\ pc' = "signing"
          /\ UNCHANGED outcome
    /\ UNCHANGED <<endpoint, fetchVars, pages, now, open, history>>

Signed(t) ==
    /\ pc' = "sending"
    /\ now' = t
    /\ UNCHANGED outcome

(* The token exchange of oauth2 is a request of the engine's client; an    *)
(* answer without a token, or none, is a failure and is not repeated.      *)
ExchangeToken ==
    \/ ~endpoint.credentials /\ Returns("skip") /\ UNCHANGED now
    \/ /\ endpoint.credentials
       /\ \E l \in Latencies :
            /\ now + l <= JobTimeout
            /\ Signed(now + l) \/ (Returns("error") /\ now' = now + l)
    \/ endpoint.credentials /\ Returns("error") /\ now' = HangsUntil

(* Whatever makes a signer fail, the engine calls it missing credentials.  *)
RunSigner ==
    \E t \in SignerTimes :
        /\ now' = now + t
        /\ signing' = signing + t
        /\ \/ Returns("skip")
           \/ /\ endpoint.credentials
              /\ pc' = "sending"
              /\ UNCHANGED outcome

(* buildRequest: every attempt is signed anew.  A next URL that no request *)
(* can be made of fails.                                                   *)
Sign ==
    /\ pc = "signing"
    /\ \/ Returns("error") /\ UNCHANGED <<now, signing>>
       \/ endpoint.auth \in {"none", "bearer"} /\ Signed(now) /\ UNCHANGED signing
       \/ endpoint.auth = "oauth2" /\ ExchangeToken /\ UNCHANGED signing
       \/ endpoint.auth = "signer" /\ RunSigner
    /\ UNCHANGED <<endpoint, fetchVars, pages, open, notBefore, requests>>

-----------------------------------------------------------------------------
(* Sending. *)

Sent == requests' = requests + 1

(* Fault: the loop condition admits one attempt too many. *)
TryAgainOnceMore ==
    /\ IF attempt > MaxRetries
       THEN Returns("error") /\ UNCHANGED attempt
       ELSE /\ attempt' = attempt + 1
            /\ pc' = "waiting"
            /\ UNCHANGED outcome
    /\ UNCHANGED url

TryAgain ==
    /\ IF attempt = MaxRetries
       THEN Returns("error") /\ UNCHANGED attempt
       ELSE /\ attempt' = attempt + 1
            /\ pc' = "waiting"
            /\ UNCHANGED outcome
    /\ UNCHANGED url

(* client.Do fails: no connection, the client's timeout, the context.      *)
NoAnswer ==
    /\ pc = "sending"
    /\ Sent
    /\ TryAgain
    /\ now' \in {now, HangsUntil}
    /\ UNCHANGED <<endpoint, backoff, pages, open, notBefore, signing>>

Answered ==
    /\ pc = "sending"
    /\ Sent
    /\ \E l \in Latencies : now + l <= JobTimeout /\ now' = now + l

(* Fault: an answer that will be retried is not closed. *)
ServerErrorLeftOpen ==
    /\ Answered
    /\ TryAgain
    /\ open' = open + 1
    /\ UNCHANGED <<endpoint, backoff, pages, notBefore, signing>>

(* 5xx, and a 429 without a number of seconds. *)
ServerError ==
    /\ Answered
    /\ TryAgain
    /\ UNCHANGED <<endpoint, backoff, pages, open, notBefore, signing>>

(* Fault: a Retry-After can only lower the backoff. *)
RateLimitedCapped ==
    /\ Answered
    /\ TryAgain
    /\ \E secs \in RetryAfters :
         /\ backoff' = Sooner(backoff, secs)
         /\ notBefore' = now' + secs
    /\ UNCHANGED <<endpoint, pages, open, signing>>

(* 429 with Retry-After: its seconds replace the backoff. *)
RateLimited ==
    /\ Answered
    /\ TryAgain
    /\ \E secs \in RetryAfters :
         /\ backoff' = secs
         /\ notBefore' = now' + secs
    /\ UNCHANGED <<endpoint, pages, open, signing>>

(* Any other status that is not 2xx: no retry. *)
Refused ==
    /\ Answered
    /\ Returns("error")
    /\ UNCHANGED <<endpoint, fetchVars, pages, open, notBefore, signing>>

-----------------------------------------------------------------------------
(* What follows a page. *)

(* Fault: the limit is not looked at. *)
NextPageUnlimited(next, body) ==
    /\ pages' = Append(pages, [url |-> url, next |-> next, body |-> body])
    /\ IF next = None
       THEN Returns("findings") /\ UNCHANGED fetchVars
       ELSE /\ pc' = "signing"
            /\ url' = next
            /\ attempt' = 0
            /\ backoff' = BaseBackoff
            /\ UNCHANGED outcome

(* Fault: currentURL is not moved on. *)
NextPageRestarts(next, body) ==
    /\ pages' = Append(pages, [url |-> url, next |-> next, body |-> body])
    /\ IF next = None \/ Len(pages) + 1 = MaxPages
       THEN Returns("findings") /\ UNCHANGED fetchVars
       ELSE /\ pc' = "signing"
            /\ attempt' = 0
            /\ backoff' = BaseBackoff
            /\ UNCHANGED <<url, outcome>>

(* fetchPaginated: a finding per page, until no next URL or the limit.     *)
NextPage(next, body) ==
    /\ pages' = Append(pages, [url |-> url, next |-> next, body |-> body])
    /\ IF next = None \/ Len(pages) + 1 = MaxPages
       THEN Returns("findings") /\ UNCHANGED fetchVars
       ELSE /\ pc' = "signing"
            /\ url' = next
            /\ attempt' = 0
            /\ backoff' = BaseBackoff
            /\ UNCHANGED outcome

(* Execute without pagination: a Link header with a next page is an error. *)
OnlyPage(link, body) ==
    /\ IF link # None
       THEN Returns("error") /\ UNCHANGED pages
       ELSE /\ pages' = <<[url |-> url, next |-> link, body |-> body]>>
            /\ Returns("findings")
    /\ UNCHANGED fetchVars

PageFetched(next, body) ==
    IF endpoint.pagination = "none" THEN OnlyPage(next, body)
                                    ELSE NextPage(next, body)

(* A tolerated 404: the body is "null", and the answer is not closed.  No  *)
(* next URL is found in that body, but its header may hold one.            *)
NotFound ==
    /\ Answered
    /\ endpoint.allow404
    /\ \E next \in Url \cup {None} :
         /\ endpoint.pagination = "body" => next = None
         /\ PageFetched(next, "null")
    /\ open' = open + 1
    /\ UNCHANGED <<endpoint, notBefore, signing>>

Accepted ==
    /\ Answered
    /\ pc' = "reading"
    /\ open' = open + 1
    /\ UNCHANGED <<endpoint, fetchVars, pages, outcome, notBefore, signing>>

(* The body is read to its end and closed, and leads to the next page.     *)
ReadBody ==
    /\ pc = "reading"
    /\ \E next \in Url \cup {None} : PageFetched(next, "data")
    /\ open' = open - 1
    /\ UNCHANGED <<endpoint, now, history>>

(* The vendor breaks off, or goes on until a timeout ends it. *)
ReadFails ==
    /\ pc = "reading"
    /\ Returns("error")
    /\ open' = open - 1
    /\ now' \in {now, HangsUntil}
    /\ UNCHANGED <<endpoint, fetchVars, pages, history>>

-----------------------------------------------------------------------------
(* Waiting: select on the context and a timer. *)

Pause == Later(backoff, 0)

(* Fault: the pause is slept through. *)
WaitOverUncut ==
    /\ pc = "waiting"
    /\ now' = now + Pause
    /\ backoff' = 2 * backoff
    /\ pc' = "signing"
    /\ UNCHANGED <<endpoint, url, attempt, pages, outcome, open, history>>

WaitOver ==
    /\ pc = "waiting"
    /\ Pause = 0 \/ now + Pause <= JobTimeout
    /\ now' = now + Pause
    /\ backoff' = 2 * backoff
    /\ pc' = "signing"
    /\ UNCHANGED <<endpoint, url, attempt, pages, outcome, open, history>>

WaitCancelled ==
    /\ pc = "waiting"
    /\ now + Pause >= JobTimeout
    /\ now' = Later(now, JobTimeout)
    /\ Returns("error")
    /\ UNCHANGED <<endpoint, fetchVars, pages, open, history>>

Terminated == pc = "returned" /\ UNCHANGED vars

Next ==
    \/ Configure
    \/ Sign
    \/ NoAnswer
    \/ ServerError
    \/ RateLimited
    \/ Refused
    \/ NotFound
    \/ Accepted
    \/ ReadBody
    \/ ReadFails
    \/ WaitOver
    \/ WaitCancelled
    \/ Terminated

Spec == Init /\ [][Next]_vars

-----------------------------------------------------------------------------
TypeOK ==
    /\ endpoint \in Endpoint
    /\ pc \in {"configuring", "signing", "sending", "reading", "waiting",
               "returned"}
    /\ url \in Url
    /\ attempt \in 0..MaxRetries
    /\ backoff \in Int
    /\ pages \in Seq(Page)
    /\ outcome \in {"none", "findings", "skip", "error"}
    /\ {now, open, requests, signing} \subseteq Nat
    /\ notBefore \in Int

(* What is returned is what the vendor has under the endpoint: the pages   *)
(* in their order from the first, each fetched from where the one before   *)
(* led, up to one that leads nowhere or to the limit (fetchPaginated); and *)
(* an endpoint without pagination never passes off a page whose Link       *)
(* header names a next one as all of it ("Strict Pagination Enforcement"); *)
(* hasNextLink does not look for a next page in the body.                  *)
FollowsTheChain ==
    outcome = "findings" =>
        /\ Len(pages) \in 1..MaxPages
        /\ pages[1].url = Start
        /\ \A i \in 1..(Len(pages) - 1) : pages[i + 1].url = pages[i].next
        /\ \/ pages[Len(pages)].next = None
           \/ endpoint.pagination # "none" /\ Len(pages) = MaxPages

(* However next URLs go round in circles and failures alternate with       *)
(* answers, the vendor gets at most MaxRetries + 1 requests for a page and *)
(* no page beyond the limit.                                               *)
BoundedRequests ==
    /\ requests <= (MaxRetries + 1) * Sooner(Len(pages) + 1, MaxPages)
    /\ Len(pages) <= MaxPages

(* Execute outlives the timeout of its job only by what its signers take,  *)
(* which do not all watch the context (fetchSingle's select).              *)
WithinTimeout == now <= JobTimeout + signing

(* However many attempts and pages it takes, a call that tolerates no 404  *)
(* leaves no answer open; a tolerated 404 is left open by fetchSingle.     *)
BodiesClosed ==
    pc = "returned" /\ ~endpoint.allow404 => open = 0

(* After a 429 with Retry-After the vendor is left alone that long,        *)
(* whatever else delays or repeats the attempts of that page.              *)
RetryAfterHonoured == [][requests' > requests => now >= notBefore]_vars

-----------------------------------------------------------------------------
(* The parts of the inductive invariant. *)

(* The pages so far hang together, and url is what comes after them.       *)
Linked ==
    /\ \A i \in 1..(Len(pages) - 1) : pages[i + 1].url = pages[i].next
    /\ pages # <<>> => pages[1].url = Start
    /\ pc # "returned" =>
         /\ outcome = "none"
         /\ Len(pages) < MaxPages
         /\ url = IF pages = <<>> THEN Start ELSE pages[Len(pages)].next
         /\ pages # <<>> => endpoint.pagination # "none"

(* The requests the code may have sent for n pages. *)
Budget(n) == (MaxRetries + 1) * n

WithinBudget ==
    /\ Len(pages) <= MaxPages
    /\ pc # "returned" => Len(pages) < MaxPages
    /\ pc \notin {"reading", "returned"} =>
         requests <= Budget(Len(pages)) + attempt
    /\ pc = "reading" => requests <= Budget(Len(pages)) + attempt + 1
    /\ pc = "returned" => requests <= Budget(Sooner(Len(pages) + 1, MaxPages))

(* The one answer in the reader's hands is all that is open. *)
OneBodyOpen ==
    /\ pc = "reading" => open > 0
    /\ ~endpoint.allow404 => open = IF pc = "reading" THEN 1 ELSE 0

(* The pause due ends no sooner than the one asked for. *)
PauseLongEnough ==
    /\ pc = "waiting" => notBefore <= now + Pause
    /\ pc \notin {"waiting", "returned"} => notBefore <= now

-----------------------------------------------------------------------------
(* A statement of the repository that the code does not keep. *)

(* ErrMissingCredentials is "returned when an integration's authentication *)
(* configuration references environment variables that are not set".       *)
SkipMeansNoCredentials == outcome = "skip" => ~endpoint.credentials
=============================================================================
