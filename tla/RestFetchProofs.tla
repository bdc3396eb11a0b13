--------------------------- MODULE RestFetchProofs ---------------------------
(* Proofs about one call of Execute, for any vendor, limits and times.     *)
EXTENDS RestFetch, TLAPS

-----------------------------------------------------------------------------
(* Types.  Each lemma takes the actions of one stage of the call.          *)

(* The initial state has the types. *)
LEMMA TypesInit == Init => TypeOK
  BY UrlAssumption, LimitsAssumption, TimesAssumption
  DEF Init, TypeOK, Endpoint, Page

(* A request that hangs ends later than now. *)
LEMMA HangEnds == TypeOK => HangsUntil \in Nat /\ now <= HangsUntil
  BY TimesAssumption DEF TypeOK, HangsUntil, Later, Sooner

(* Configuring and signing touch neither the page nor the attempt. *)
LEMMA TypesSign == TypeOK /\ (Configure \/ Sign) => TypeOK'
  <1> SUFFICES ASSUME TypeOK, Configure \/ Sign PROVE TypeOK'
    OBVIOUS
  <1>1. CASE Configure
    BY <1>1 DEF TypeOK, Configure, Returns, fetchVars, history
  <1>2. CASE Sign
    <2>1. HangsUntil \in Nat
      BY HangEnds
    <2>2. now' \in Nat /\ signing' \in Nat
      BY <1>2, <2>1, TimesAssumption
      DEF TypeOK, Sign, Signed, ExchangeToken, RunSigner, Returns
    <2>3. /\ pc' \in {"sending", "returned"}
          /\ outcome' \in {"none", "findings", "skip", "error"}
      BY <1>2 DEF TypeOK, Sign, Signed, ExchangeToken, RunSigner, Returns
    <2> QED
      BY <1>2, <2>2, <2>3 DEF TypeOK, Sign, fetchVars
  <1> QED
    BY <1>1, <1>2

(* A further attempt is one more of at most MaxRetries. *)
LEMMA TypesTryAgain ==
    ASSUME TypeOK, TryAgain
    PROVE  /\ pc' \in {"waiting", "returned"}
           /\ url' \in Url
           /\ attempt' \in 0..MaxRetries
           /\ outcome' \in {"none", "findings", "skip", "error"}
  BY LimitsAssumption DEF TypeOK, TryAgain, Returns

(* An attempt keeps the types, however it is answered. *)
LEMMA TypesAttempt ==
    TypeOK /\ (NoAnswer \/ ServerError \/ RateLimited \/ Refused) => TypeOK'
  <1> SUFFICES ASSUME TypeOK, NoAnswer \/ ServerError \/ RateLimited \/ Refused
               PROVE  TypeOK'
    OBVIOUS
  <1>1. CASE NoAnswer
    <2>1. HangsUntil \in Nat
      BY HangEnds
    <2> QED
      BY <1>1, <2>1, TypesTryAgain DEF TypeOK, NoAnswer, Sent
  <1>2. ASSUME Answered PROVE now' \in Nat /\ requests' \in Nat
    BY <1>2, TimesAssumption DEF TypeOK, Answered, Sent
  <1>3. CASE ServerError
    BY <1>2, <1>3, TypesTryAgain DEF TypeOK, ServerError
  <1>4. CASE RateLimited
    BY <1>2, <1>4, TypesTryAgain, TimesAssumption DEF TypeOK, RateLimited
  <1>5. CASE Refused
    BY <1>2, <1>5 DEF TypeOK, Refused, Returns, fetchVars
  <1> QED
    BY <1>1, <1>3, <1>4, <1>5

(* One more element of the set keeps a sequence over it one. *)
LEMMA SeqGrows ==
    ASSUME NEW S, NEW s \in Seq(S), NEW e \in S
    PROVE  <<e>> \in Seq(S) /\ Append(s, e) \in Seq(S)
  OBVIOUS

(* A page that was fetched is recorded, and followed or returned. *)
LEMMA TypesPage ==
    ASSUME TypeOK, NEW next \in Url \cup {None}, NEW body \in {"data", "null"},
           PageFetched(next, body)
    PROVE  /\ pc' \in {"signing", "returned"}
           /\ url' \in Url
           /\ attempt' \in 0..MaxRetries
           /\ backoff' \in Int
           /\ pages' \in Seq(Page)
           /\ outcome' \in {"none", "findings", "skip", "error"}
  <1> DEFINE page == [url |-> url, next |-> next, body |-> body]
  <1>1. page \in Page
    BY DEF TypeOK, Page
  <1>2. pages' \in {pages, <<page>>, Append(pages, page)}
    BY DEF PageFetched, OnlyPage, NextPage
  <1>3. pages' \in Seq(Page)
    <2>1. pages \in Seq(Page)
      BY DEF TypeOK
    <2>2. <<page>> \in Seq(Page) /\ Append(pages, page) \in Seq(Page)
      BY <1>1, <2>1, SeqGrows
    <2> QED
      BY <1>2, <2>1, <2>2
  <1>4. CASE endpoint.pagination = "none"
    BY <1>3, <1>4 DEF TypeOK, PageFetched, OnlyPage, Returns, fetchVars
  <1>5. CASE endpoint.pagination # "none"
    BY <1>3, <1>5, LimitsAssumption, TimesAssumption
    DEF TypeOK, PageFetched, NextPage, Returns, fetchVars
  <1> QED
    BY <1>4, <1>5

(* So does an answer that ends the attempts, or is read. *)
LEMMA TypesFetch ==
    ASSUME TypeOK, OneBodyOpen, NotFound \/ Accepted \/ ReadBody \/ ReadFails
    PROVE  TypeOK'
  <1>1. ASSUME Answered PROVE now' \in Nat /\ requests' \in Nat
    BY <1>1, TimesAssumption DEF TypeOK, Answered, Sent
  <1>2. CASE NotFound
    <2>1. PICK next \in Url \cup {None} : PageFetched(next, "null")
      BY <1>2 DEF NotFound
    <2> QED
      BY <1>1, <1>2, <2>1, TypesPage DEF TypeOK, NotFound
  <1>3. CASE Accepted
    BY <1>1, <1>3 DEF TypeOK, Accepted, fetchVars
  <1>4. ASSUME pc = "reading" PROVE open - 1 \in Nat
    BY <1>4 DEF TypeOK, OneBodyOpen
  <1>5. CASE ReadBody
    <2>1. PICK next \in Url \cup {None} : PageFetched(next, "data")
      BY <1>5 DEF ReadBody
    <2> QED
      BY <1>4, <1>5, <2>1, TypesPage DEF TypeOK, ReadBody, history
  <1>6. CASE ReadFails
    BY <1>4, <1>6, HangEnds DEF TypeOK, ReadFails, Returns, fetchVars, history
  <1> QED
    BY <1>2, <1>3, <1>5, <1>6

(* And a wait. *)
LEMMA TypesWait == TypeOK /\ (WaitOver \/ WaitCancelled) => TypeOK'
  <1> SUFFICES ASSUME TypeOK, WaitOver \/ WaitCancelled PROVE TypeOK'
    OBVIOUS
  <1>1. CASE WaitOver
    BY <1>1 DEF TypeOK, WaitOver, Pause, Later, history
  <1>2. CASE WaitCancelled
    BY <1>2, TimesAssumption
    DEF TypeOK, WaitCancelled, Returns, Later, fetchVars, history
  <1> QED
    BY <1>1, <1>2

(* Every step keeps the types. *)
LEMMA TypesNext == TypeOK /\ OneBodyOpen /\ [Next]_vars => TypeOK'
  <1> SUFFICES ASSUME TypeOK, OneBodyOpen, [Next]_vars PROVE TypeOK'
    OBVIOUS
  <1>1. CASE UNCHANGED vars
    BY <1>1 DEF TypeOK, vars, fetchVars, history
  <1>2. CASE Next
    BY <1>1, <1>2, TypesSign, TypesAttempt, TypesFetch, TypesWait
    DEF Next, Terminated
  <1> QED
    BY <1>1, <1>2

-----------------------------------------------------------------------------
(* Open answers. *)

(* What follows a page keeps pc away from the reader. *)
LEMMA PageNotReading ==
    ASSUME NEW next, NEW body, PageFetched(next, body)
    PROVE  pc' \in {"signing", "returned"}
  BY DEF PageFetched, OnlyPage, NextPage, Returns

(* A body is opened only when the one before it is closed. *)
LEMMA OneBodyOpenNext ==
    TypeOK /\ OneBodyOpen /\ [Next]_vars => OneBodyOpen'
  <1> SUFFICES ASSUME TypeOK, OneBodyOpen, [Next]_vars PROVE OneBodyOpen'
    OBVIOUS
  <1>1. endpoint' = endpoint
    BY DEF Next, vars, Configure, Sign, NoAnswer, ServerError, RateLimited,
           Refused, NotFound, Accepted, ReadBody, ReadFails, WaitOver,
           WaitCancelled, Terminated
  <1>2. CASE Configure \/ Sign
    BY <1>1, <1>2 DEF OneBodyOpen, Configure, Sign, Signed, ExchangeToken,
                      RunSigner, Returns
  <1>3. CASE NoAnswer \/ ServerError \/ RateLimited \/ Refused
    BY <1>1, <1>3 DEF OneBodyOpen, NoAnswer, ServerError, RateLimited, Refused,
                      Answered, TryAgain, Returns
  <1>4. CASE NotFound
    BY <1>1, <1>4, PageNotReading DEF OneBodyOpen, NotFound
  <1>5. CASE Accepted
    <2>1. pc # "reading" /\ pc' = "reading" /\ open' = open + 1 /\ open \in Nat
      BY <1>5 DEF TypeOK, Accepted, Answered
    <2>2. ~endpoint.allow404 => open = 0
      BY <2>1 DEF OneBodyOpen
    <2>3. open' > 0 /\ (open = 0 => open' = 1)
      BY <2>1
    <2> QED
      BY <1>1, <2>1, <2>2, <2>3 DEF OneBodyOpen
  <1>6. ASSUME ReadBody \/ ReadFails PROVE OneBodyOpen'
    <2>1. pc = "reading" /\ open' = open - 1
      BY <1>6 DEF ReadBody, ReadFails
    <2>2. pc' # "reading"
      BY <1>6, PageNotReading DEF ReadBody, ReadFails, Returns
    <2>3. ~endpoint.allow404 => open = 1
      BY <2>1 DEF OneBodyOpen
    <2>4. open = 1 => open' = 0
      BY <2>1
    <2> QED
      BY <1>1, <2>2, <2>3, <2>4 DEF OneBodyOpen
  <1>7. CASE WaitOver \/ WaitCancelled
    BY <1>1, <1>7 DEF OneBodyOpen, WaitOver, WaitCancelled, Returns
  <1>8. CASE UNCHANGED vars
    BY <1>8 DEF OneBodyOpen, vars
  <1> QED
    BY <1>2, <1>3, <1>4, <1>5, <1>6, <1>7, <1>8 DEF Next, Terminated

(* Every variable keeps its type: in particular no attempt beyond          *)
(* MaxRetries is made, and no answer is closed twice.                      *)
THEOREM FetchTypeCorrect == Spec => [](TypeOK /\ OneBodyOpen)
  <1>1. Init => TypeOK /\ OneBodyOpen
    BY TypesInit DEF Init, OneBodyOpen
  <1>2. TypeOK /\ OneBodyOpen /\ [Next]_vars => (TypeOK /\ OneBodyOpen)'
    BY TypesNext, OneBodyOpenNext
  <1> QED
    BY <1>1, <1>2, PTL DEF Spec

(* An endpoint that tolerates no 404 leaves no answer open. *)
THEOREM BodiesClosedAlways == Spec => []BodiesClosed
  <1>1. OneBodyOpen => BodiesClosed
    BY DEF OneBodyOpen, BodiesClosed
  <1> QED
    BY <1>1, FetchTypeCorrect, PTL
-----------------------------------------------------------------------------
(* Time. *)

(* No step goes beyond the timeout of the job. *)
LEMMA WithinTimeoutNext ==
    TypeOK /\ WithinTimeout /\ [Next]_vars => WithinTimeout'
  <1> SUFFICES ASSUME TypeOK, WithinTimeout, [Next]_vars PROVE WithinTimeout'
    OBVIOUS
  <1>1. /\ now \in Nat /\ signing \in Nat
        /\ JobTimeout \in Nat /\ ClientTimeout \in Nat
        /\ now <= JobTimeout + signing
    BY TimesAssumption DEF TypeOK, WithinTimeout
  <1>2. HangsUntil <= JobTimeout + signing
    BY <1>1 DEF HangsUntil, Later, Sooner
  <1>3. ASSUME Answered, signing' = signing PROVE WithinTimeout'
    BY <1>1, <1>3, TimesAssumption DEF Answered, WithinTimeout
  <1>4. CASE Sign
    BY <1>1, <1>2, <1>4, TimesAssumption
    DEF Sign, Signed, ExchangeToken, RunSigner, WithinTimeout
  <1>5. CASE NoAnswer
    BY <1>1, <1>2, <1>5 DEF NoAnswer, WithinTimeout
  <1>6. CASE ServerError \/ RateLimited \/ Refused \/ NotFound \/ Accepted
    BY <1>3, <1>6
    DEF ServerError, RateLimited, Refused, NotFound, Accepted
  <1>7. CASE Configure \/ ReadBody \/ ReadFails
    BY <1>1, <1>2, <1>7
    DEF Configure, ReadBody, ReadFails, history, WithinTimeout
  <1>8. CASE WaitOver \/ WaitCancelled
    <2>1. Pause \in Nat
      BY DEF TypeOK, Pause, Later
    <2> QED
      BY <1>1, <1>8, <2>1
      DEF WaitOver, WaitCancelled, Later, history, WithinTimeout
  <1>9. CASE UNCHANGED vars
    BY <1>9 DEF vars, history, WithinTimeout
  <1> QED
    BY <1>4, <1>5, <1>6, <1>7, <1>8, <1>9 DEF Next, Terminated

(* However often the vendor makes it wait or keeps it hanging, Execute     *)
(* outlives the timeout of its job by no more than its signers took.       *)
THEOREM WithinTimeoutAlways == Spec => []WithinTimeout
  <1>1. Init => WithinTimeout
    BY TimesAssumption DEF Init, WithinTimeout
  <1> QED
    BY <1>1, WithinTimeoutNext, FetchTypeCorrect, PTL DEF Spec

(* A pause is no shorter than the backoff, and never negative. *)
LEMMA PauseOnTop ==
    ASSUME NEW m \in Int, NEW t \in Int, NEW b \in Int, m <= t \/ m = t + b
    PROVE  m <= t + Later(b, 0)
  BY DEF Later

(* A pause is due only after the answer that asked for it. *)
LEMMA PauseLongEnoughNext ==
    TypeOK /\ OneBodyOpen /\ PauseLongEnough /\ [Next]_vars => PauseLongEnough'
  <1> SUFFICES ASSUME TypeOK, OneBodyOpen, PauseLongEnough, [Next]_vars
               PROVE  PauseLongEnough'
    OBVIOUS
  <1>1. /\ now \in Nat /\ notBefore \in Int /\ backoff \in Int
        /\ Pause \in Nat /\ backoff <= Pause
    BY DEF TypeOK, Pause, Later
  <1>2. ASSUME pc # "returned", pc # "waiting", notBefore' = notBefore,
               now' \in Int, now <= now'
        PROVE  PauseLongEnough'
    <2>1. notBefore <= now
      BY <1>2 DEF PauseLongEnough
    <2>2. backoff' \in Int
      BY TypesNext DEF TypeOK
    <2>3. notBefore' <= now'
      BY <1>1, <1>2, <2>1
    <2>4. notBefore' \in Int
      BY <1>1, <1>2
    <2>5. notBefore' <= now' + Later(backoff', 0)
      BY <1>2, <2>2, <2>3, <2>4, PauseOnTop
    <2> QED
      BY <2>3, <2>5 DEF PauseLongEnough, Pause
  <1>3. CASE Configure
    BY <1>1, <1>2, <1>3 DEF Configure, history
  <1>4. CASE Sign
    <2>1. HangsUntil \in Nat /\ now <= HangsUntil
      BY HangEnds
    <2>2. now' \in Int /\ now <= now'
      BY <1>1, <1>4, <2>1, TimesAssumption
      DEF Sign, Signed, ExchangeToken, RunSigner
    <2> QED
      BY <1>2, <1>4, <2>2 DEF Sign
  <1>5. ASSUME Answered PROVE pc = "sending" /\ now' \in Int /\ now <= now'
    BY <1>1, <1>5, TimesAssumption DEF Answered
  <1>6. CASE NoAnswer
    <2>1. HangsUntil \in Nat /\ now <= HangsUntil
      BY HangEnds
    <2> QED
      BY <1>1, <1>2, <1>6, <2>1 DEF NoAnswer
  <1>7. CASE ServerError \/ Refused \/ NotFound \/ Accepted
    BY <1>2, <1>5, <1>7 DEF ServerError, Refused, NotFound, Accepted
  <1>8. CASE RateLimited
    <2>1. PICK secs \in RetryAfters : backoff' = secs /\ notBefore' = now' + secs
      BY <1>8 DEF RateLimited
    <2>2. secs \in Int /\ now' \in Int
      BY <1>5, <1>8, TimesAssumption DEF RateLimited
    <2>3. pc' \in {"waiting", "returned"}
      BY <1>8 DEF RateLimited, TryAgain, Returns
    <2>4. notBefore' <= now' + Later(backoff', 0)
      BY <2>1, <2>2, PauseOnTop
    <2> QED
      BY <2>3, <2>4 DEF PauseLongEnough, Pause
  <1>9. CASE ReadBody \/ ReadFails
    <2>1. HangsUntil \in Nat /\ now <= HangsUntil
      BY HangEnds
    <2> QED
      BY <1>1, <1>2, <1>9, <2>1, PageNotReading
      DEF ReadBody, ReadFails, Returns, history
  <1>10. CASE WaitOver
    BY <1>1, <1>10 DEF WaitOver, history, PauseLongEnough
  <1>11. CASE WaitCancelled
    BY <1>11 DEF WaitCancelled, Returns, PauseLongEnough
  <1>12. CASE UNCHANGED vars
    BY <1>12 DEF vars, fetchVars, history, PauseLongEnough, Pause
  <1> QED
    BY <1>3, <1>4, <1>6, <1>7, <1>8, <1>9, <1>10, <1>11, <1>12
    DEF Next, Terminated

(* No request follows a 429 before the seconds it asked for have passed.   *)
THEOREM RetryAfterHonouredAlways == Spec => RetryAfterHonoured
  <1>1. Init => PauseLongEnough
    BY DEF Init, PauseLongEnough
  <1>2. /\ TypeOK /\ PauseLongEnough
        /\ [Next]_vars
        => [requests' > requests => now >= notBefore]_vars
    <2> SUFFICES ASSUME TypeOK, PauseLongEnough, Next, requests' > requests
                 PROVE  now >= notBefore
      BY DEF vars
    <2>1. requests' # requests
      BY DEF TypeOK
    <2>2. pc = "sending"
      BY <2>1 DEF Next, Configure, Sign, NoAnswer, ServerError, RateLimited,
                  Refused, NotFound, Accepted, Answered, ReadBody, ReadFails,
                  WaitOver, WaitCancelled, Terminated, vars, history
    <2> QED
      BY <2>2 DEF TypeOK, PauseLongEnough
  <1> QED
    BY <1>1, <1>2, PauseLongEnoughNext, FetchTypeCorrect, PTL
    DEF Spec, RetryAfterHonoured
-----------------------------------------------------------------------------
(* The pages. *)

(* A step that fetches no page keeps the pages linked. *)
LEMMA LinkedKept ==
    ASSUME Linked, pc # "returned", pages' = pages, url' = url,
           endpoint' = endpoint, pc' = "returned" \/ outcome' = outcome
    PROVE  Linked'
  BY DEF Linked

(* The page that follows url is linked to those before it. *)
LEMMA PageLinks ==
    ASSUME TypeOK, Linked, pc # "returned", endpoint' = endpoint,
           NEW next \in Url \cup {None}, NEW body \in {"data", "null"},
           PageFetched(next, body)
    PROVE  Linked' /\ FollowsTheChain'
  <1> DEFINE page == [url |-> url, next |-> next, body |-> body]
  <1>1. pages \in Seq(Page) /\ page.url = url /\ page.next = next
    BY DEF TypeOK
  <1>2. CASE endpoint.pagination = "none"
    <2>1. pages = <<>>
      BY <1>2 DEF Linked
    <2>2. CASE next # None
      BY <1>2, <2>1, <2>2
      DEF PageFetched, OnlyPage, Returns, Linked, FollowsTheChain
    <2>3. CASE next = None
      <3>1. pages' = <<page>> /\ pc' = "returned" /\ url = Start
        BY <1>2, <2>1, <2>3 DEF PageFetched, OnlyPage, Returns, Linked
      <3>2. Len(pages') = 1 /\ pages'[1] = page
        BY <3>1
      <3>3. Linked'
        BY <1>1, <3>1, <3>2 DEF Linked
      <3> QED
        BY <1>1, <2>3, <3>1, <3>2, <3>3, LimitsAssumption DEF FollowsTheChain
    <2> QED
      BY <2>2, <2>3
  <1>3. CASE endpoint.pagination # "none"
    <2>1. pages' = Append(pages, page)
      BY <1>3 DEF PageFetched, NextPage
    <2>2. /\ Len(pages') = Len(pages) + 1
          /\ pages'[Len(pages) + 1] = page
          /\ \A i \in 1..Len(pages) : pages'[i] = pages[i]
      BY <1>1, <2>1
    <2>3. \A i \in 1..(Len(pages') - 1) : pages'[i + 1].url = pages'[i].next
      <3>1. TAKE i \in 1..(Len(pages') - 1)
      <3>2. CASE i < Len(pages)
        BY <1>1, <2>2, <3>2 DEF Linked
      <3>3. CASE i = Len(pages)
        BY <1>1, <2>2, <3>3 DEF Linked
      <3> QED
        BY <1>1, <2>2, <3>2, <3>3
    <2>4. pages'[1].url = Start
      <3>1. CASE pages = <<>>
        BY <1>1, <2>2, <3>1 DEF Linked
      <3>2. CASE pages # <<>>
        BY <1>1, <2>2, <3>2 DEF Linked
      <3> QED
        BY <3>1, <3>2
    <2>5. pages' # <<>> /\ pages'[Len(pages')].next = next
      BY <1>1, <2>2
    <2>6. CASE next = None \/ Len(pages) + 1 = MaxPages
      <3>1. pc' = "returned"
        BY <1>3, <2>6 DEF PageFetched, NextPage, Returns
      <3>2. Len(pages') \in 1..MaxPages
        BY <1>1, <2>2, LimitsAssumption DEF Linked
      <3> QED
        BY <1>3, <2>2, <2>3, <2>4, <2>5, <2>6, <3>1, <3>2
        DEF Linked, FollowsTheChain
    <2>7. CASE next # None /\ Len(pages) + 1 # MaxPages
      <3>1. /\ pc' = "signing" /\ url' = next
            /\ outcome' = "none"
        BY <1>3, <2>7 DEF PageFetched, NextPage, Linked
      <3>2. Len(pages') < MaxPages
        BY <1>1, <2>2, <2>7, LimitsAssumption DEF Linked
      <3> QED
        BY <1>3, <2>3, <2>4, <2>5, <3>1, <3>2 DEF Linked, FollowsTheChain
    <2> QED
      BY <2>6, <2>7
  <1> QED
    BY <1>2, <1>3

(* Each page is reached by the link of the one before it. *)
LEMMA LinkedNext ==
    TypeOK /\ Linked /\ FollowsTheChain /\ [Next]_vars
        => (Linked /\ FollowsTheChain)'
  <1> SUFFICES ASSUME TypeOK, Linked, FollowsTheChain, [Next]_vars
               PROVE  Linked' /\ FollowsTheChain'
    OBVIOUS
  <1>1. ASSUME pc # "returned", pages' = pages, url' = url,
               endpoint' = endpoint,
               \/ outcome' = outcome
               \/ pc' = "returned" /\ outcome' # "findings"
        PROVE  Linked' /\ FollowsTheChain'
    BY <1>1, LinkedKept DEF Linked, FollowsTheChain
  <1>2. CASE Configure
    BY <1>1, <1>2 DEF Configure, Returns, fetchVars
  <1>3. CASE Sign
    BY <1>1, <1>3 DEF Sign, Signed, ExchangeToken, RunSigner, Returns, fetchVars
  <1>4. CASE NoAnswer \/ ServerError \/ RateLimited \/ Refused
    BY <1>1, <1>4 DEF NoAnswer, ServerError, RateLimited, Refused, Answered,
                      TryAgain, Returns, fetchVars
  <1>5. CASE Accepted \/ ReadFails
    BY <1>1, <1>5 DEF Accepted, Answered, ReadFails, Returns, fetchVars
  <1>6. CASE WaitOver \/ WaitCancelled
    BY <1>1, <1>6 DEF WaitOver, WaitCancelled, Returns, fetchVars
  <1>7. CASE NotFound
    <2>1. PICK next \in Url \cup {None} : PageFetched(next, "null")
      BY <1>7 DEF NotFound
    <2> QED
      BY <1>7, <2>1, PageLinks DEF NotFound, Answered
  <1>8. CASE ReadBody
    <2>1. PICK next \in Url \cup {None} : PageFetched(next, "data")
      BY <1>8 DEF ReadBody
    <2> QED
      BY <1>8, <2>1, PageLinks DEF ReadBody
  <1>9. CASE UNCHANGED vars
    BY <1>9 DEF vars, fetchVars, Linked, FollowsTheChain
  <1> QED
    BY <1>2, <1>3, <1>4, <1>5, <1>6, <1>7, <1>8, <1>9 DEF Next, Terminated

(* What Execute returns as findings is the vendor's chain of pages from    *)
(* the endpoint's URL, to its end or to the limit.                         *)
THEOREM FollowsTheChainAlways == Spec => []FollowsTheChain
  <1>1. Init => Linked /\ FollowsTheChain
    BY LimitsAssumption DEF Init, Linked, FollowsTheChain
  <1> QED
    BY <1>1, LinkedNext, FetchTypeCorrect, PTL DEF Spec

-----------------------------------------------------------------------------
(* The requests. *)

(* A page more adds its attempts to the budget. *)
LEMMA BudgetGrows ==
    ASSUME NEW n \in Nat
    PROVE  /\ Budget(n) \in Nat
           /\ Budget(n + 1) = Budget(n) + MaxRetries + 1
  BY LimitsAssumption DEF Budget

(* The last attempt at a page stays within the budget of the next. *)
LEMMA LastAttempt ==
    ASSUME NEW n \in Nat, NEW a \in 0..MaxRetries, NEW q \in Nat,
           q <= Budget(n) + a \/ q <= Budget(n) + a + 1
    PROVE  q <= Budget(n + 1)
  <1>1. /\ Budget(n) \in Nat
        /\ Budget(n + 1) = Budget(n) + MaxRetries + 1
    BY BudgetGrows
  <1> QED
    BY <1>1, LimitsAssumption

(* One more request, and either one more attempt or the end of the call.   *)
LEMMA AttemptWithinBudget ==
    ASSUME TypeOK, WithinBudget, pc = "sending", Sent, pages' = pages,
           \/ pc' = "waiting" /\ attempt' = attempt + 1
           \/ pc' = "reading" /\ attempt' = attempt
           \/ pc' = "returned"
    PROVE  WithinBudget'
  <1>1. /\ Len(pages) \in Nat /\ Len(pages) < MaxPages
        /\ requests \in Nat /\ attempt \in 0..MaxRetries
        /\ requests' = requests + 1
        /\ requests <= Budget(Len(pages)) + attempt
    BY DEF TypeOK, WithinBudget, Sent
  <1>2. Sooner(Len(pages) + 1, MaxPages) = Len(pages) + 1
    BY <1>1, LimitsAssumption DEF Sooner
  <1>3. /\ Budget(Len(pages)) \in Nat
        /\ Budget(Len(pages) + 1) = Budget(Len(pages)) + MaxRetries + 1
    BY <1>1, BudgetGrows
  <1>4. requests' <= Budget(Len(pages) + 1)
    BY <1>1, <1>3, LimitsAssumption
  <1> QED
    BY <1>1, <1>2, <1>3, <1>4, LimitsAssumption DEF WithinBudget
(* A page fetched by that last request, with budget for it.                *)
LEMMA PageWithinBudget ==
    ASSUME TypeOK, Len(pages) < MaxPages,
           requests' \in Nat,
           requests' <= Budget(Len(pages)) + attempt + 1,
           NEW next \in Url \cup {None}, NEW body \in {"data", "null"},
           endpoint.pagination = "none" => pages = <<>>,
           PageFetched(next, body)
    PROVE  WithinBudget'
  <1>1. /\ Len(pages) \in Nat /\ attempt \in 0..MaxRetries
        /\ pages \in Seq(Page)
    BY DEF TypeOK
  <1>2. /\ Budget(Len(pages)) \in Nat
        /\ Budget(Len(pages) + 1) = Budget(Len(pages)) + MaxRetries + 1
        /\ Budget(Len(pages) + 2) = Budget(Len(pages) + 1) + MaxRetries + 1
    <2>1. Len(pages) + 1 \in Nat /\ (Len(pages) + 1) + 1 = Len(pages) + 2
      BY <1>1
    <2> QED
      BY <1>1, <2>1, BudgetGrows
  <1>3. requests' <= Budget(Len(pages) + 1)
    BY <1>1, LastAttempt
  <1>4. pages' = pages \/ Len(pages') = Len(pages) + 1
    <2>1. CASE endpoint.pagination = "none"
      <3>1. Len(pages) = 0
        BY <2>1
      <3> QED
        BY <2>1, <3>1 DEF PageFetched, OnlyPage
    <2>2. CASE endpoint.pagination # "none"
      BY <1>1, <2>2 DEF PageFetched, NextPage
    <2> QED
      BY <2>1, <2>2
  <1>5. Len(pages') \in Nat /\ Len(pages') <= Len(pages) + 1
    BY <1>1, <1>4
  <1>6. CASE pc' = "returned"
    <2>1. \/ Sooner(Len(pages') + 1, MaxPages) = Len(pages) + 1
          \/ Sooner(Len(pages') + 1, MaxPages) = Len(pages) + 2
      BY <1>1, <1>4, LimitsAssumption DEF Sooner
    <2>2. requests' <= Budget(Sooner(Len(pages') + 1, MaxPages))
      BY <1>2, <1>3, <2>1, LimitsAssumption
    <2> QED
      BY <1>1, <1>5, <1>6, <2>2, LimitsAssumption DEF WithinBudget
  <1>7. CASE pc' # "returned"
    <2>1. /\ endpoint.pagination # "none" /\ pc' = "signing" /\ attempt' = 0
          /\ Len(pages) + 1 # MaxPages /\ Len(pages') = Len(pages) + 1
      BY <1>1, <1>7 DEF PageFetched, OnlyPage, NextPage, Returns
    <2> QED
      BY <1>1, <1>2, <1>3, <2>1, LimitsAssumption DEF WithinBudget
  <1> QED
    BY <1>6, <1>7

(* No step sends more requests than the budget. *)
LEMMA WithinBudgetNext ==
    TypeOK /\ Linked /\ WithinBudget /\ [Next]_vars => WithinBudget'
  <1> SUFFICES ASSUME TypeOK, Linked, WithinBudget, [Next]_vars
               PROVE  WithinBudget'
    OBVIOUS
  <1>1. ASSUME pc \notin {"returned", "reading"}, pages' = pages,
               requests' = requests, attempt' = attempt, pc' # "reading"
        PROVE  WithinBudget'
    <2>1. /\ Len(pages) \in Nat /\ attempt \in 0..MaxRetries
          /\ Len(pages) < MaxPages /\ requests \in Nat
          /\ requests <= Budget(Len(pages)) + attempt
      BY <1>1 DEF TypeOK, WithinBudget
    <2>2. Sooner(Len(pages) + 1, MaxPages) = Len(pages) + 1
      BY <2>1, LimitsAssumption DEF Sooner
    <2>3. requests <= Budget(Len(pages) + 1)
      BY <2>1, LastAttempt
    <2> QED
      BY <1>1, <2>1, <2>2, <2>3, LimitsAssumption DEF WithinBudget
  <1>2. CASE Configure
    BY <1>1, <1>2 DEF Configure, Returns, fetchVars, history
  <1>3. CASE Sign
    BY <1>1, <1>3 DEF Sign, Signed, ExchangeToken, RunSigner, Returns, fetchVars
  <1>4. CASE NoAnswer \/ ServerError \/ RateLimited
    BY <1>4, AttemptWithinBudget
    DEF NoAnswer, ServerError, RateLimited, Answered, TryAgain, Returns
  <1>5. CASE Refused \/ Accepted
    BY <1>5, AttemptWithinBudget DEF Refused, Accepted, Answered, Returns, fetchVars
  <1>6. CASE NotFound
    <2>1. PICK next \in Url \cup {None} : PageFetched(next, "null")
      BY <1>6 DEF NotFound
    <2>2. /\ requests' = requests + 1 /\ requests \in Nat /\ Len(pages) < MaxPages
          /\ requests <= Budget(Len(pages)) + attempt
      BY <1>6 DEF NotFound, Answered, Sent, TypeOK, WithinBudget
    <2>3. requests' \in Nat /\ requests' <= Budget(Len(pages)) + attempt + 1
      <3>1. Len(pages) \in Nat /\ attempt \in Nat
        BY LimitsAssumption DEF TypeOK
      <3>2. Budget(Len(pages)) \in Nat
        BY <3>1, BudgetGrows
      <3> QED
        BY <2>2, <3>1, <3>2
    <2>4. endpoint.pagination = "none" => pages = <<>>
      BY <1>6 DEF NotFound, Answered, Linked
    <2> QED
      BY <2>1, <2>2, <2>3, <2>4, PageWithinBudget
  <1>7. CASE ReadBody
    <2>1. PICK next \in Url \cup {None} : PageFetched(next, "data")
      BY <1>7 DEF ReadBody
    <2>2. /\ requests' = requests /\ requests \in Nat /\ Len(pages) < MaxPages
          /\ requests <= Budget(Len(pages)) + attempt + 1
      BY <1>7 DEF ReadBody, history, TypeOK, WithinBudget
    <2>3. endpoint.pagination = "none" => pages = <<>>
      BY <1>7 DEF ReadBody, Linked
    <2> QED
      BY <2>1, <2>2, <2>3, PageWithinBudget
  <1>8. CASE ReadFails
    <2>1. /\ Len(pages) \in Nat /\ attempt \in 0..MaxRetries
          /\ Len(pages) < MaxPages /\ requests \in Nat
          /\ requests <= Budget(Len(pages)) + attempt + 1
      BY <1>8 DEF TypeOK, WithinBudget, ReadFails
    <2>2. Sooner(Len(pages) + 1, MaxPages) = Len(pages) + 1
      BY <2>1, LimitsAssumption DEF Sooner
    <2>3. requests <= Budget(Len(pages) + 1)
      BY <2>1, LastAttempt
    <2> QED
      BY <1>8, <2>1, <2>2, <2>3, LimitsAssumption
      DEF WithinBudget, ReadFails, Returns, history
  <1>9. CASE WaitOver \/ WaitCancelled
    BY <1>1, <1>9 DEF WaitOver, WaitCancelled, Returns, fetchVars, history
  <1>10. CASE UNCHANGED vars
    BY <1>10 DEF vars, fetchVars, history, WithinBudget
  <1> QED
    BY <1>2, <1>3, <1>4, <1>5, <1>6, <1>7, <1>8, <1>9, <1>10
    DEF Next, Terminated

(* The vendor gets at most MaxRetries + 1 requests for each page, and none *)
(* for a page beyond the limit, even when its next URLs form a circle.     *)
THEOREM BoundedRequestsAlways == Spec => []BoundedRequests
  <1>1. Init => WithinBudget
    BY LimitsAssumption DEF Init, WithinBudget, Budget
  <1>2. Init => Linked
    BY LimitsAssumption DEF Init, Linked
  <1>3. TypeOK /\ WithinBudget => BoundedRequests
    <2> SUFFICES ASSUME TypeOK, WithinBudget PROVE BoundedRequests
      OBVIOUS
    <2>1. /\ Len(pages) \in Nat /\ attempt \in 0..MaxRetries
          /\ requests \in Nat /\ Len(pages) <= MaxPages
      BY DEF TypeOK, WithinBudget
    <2>2. CASE pc = "returned"
      BY <2>1, <2>2 DEF WithinBudget, BoundedRequests, Budget
    <2>3. CASE pc # "returned"
      <3>1. requests <= Budget(Len(pages)) + attempt + 1 /\ Len(pages) < MaxPages
        <4>1. Budget(Len(pages)) \in Nat
          BY <2>1, BudgetGrows
        <4> QED
          BY <2>1, <2>3, <4>1 DEF WithinBudget
      <3>2. Sooner(Len(pages) + 1, MaxPages) = Len(pages) + 1
        BY <2>1, <3>1, LimitsAssumption DEF Sooner
      <3>3. requests <= Budget(Len(pages) + 1)
        BY <2>1, <3>1, LastAttempt
      <3> QED
        BY <2>1, <3>2, <3>3 DEF BoundedRequests, Budget
    <2> QED
      BY <2>2, <2>3
  <1>4. Init => FollowsTheChain
    BY DEF Init, FollowsTheChain
  <1> QED
    BY <1>1, <1>2, <1>3, <1>4, LinkedNext, WithinBudgetNext, FetchTypeCorrect, PTL
    DEF Spec
=============================================================================
